-------------------------- MODULE AdminApp_proofs ---------------------------
(***************************************************************************)
(* The admin app: its product list and stock steppers (StockSync), the     *)
(* gallery of its edit dialog (GalleryEdit) and its session (AdminClient), *)
(* after what all their lists rest on (Lists, SequencesExt).               *)
(***************************************************************************)
EXTENDS Integers, Lists, StockSync, GalleryEdit, AdminClient, SequencesExt,
        FiniteSetTheorems, SequenceTheorems, TLAPS

-----------------------------------------------------------------------------
(***************************************************************************)
(* Lists                                                                   *)
(* The k-th smallest of a set of numbers, and lists changed at one place.  *)
(***************************************************************************)
\* The rank of a number in a set, counted from one.
Rank(I, i) == Cardinality({j \in I : j <= i})

\* A rank lies between one and the number of elements.
LEMMA RankRange ==
  ASSUME NEW I, I \subseteq Nat, IsFiniteSet(I), NEW i \in I
  PROVE  /\ Rank(I, i) \in 1..Cardinality(I) /\ Rank(I, i) \in Nat
         /\ Cardinality(I) \in Nat
         /\ IsFiniteSet({j \in I : j <= i})
<1> DEFINE upto == {j \in I : j <= i}
<1>1. upto \subseteq I
  OBVIOUS
<1>2. IsFiniteSet(upto) /\ Cardinality(upto) <= Cardinality(I)
  BY <1>1, FS_Subset
<1>3. Cardinality(upto) \in Nat /\ Cardinality(I) \in Nat
  BY <1>2, FS_CardinalityType
<1>4. i \in upto
  OBVIOUS
<1>5. Cardinality(upto) # 0
  BY <1>2, <1>4, FS_EmptySet
<1> QED BY <1>2, <1>3, <1>5 DEF Rank

\* A larger number has a larger rank.
LEMMA RankGrows ==
  ASSUME NEW I, I \subseteq Nat, IsFiniteSet(I), NEW i \in I, NEW j \in I, i < j
  PROVE  Rank(I, i) < Rank(I, j)
<1> DEFINE low == {k \in I : k <= i}
           high == {k \in I : k <= j}
<1>1. IsFiniteSet(low) /\ IsFiniteSet(high)
  BY RankRange
<1>2. Rank(I, i) \in Nat /\ Rank(I, j) \in Nat
  BY RankRange
<1>3. low \subseteq high
  <2> SUFFICES ASSUME NEW k \in low PROVE k \in high
    OBVIOUS
  <2>1. k \in I /\ k \in Nat /\ i \in Nat /\ j \in Nat /\ k <= i
    OBVIOUS
  <2> QED BY <2>1
<1>4. j \in high /\ j \notin low
  OBVIOUS
<1>5. Cardinality(low) <= Cardinality(high) /\ Cardinality(high) # Cardinality(low)
  BY <1>1, <1>3, <1>4, FS_Subset
<1> QED BY <1>2, <1>5 DEF Rank

\* So the rank tells two elements apart, and in which order they come.
LEMMA RankOrders ==
  ASSUME NEW I, I \subseteq Nat, IsFiniteSet(I), NEW i \in I, NEW j \in I
  PROVE  /\ Rank(I, i) = Rank(I, j) => i = j
         /\ Rank(I, i) < Rank(I, j) => i < j
<1>1. i \in Nat /\ j \in Nat /\ Rank(I, i) \in Nat /\ Rank(I, j) \in Nat
  BY RankRange
<1>2. CASE i < j
  <2>1. Rank(I, i) < Rank(I, j)
    BY <1>2, RankGrows
  <2> QED BY <1>1, <1>2, <2>1
<1>3. CASE j < i
  <2>1. Rank(I, j) < Rank(I, i)
    BY <1>3, RankGrows
  <2> QED BY <1>1, <1>3, <2>1
<1>4. CASE i = j
  BY <1>1, <1>4
<1> QED BY <1>1, <1>2, <1>3, <1>4

\* Every place up to the number of elements is taken: were one free, the ranks
\* would lead the set into one with fewer elements without a collision.
LEMMA NthExists ==
  ASSUME NEW I, I \subseteq Nat, IsFiniteSet(I), NEW k \in 1..Cardinality(I)
  PROVE  \E i \in I : Rank(I, i) = k
<1> SUFFICES ASSUME \A i \in I : Rank(I, i) # k PROVE FALSE
  OBVIOUS
<1> DEFINE n == Cardinality(I)
           rest == 1..n \ {k}
           f == [i \in I |-> Rank(I, i)]
<1>1. n \in Nat
  BY FS_CardinalityType
<1>2. IsFiniteSet(1..n) /\ Cardinality(1..n) = n
  BY <1>1, FS_Interval
<1>3. IsFiniteSet(rest) /\ Cardinality(rest) = n - 1
  BY <1>2, FS_RemoveElement
<1>4. f \in [I -> rest]
  BY RankRange
<1>5. Cardinality(rest) < Cardinality(I)
  BY <1>1, <1>3
<1> HIDE DEF rest, f
<1>6. \E i, j \in I : i # j /\ f[i] = f[j]
  BY <1>3, <1>4, <1>5, FS_PigeonHole
<1>7. PICK i, j \in I : i # j /\ f[i] = f[j]
  BY <1>6
<1> QED BY <1>7, RankOrders DEF f

\* Nth finds the element of rank k.
LEMMA NthRank ==
  ASSUME NEW I, I \subseteq Nat, IsFiniteSet(I), NEW k \in 1..Cardinality(I)
  PROVE  Nth(I, k) \in I /\ Rank(I, Nth(I, k)) = k
<1>1. \E i \in I : Cardinality({j \in I : j <= i}) = k
  BY NthExists DEF Rank
<1> QED BY <1>1 DEF Nth, Rank

\* An element is the Nth of its rank.
LEMMA NthOfRank ==
  ASSUME NEW I, I \subseteq Nat, IsFiniteSet(I), NEW i \in I
  PROVE  Nth(I, Rank(I, i)) = i
<1> DEFINE j == Nth(I, Rank(I, i))
<1>1. Rank(I, i) \in 1..Cardinality(I) /\ Rank(I, i) \in Nat
  BY RankRange
<1>2. j \in I /\ Rank(I, j) = Rank(I, i)
  BY <1>1, NthRank
<1> HIDE DEF j
<1>3. j = i
  BY <1>2, RankOrders
<1> QED BY <1>3 DEF j

\* Places grow with their elements.
LEMMA NthGrows ==
  ASSUME NEW I, I \subseteq Nat, IsFiniteSet(I),
         NEW k \in 1..Cardinality(I), NEW m \in 1..Cardinality(I), k < m
  PROVE  Nth(I, k) < Nth(I, m)
<1> DEFINE i == Nth(I, k)
           j == Nth(I, m)
<1>1. i \in I /\ j \in I /\ Rank(I, i) = k /\ Rank(I, j) = m
  BY NthRank
<1> HIDE DEF i, j
<1>2. i < j
  BY <1>1, RankOrders
<1> QED BY <1>2 DEF i, j

\* The places of an unbroken run of numbers are the numbers themselves.
LEMMA NthOfInterval ==
  ASSUME NEW n \in Nat, NEW k \in 1..n
  PROVE  Nth(1..n, k) = k
<1>1. IsFiniteSet(1..n) /\ Cardinality(1..n) = n
  BY FS_Interval
<1>2. {j \in 1..n : j <= k} = 1..k
  OBVIOUS
<1>3. Cardinality(1..k) = k
  BY FS_Interval
<1>4. Rank(1..n, k) = k
  BY <1>2, <1>3 DEF Rank
<1> QED BY <1>1, <1>4, NthOfRank

-----------------------------------------------------------------------------
(* Lists changed at one place                                              *)

\* What RemoveAt returns, place by place.
LEMMA RemoveAtShape ==
  ASSUME NEW S, NEW s \in Seq(S), NEW i \in 1..Len(s)
  PROVE  /\ RemoveAt(s, i) \in Seq(S)
         /\ Len(RemoveAt(s, i)) = Len(s) - 1
         /\ \A j \in 1..Len(s) - 1 : RemoveAt(s, i)[j] = IF j < i THEN s[j] ELSE s[j + 1]
<1> DEFINE a == SubSeq(s, 1, i - 1)
           b == SubSeq(s, i + 1, Len(s))
<1>1. Len(s) \in Nat /\ i \in Nat /\ i >= 1 /\ i <= Len(s)
  OBVIOUS
<1>2. /\ a \in Seq(S) /\ Len(a) = i - 1
      /\ \A j \in 1..i - 1 : a[j] = s[j]
  BY <1>1
<1>3. /\ b \in Seq(S) /\ Len(b) = Len(s) - i
      /\ \A j \in 1..Len(s) - i : b[j] = s[i + j]
  BY <1>1
<1> HIDE DEF a, b
<1>4. /\ a \o b \in Seq(S) /\ Len(a \o b) = Len(a) + Len(b)
      /\ \A j \in 1..Len(a) + Len(b) : (a \o b)[j] = IF j <= Len(a) THEN a[j] ELSE b[j - Len(a)]
  BY <1>2, <1>3, ConcatProperties
<1>5. ASSUME NEW j \in 1..Len(s) - 1
      PROVE  (a \o b)[j] = IF j < i THEN s[j] ELSE s[j + 1]
  BY <1>1, <1>2, <1>3, <1>4
<1>6. Len(a \o b) = Len(s) - 1
  BY <1>1, <1>2, <1>3, <1>4
<1> QED BY <1>4, <1>5, <1>6 DEF RemoveAt, a, b

\* What InsertAt returns, place by place.
LEMMA InsertAtShape ==
  ASSUME NEW S, NEW s \in Seq(S), NEW i \in 1..Len(s) + 1, NEW e \in S
  PROVE  /\ InsertAt(s, i, e) \in Seq(S)
         /\ Len(InsertAt(s, i, e)) = Len(s) + 1
         /\ \A j \in 1..Len(s) + 1 : InsertAt(s, i, e)[j] =
              IF j < i THEN s[j] ELSE IF j = i THEN e ELSE s[j - 1]
<1> DEFINE a == SubSeq(s, 1, i - 1)
           b == SubSeq(s, i, Len(s))
           c == a \o <<e>>
<1>1. Len(s) \in Nat /\ i \in Nat /\ i >= 1 /\ i <= Len(s) + 1
  OBVIOUS
<1>2. /\ a \in Seq(S) /\ Len(a) = i - 1
      /\ \A j \in 1..i - 1 : a[j] = s[j]
  BY <1>1
<1>3. /\ b \in Seq(S) /\ Len(b) = Len(s) - i + 1
      /\ \A j \in 1..Len(s) - i + 1 : b[j] = s[i + j - 1]
  BY <1>1
<1> HIDE DEF a, b
<1>4. /\ c \in Seq(S) /\ Len(c) = i
      /\ \A j \in 1..i : c[j] = IF j < i THEN a[j] ELSE e
  BY <1>1, <1>2
<1> HIDE DEF c
<1>5. /\ c \o b \in Seq(S) /\ Len(c \o b) = Len(s) + 1
      /\ \A j \in 1..Len(s) + 1 : (c \o b)[j] = IF j <= i THEN c[j] ELSE b[j - i]
  BY <1>1, <1>3, <1>4, ConcatProperties
<1>6. ASSUME NEW j \in 1..Len(s) + 1
      PROVE  (c \o b)[j] = IF j < i THEN s[j] ELSE IF j = i THEN e ELSE s[j - 1]
  BY <1>1, <1>2, <1>3, <1>4, <1>5
<1> QED BY <1>5, <1>6 DEF InsertAt, a, b, c

\* Min of a non-empty set of numbers is its first element.
LEMMA MinIsFirst ==
  ASSUME NEW I, I \subseteq Nat, IsFiniteSet(I), I # {}
  PROVE  Min(I) \in I /\ \A j \in I : Min(I) <= j
<1>1. Cardinality(I) \in Nat /\ Cardinality(I) # 0
  BY FS_CardinalityType, FS_EmptySet
<1> DEFINE i == Nth(I, 1)
<1>2. 1 \in 1..Cardinality(I)
  BY <1>1
<1>3. i \in I /\ Rank(I, i) = 1
  BY <1>2, NthRank
<1> HIDE DEF i
<1>4. ASSUME NEW j \in I PROVE i <= j
  <2>1. Rank(I, j) \in 1..Cardinality(I) /\ Rank(I, j) \in Nat
    BY RankRange
  <2>2. Rank(I, i) = Rank(I, j) \/ Rank(I, i) < Rank(I, j)
    BY <1>3, <2>1
  <2>3. i = j \/ i < j
    BY <1>3, <2>2, RankOrders
  <2>4. i \in Nat /\ j \in Nat
    BY <1>3
  <2> QED BY <2>3, <2>4
<1> QED BY <1>3, <1>4 DEF Min

\* Picking every place of a list leaves it as it is.
LEMMA PickedAll ==
  ASSUME NEW S, NEW n \in Nat, NEW s \in [1..n -> S]
  PROVE  Picked(s, 1..n) = s
<1>1. Cardinality(1..n) = n
  BY FS_Interval
<1> QED BY <1>1, NthOfInterval DEF Picked

-----------------------------------------------------------------------------

\* Taking an entry out of a list without repetitions takes out its value.
LEMMA RemoveAtSet ==
  ASSUME NEW S, NEW s \in Seq(S), IsInjective(s), NEW i \in 1..Len(s)
  PROVE  /\ IsInjective(RemoveAt(s, i))
         /\ ToSet(RemoveAt(s, i)) = ToSet(s) \ {s[i]}
<1> DEFINE r == RemoveAt(s, i)
<1>1. /\ r \in Seq(S) /\ Len(r) = Len(s) - 1 /\ Len(s) \in Nat /\ i \in Nat /\ i >= 1 /\ i <= Len(s)
      /\ \A j \in 1..Len(s) - 1 : r[j] = IF j < i THEN s[j] ELSE s[j + 1]
  BY RemoveAtShape
<1> HIDE DEF r
<1>2. DOMAIN r = 1..Len(s) - 1 /\ DOMAIN s = 1..Len(s)
  BY <1>1
<1>3. \A j, k \in 1..Len(s) : s[j] = s[k] => j = k
  BY <1>2 DEF IsInjective
<1>4. \A j, k \in 1..Len(s) - 1 : r[j] = r[k] => j = k
  <2> SUFFICES ASSUME NEW j \in 1..Len(s) - 1, NEW k \in 1..Len(s) - 1, r[j] = r[k] PROVE j = k
    OBVIOUS
  <2> DEFINE u == IF j < i THEN j ELSE j + 1
             v == IF k < i THEN k ELSE k + 1
  <2>1. u \in 1..Len(s) /\ v \in 1..Len(s) /\ s[u] = s[v]
    BY <1>1
  <2>2. u = v
    BY <1>3, <2>1
  <2> QED BY <1>1, <2>2
<1>5. ASSUME NEW x \in ToSet(r) PROVE x \in ToSet(s) \ {s[i]}
  <2>1. PICK j \in 1..Len(s) - 1 : x = r[j]
    BY <1>2, <1>5 DEF ToSet
  <2> DEFINE u == IF j < i THEN j ELSE j + 1
  <2>2. u \in 1..Len(s) /\ u # i /\ x = s[u]
    BY <1>1, <2>1
  <2> HIDE DEF u
  <2>3. x \in ToSet(s) /\ x # s[i]
    BY <1>1, <1>2, <1>3, <2>2 DEF ToSet
  <2> QED BY <2>3
<1>6. ASSUME NEW x \in ToSet(s), x # s[i] PROVE x \in ToSet(r)
  <2>1. PICK j \in 1..Len(s) : x = s[j]
    BY <1>2, <1>6 DEF ToSet
  <2> DEFINE u == IF j < i THEN j ELSE j - 1
  <2>2. u \in 1..Len(s) - 1 /\ x = r[u]
    BY <1>1, <1>6, <2>1
  <2> HIDE DEF u
  <2> QED BY <1>2, <2>2 DEF ToSet
<1>7. IsInjective(r)
  BY <1>2, <1>4 DEF IsInjective
<1>8. ToSet(r) = ToSet(s) \ {s[i]}
  BY <1>5, <1>6
<1> QED BY <1>7, <1>8 DEF r

\* Putting in a value that a list does not have keeps it without repetitions.
LEMMA InsertAtSet ==
  ASSUME NEW S, NEW s \in Seq(S), IsInjective(s), NEW i \in 1..Len(s) + 1,
         NEW e \in S, e \notin ToSet(s)
  PROVE  /\ IsInjective(InsertAt(s, i, e))
         /\ ToSet(InsertAt(s, i, e)) = ToSet(s) \cup {e}
<1> DEFINE r == InsertAt(s, i, e)
<1>1. /\ r \in Seq(S) /\ Len(r) = Len(s) + 1 /\ Len(s) \in Nat /\ i \in Nat /\ i >= 1 /\ i <= Len(s) + 1
      /\ \A j \in 1..Len(s) + 1 : r[j] = IF j < i THEN s[j] ELSE IF j = i THEN e ELSE s[j - 1]
  BY InsertAtShape
<1> HIDE DEF r
<1>2. DOMAIN r = 1..Len(s) + 1 /\ DOMAIN s = 1..Len(s)
  BY <1>1
<1>3. /\ \A j, k \in 1..Len(s) : s[j] = s[k] => j = k
      /\ \A j \in 1..Len(s) : s[j] # e
  BY <1>2 DEF IsInjective, ToSet
<1>4. \A j, k \in 1..Len(s) + 1 : r[j] = r[k] => j = k
  <2> SUFFICES ASSUME NEW j \in 1..Len(s) + 1, NEW k \in 1..Len(s) + 1, r[j] = r[k] PROVE j = k
    OBVIOUS
  <2> DEFINE u == IF j < i THEN j ELSE j - 1
             v == IF k < i THEN k ELSE k - 1
  <2>1. CASE j # i /\ k # i
    <3>1. u \in 1..Len(s) /\ v \in 1..Len(s) /\ s[u] = s[v]
      BY <1>1, <2>1
    <3>2. u = v
      BY <1>3, <3>1
    <3> QED BY <1>1, <2>1, <3>2
  <2>2. CASE j = i /\ k # i
    <3>1. v \in 1..Len(s) /\ s[v] = e
      BY <1>1, <2>2
    <3> QED BY <1>3, <3>1
  <2>3. CASE j # i /\ k = i
    <3>1. u \in 1..Len(s) /\ s[u] = e
      BY <1>1, <2>3
    <3> QED BY <1>3, <3>1
  <2> QED BY <2>1, <2>2, <2>3
<1>5. ASSUME NEW x \in ToSet(r) PROVE x \in ToSet(s) \cup {e}
  <2>1. PICK j \in 1..Len(s) + 1 : x = r[j]
    BY <1>2, <1>5 DEF ToSet
  <2>2. CASE j = i
    BY <1>1, <2>1, <2>2
  <2>3. CASE j # i
    <3> DEFINE u == IF j < i THEN j ELSE j - 1
    <3>1. u \in 1..Len(s) /\ x = s[u]
      BY <1>1, <2>1, <2>3
    <3> HIDE DEF u
    <3> QED BY <1>2, <3>1 DEF ToSet
  <2> QED BY <2>2, <2>3
<1>6. ASSUME NEW x \in ToSet(s) \cup {e} PROVE x \in ToSet(r)
  <2>1. CASE x = e
    <3>1. i \in DOMAIN r /\ r[i] = e
      BY <1>1, <1>2
    <3> QED BY <2>1, <3>1 DEF ToSet
  <2>2. CASE x \in ToSet(s)
    <3>1. PICK j \in 1..Len(s) : x = s[j]
      BY <1>2, <2>2 DEF ToSet
    <3> DEFINE u == IF j < i THEN j ELSE j + 1
    <3>2. u \in 1..Len(s) + 1 /\ x = r[u]
      BY <1>1, <3>1
    <3> HIDE DEF u
    <3> QED BY <1>2, <3>2 DEF ToSet
  <2> QED BY <1>6, <2>1, <2>2
<1>7. IsInjective(r)
  BY <1>2, <1>4 DEF IsInjective
<1>8. ToSet(r) = ToSet(s) \cup {e}
  BY <1>5, <1>6
<1> QED BY <1>7, <1>8 DEF r

\* So does adding it at the end.
LEMMA AppendSet ==
  ASSUME NEW S, NEW s \in Seq(S), IsInjective(s), NEW e \in S, e \notin ToSet(s)
  PROVE  /\ Append(s, e) \in Seq(S) /\ Len(Append(s, e)) = Len(s) + 1
         /\ IsInjective(Append(s, e))
         /\ ToSet(Append(s, e)) = ToSet(s) \cup {e}
<1> DEFINE r == Append(s, e)
<1>1. /\ r \in Seq(S) /\ Len(r) = Len(s) + 1 /\ Len(s) \in Nat
      /\ \A j \in 1..Len(s) : r[j] = s[j]
      /\ r[Len(s) + 1] = e
  OBVIOUS
<1> HIDE DEF r
<1>2. DOMAIN r = 1..Len(s) + 1 /\ DOMAIN s = 1..Len(s)
  BY <1>1
<1>3. /\ \A j, k \in 1..Len(s) : s[j] = s[k] => j = k
      /\ \A j \in 1..Len(s) : s[j] # e
  BY <1>2 DEF IsInjective, ToSet
<1>4. \A j, k \in 1..Len(s) + 1 : r[j] = r[k] => j = k
  BY <1>1, <1>3
<1>5. \A x : x \in ToSet(r) <=> x \in ToSet(s) \cup {e}
  <2>1. \A x \in ToSet(r) : x \in ToSet(s) \cup {e}
    BY <1>1, <1>2 DEF ToSet
  <2>2. \A x \in ToSet(s) : x \in ToSet(r)
    BY <1>1, <1>2 DEF ToSet
  <2>3. e \in ToSet(r)
    BY <1>1, <1>2 DEF ToSet
  <2> QED BY <2>1, <2>2, <2>3
<1>6. IsInjective(r)
  BY <1>2, <1>4 DEF IsInjective
<1>7. ToSet(r) = ToSet(s) \cup {e}
  BY <1>5
<1> QED BY <1>1, <1>6, <1>7 DEF r

-----------------------------------------------------------------------------
(***************************************************************************)
(* The gallery of the edit dialog                                          *)
(***************************************************************************)
Pictures == Existing \cup New

\* A save under way is the loop at one of the pictures it uploads.
SaveShape ==
  saving # Editing =>
    \E length \in Nat : \E picture \in New : \E at \in 1..length :
    \E order \in [1..length -> Pictures \cup {Blank}] :
      saving = [pc |-> "uploading", picture |-> picture, at |-> at,
                order |-> order, length |-> length]

\* What the gallery shows, what is queued for deletion and what can still be
\* picked are apart, and no picture of the server's is lost from sight.
GalleryTyped ==
  /\ gallery \in Seq(Pictures) /\ IsInjective(gallery)
  /\ removed \subseteq Existing
  /\ options \subseteq Existing
  /\ unpicked \subseteq New
  /\ ToSet(gallery) \cap removed = {} /\ ToSet(gallery) \cap unpicked = {}
  /\ Existing \subseteq ToSet(gallery) \cup removed
  /\ SaveShape

\* The strengthened typing gives the type invariant.
LEMMA GalleryTypedType == GalleryTyped => GalleryTypeOK
<1> SUFFICES ASSUME GalleryTyped PROVE GalleryTypeOK
  OBVIOUS
<1>1. CASE saving = Editing
  BY <1>1 DEF GalleryTyped, GalleryTypeOK, Pictures
<1>2. CASE saving # Editing
  <2>1. PICK length \in Nat :
               \E picture \in New : \E at \in 1..length :
               \E order \in [1..length -> Pictures \cup {Blank}] :
                  saving = [pc |-> "uploading", picture |-> picture, at |-> at,
                            order |-> order, length |-> length]
    BY <1>2 DEF GalleryTyped, SaveShape
  <2>2. saving.pc = "uploading" /\ saving.picture \in New /\ saving.at \in 1..saving.length
        /\ saving.order \in [1..saving.length -> Pictures \cup {Blank}]
    BY <2>1
  <2> QED BY <2>2 DEF GalleryTyped, GalleryTypeOK, Pictures
<1> QED BY <1>1, <1>2

\* The fields of a save under way.
LEMMA SaveFields ==
  ASSUME SaveShape, saving # Editing
  PROVE  /\ saving.pc = "uploading" /\ saving.length \in Nat /\ saving.picture \in New
         /\ saving.at \in 1..saving.length
         /\ saving.order \in [1..saving.length -> Pictures \cup {Blank}]
<1>1. PICK length \in Nat :
             \E picture \in New : \E at \in 1..length :
             \E order \in [1..length -> Pictures \cup {Blank}] :
                saving = [pc |-> "uploading", picture |-> picture, at |-> at,
                          order |-> order, length |-> length]
  BY DEF SaveShape
<1> QED BY <1>1

\* The dialog opens well typed, with every stored picture in the gallery.
LEMMA GalleryTypedInit == GalleryInit => GalleryTyped
<1> SUFFICES ASSUME GalleryInit PROVE GalleryTyped
  OBVIOUS
<1> DEFINE n == Cardinality(Existing)
<1>1. n \in Nat /\ IsFiniteSet(1..n) /\ Cardinality(1..n) = n /\ IsFiniteSet(Existing)
  BY DialogAssumption, FS_CardinalityType, FS_Interval
<1>2. gallery \in [1..n -> Existing] /\ \A i, j \in 1..n : i # j => gallery[i] # gallery[j]
  BY DEF GalleryInit, SetToSeqs
<1> HIDE DEF n
<1>3. gallery \in Seq(Pictures) /\ DOMAIN gallery = 1..n
  BY <1>1, <1>2 DEF Pictures
<1>4. IsInjective(gallery)
  BY <1>2, <1>3 DEF IsInjective
<1>5. ToSet(gallery) = Existing
  <2>1. gallery \in Injection(1..n, Existing)
    BY <1>2 DEF Injection, IsInjective
  <2>2. gallery \in Surjection(1..n, Existing)
    BY <1>1, <2>1, FS_Injection DEF n
  <2>3. \A e \in Existing : \E i \in 1..n : gallery[i] = e
    BY <2>2 DEF Surjection
  <2>4. \A e \in Existing : e \in ToSet(gallery)
    BY <1>3, <2>3 DEF ToSet
  <2>5. \A e \in ToSet(gallery) : e \in Existing
    BY <1>2, <1>3 DEF ToSet
  <2> QED BY <2>4, <2>5
<1> QED BY <1>3, <1>4, <1>5, DialogAssumption DEF GalleryInit, GalleryTyped, SaveShape

\* Where the loop goes next: to the first picture after its place that must be
\* uploaded.
LEMMA NextNewIsNext ==
  ASSUME gallery \in Seq(Pictures), IsInjective(gallery), NEW from \in Nat
  PROVE  LET i == NextNew(gallery, from)
         IN  \/ /\ i = 0
                /\ \A j \in from + 1..Len(gallery) : gallery[j] \notin New
             \/ /\ i # 0
                /\ i \in 1..Len(gallery) /\ i > from /\ gallery[i] \in New
                /\ \A j \in from + 1..i - 1 : gallery[j] \notin New
<1> DEFINE I == {k \in 1..Len(gallery) : gallery[k] \in New
                   /\ \E j \in from + 1..Len(gallery) : gallery[j] = gallery[k]}
           i == NextNew(gallery, from)
<1>1. i = IF I # {} THEN Min(I) ELSE 0
  BY DEF NextNew, SelectInSeq
<1>2. Len(gallery) \in Nat /\ DOMAIN gallery = 1..Len(gallery)
  OBVIOUS
<1>3. \A k : k \in I <=> k \in 1..Len(gallery) /\ k > from /\ gallery[k] \in New
  BY <1>2 DEF IsInjective
<1>4. I \subseteq Nat /\ IsFiniteSet(I)
  <2>1. I \subseteq 1..Len(gallery)
    OBVIOUS
  <2>2. IsFiniteSet(1..Len(gallery))
    BY <1>2, FS_Interval
  <2> QED BY <1>2, <2>1, <2>2, FS_Subset
<1> HIDE DEF I, i
<1>5. CASE I = {}
  BY <1>1, <1>2, <1>3, <1>5 DEF i
<1>6. CASE I # {}
  <2>1. Min(I) \in I /\ \A j \in I : Min(I) <= j
    BY <1>4, <1>6, MinIsFirst
  <2>2. i \in I /\ \A j \in I : i <= j
    BY <1>1, <1>6, <2>1
  <2>3. i \in 1..Len(gallery) /\ i > from /\ gallery[i] \in New /\ i # 0
    BY <1>2, <1>3, <2>2
  <2>4. \A j \in from + 1..i - 1 : gallery[j] \notin New
    BY <1>2, <1>3, <2>2, <2>3
  <2> QED BY <2>3, <2>4 DEF i
<1> QED BY <1>5, <1>6

\* A picture is looked up where it is.
LEMMA IndexInFinds ==
  ASSUME gallery \in Seq(Pictures), IsInjective(gallery), NEW k \in 1..Len(gallery)
  PROVE  IndexIn(gallery, gallery[k]) = k
<1> DEFINE I == {j \in 1..Len(gallery) : gallery[j] = gallery[k]}
<1>1. IndexIn(gallery, gallery[k]) = IF I # {} THEN Min(I) ELSE 0
  BY DEF IndexIn, SelectInSeq
<1>2. I = {k}
  BY DEF IsInjective
<1>3. Min({k}) = k
  BY DEF Min
<1> QED BY <1>1, <1>2, <1>3

-----------------------------------------------------------------------------

\* While pictures upload, the gallery only loses pictures, or only gains some.
OneWay == During \subseteq {"remove"} \/ During \subseteq {"pick"}

\* The slots are filled as far as the loop has come, in the order of the gallery.
FilledTo(order, from) ==
  \A i \in 1..Len(gallery) :
    order[i] = IF gallery[i] \in Existing \/ i <= from THEN gallery[i] ELSE Blank

\* While the gallery has the length it had, it has not changed.
UploadInv ==
  saving # Editing =>
    /\ During \subseteq {"remove"} => Len(gallery) <= saving.length
    /\ During \subseteq {"pick"} => Len(gallery) >= saving.length
    /\ Len(gallery) = saving.length =>
         /\ FilledTo(saving.order, saving.at - 1)
         /\ gallery[saving.at] = saving.picture

\* The PUT, once sent, is about what the dialog shows.
SentInv ==
  Sent =>
    /\ saving = Editing
    /\ body.images = gallery /\ body.removed = removed /\ body.options = options \ removed

-----------------------------------------------------------------------------
(* Gestures                                                                *)

\* Picking, removing, reordering and toggling, one gesture each, stay typed.
LEMMA TypedPick ==
  ASSUME GalleryTyped, NEW n \in New, PickImage(n)
  PROVE  GalleryTyped' /\ Len(gallery') = Len(gallery) + 1
<1>1. n \in Pictures /\ n \notin ToSet(gallery) /\ n \notin Existing
  BY DialogAssumption DEF PickImage, GalleryTyped, Pictures
<1>2. /\ gallery' \in Seq(Pictures) /\ IsInjective(gallery')
      /\ ToSet(gallery') = ToSet(gallery) \cup {n} /\ Len(gallery') = Len(gallery) + 1
  BY <1>1, AppendSet DEF PickImage, GalleryTyped
<1>3. UNCHANGED <<removed, options, saving>> /\ unpicked' = unpicked \ {n}
  BY DEF PickImage
<1>4. SaveShape'
  BY <1>3 DEF GalleryTyped, SaveShape
<1> QED BY <1>1, <1>2, <1>3, <1>4 DEF GalleryTyped

\* _onRemoveAt moves a stored picture to the deletions; none is in both.
LEMMA TypedRemove ==
  ASSUME GalleryTyped, NEW i \in DOMAIN gallery, OnRemoveAt(i)
  PROVE  GalleryTyped' /\ Len(gallery') = Len(gallery) - 1
<1>1. i \in 1..Len(gallery)
  BY DEF GalleryTyped
<1>2. /\ gallery' \in Seq(Pictures) /\ IsInjective(gallery') /\ Len(gallery') = Len(gallery) - 1
      /\ ToSet(gallery') = ToSet(gallery) \ {gallery[i]}
  BY <1>1, RemoveAtShape, RemoveAtSet DEF OnRemoveAt, GalleryTyped
<1>3. UNCHANGED <<options, unpicked, saving>> /\ removed' = removed \cup ({gallery[i]} \cap Existing)
  BY DEF OnRemoveAt
<1>4. SaveShape'
  BY <1>3 DEF GalleryTyped, SaveShape
<1> QED BY <1>2, <1>3, <1>4 DEF GalleryTyped

\* _onReorder takes out and puts back: the same pictures, each once.
LEMMA TypedReorder ==
  ASSUME GalleryTyped, NEW i \in DOMAIN gallery, NEW j \in DOMAIN gallery, OnReorder(i, j)
  PROVE  GalleryTyped' /\ Len(gallery') = Len(gallery) /\ ToSet(gallery') = ToSet(gallery)
<1> DEFINE r == RemoveAt(gallery, i)
<1>1. i \in 1..Len(gallery) /\ j \in 1..Len(gallery) /\ gallery \in Seq(Pictures) /\ IsInjective(gallery)
  BY DEF GalleryTyped
<1>2. /\ r \in Seq(Pictures) /\ IsInjective(r) /\ Len(r) = Len(gallery) - 1
      /\ ToSet(r) = ToSet(gallery) \ {gallery[i]}
  BY <1>1, RemoveAtShape, RemoveAtSet
<1>3. gallery' = InsertAt(r, j, gallery[i])
  BY DEF OnReorder
<1> HIDE DEF r
<1>4. j \in 1..Len(r) + 1 /\ gallery[i] \in Pictures /\ gallery[i] \notin ToSet(r)
  BY <1>1, <1>2
<1>5. /\ gallery' \in Seq(Pictures) /\ IsInjective(gallery')
      /\ ToSet(gallery') = ToSet(r) \cup {gallery[i]} /\ Len(gallery') = Len(r) + 1
  <2> DEFINE e == gallery[i]
  <2>1. e \in Pictures /\ e \notin ToSet(r)
    BY <1>4
  <2> HIDE DEF e
  <2>2. InsertAt(r, j, e) \in Seq(Pictures) /\ Len(InsertAt(r, j, e)) = Len(r) + 1
    BY <1>2, <1>4, <2>1, InsertAtShape
  <2>3. IsInjective(InsertAt(r, j, e)) /\ ToSet(InsertAt(r, j, e)) = ToSet(r) \cup {e}
    BY <1>2, <1>4, <2>1, InsertAtSet
  <2> QED BY <1>3, <2>2, <2>3 DEF e
<1>6. ToSet(gallery') = ToSet(gallery)
  <2>1. gallery[i] \in ToSet(gallery)
    BY <1>1 DEF ToSet
  <2> QED BY <1>2, <1>5, <2>1
<1>7. UNCHANGED <<removed, options, unpicked, saving>>
  BY DEF OnReorder
<1>8. SaveShape'
  BY <1>7 DEF GalleryTyped, SaveShape
<1>9. Len(gallery') = Len(gallery)
  BY <1>1, <1>2, <1>5
<1> QED BY <1>5, <1>6, <1>7, <1>8, <1>9 DEF GalleryTyped

\* An option gains or loses a stored picture.
LEMMA TypedToggle ==
  ASSUME GalleryTyped, NEW u \in Existing, ToggleOption(u)
  PROVE  GalleryTyped'
<1>1. UNCHANGED <<gallery, removed, unpicked, saving>> /\ options' \subseteq Existing
  BY DEF ToggleOption, GalleryTyped
<1>2. SaveShape'
  BY <1>1 DEF GalleryTyped, SaveShape
<1> QED BY <1>1, <1>2 DEF GalleryTyped

-----------------------------------------------------------------------------
(* The save                                                                *)

\* The loop moves on with a list of slots as long as the gallery.
LEMMA TypedProceed ==
  ASSUME GalleryTyped, NEW from \in Nat,
         NEW order \in [1..Len(gallery) -> Pictures \cup {Blank}],
         Proceed(order, from, Len(gallery)),
         UNCHANGED <<gallery, removed, options, unpicked>>
  PROVE  GalleryTyped'
<1> DEFINE i == NextNew(gallery, from)
<1>1. Len(gallery) \in Nat
  BY DEF GalleryTyped
<1>2. SaveShape'
  <2>1. CASE i = 0
    BY <2>1 DEF Proceed, SaveShape
  <2>2. CASE i # 0
    <3>1. i \in 1..Len(gallery) /\ gallery[i] \in New
      BY <2>2, NextNewIsNext DEF GalleryTyped
    <3>2. saving' = [pc |-> "uploading", picture |-> gallery[i], at |-> i,
                     order |-> order, length |-> Len(gallery)]
      BY <2>2 DEF Proceed
    <3> HIDE DEF i
    <3> QED BY <1>1, <3>1, <3>2 DEF SaveShape
  <2> QED BY <2>1, <2>2
<1> QED BY <1>2 DEF GalleryTyped

\* The slots Submit starts from.
LEMMA FirstSlots ==
  ASSUME GalleryTyped
  PROVE  [i \in DOMAIN gallery |-> IF gallery[i] \in Existing THEN gallery[i] ELSE Blank]
           \in [1..Len(gallery) -> Pictures \cup {Blank}]
BY DEF GalleryTyped, Pictures

\* Filling a slot leaves as many slots as there were.
LEMMA FilledShape ==
  ASSUME GalleryTyped, saving # Editing
  PROVE  Filled(saving.order) \in [1..saving.length -> Pictures \cup {Blank}]
<1>1. /\ saving.order \in [1..saving.length -> Pictures \cup {Blank}]
      /\ saving.picture \in Pictures
  BY SaveFields DEF GalleryTyped, Pictures
<1> QED BY <1>1 DEF Filled

\* The typing is inductive, whatever the admin does while pictures upload.
LEMMA GalleryTypedStep == GalleryTyped /\ [GalleryNext]_galleryVars => GalleryTyped'
<1> SUFFICES ASSUME GalleryTyped, [GalleryNext]_galleryVars PROVE GalleryTyped'
  OBVIOUS
<1>1. ASSUME Gesture PROVE GalleryTyped'
  BY <1>1, TypedPick, TypedRemove, TypedReorder, TypedToggle DEF Gesture
<1>2. ASSUME Submit PROVE GalleryTyped'
  <2> DEFINE order == [i \in DOMAIN gallery |-> IF gallery[i] \in Existing THEN gallery[i] ELSE Blank]
  <2>1. order \in [1..Len(gallery) -> Pictures \cup {Blank}]
    BY FirstSlots
  <2>2. Proceed(order, 0, Len(gallery)) /\ UNCHANGED <<gallery, removed, options, unpicked>>
    BY <1>2 DEF Submit
  <2> HIDE DEF order
  <2> QED BY <2>1, <2>2, TypedProceed
<1>3. ASSUME UNCHANGED <<gallery, removed, options, unpicked>>, saving' = Editing \/ UNCHANGED saving
      PROVE  GalleryTyped'
  BY <1>3 DEF GalleryTyped, SaveShape
<1>4. ASSUME Uploaded PROVE GalleryTyped'
  <2>1. saving # Editing /\ UNCHANGED <<gallery, removed, options, unpicked>>
    BY <1>4 DEF Uploaded, Editing
  <2>2. CASE Len(gallery) # saving.length
    BY <1>3, <1>4, <2>1, <2>2 DEF Uploaded
  <2>3. CASE Len(gallery) = saving.length
    <3>1. Proceed(Filled(saving.order), saving.at, saving.length)
      BY <1>4, <2>3 DEF Uploaded
    <3>2. saving.at \in Nat
      BY <2>1, SaveFields DEF GalleryTyped
    <3> QED BY <2>1, <2>3, <3>1, <3>2, FilledShape, TypedProceed
  <2> QED BY <2>2, <2>3
<1>5. ASSUME UploadFails \/ UNCHANGED galleryVars PROVE GalleryTyped'
  BY <1>3, <1>5 DEF UploadFails, galleryVars
<1> QED BY <1>1, <1>2, <1>4, <1>5 DEF GalleryNext

\* GalleryTypeOK holds in every reachable state, whatever the admin does while
\* pictures upload: nothing is shown twice, and only what the server has is ever
\* queued for deletion.
THEOREM GalleryTypeCorrect == GallerySpec => []GalleryTypeOK
BY GalleryTypedInit, GalleryTypedStep, GalleryTypedType, PTL DEF GallerySpec

-----------------------------------------------------------------------------
(* What is sent                                                            *)

\* A list of slots without a gap is the gallery.
LEMMA CleanOrder ==
  ASSUME GalleryTyped, NEW order \in [1..Len(gallery) -> Pictures \cup {Blank}],
         \A i \in 1..Len(gallery) : order[i] = gallery[i]
  PROVE  Where(order, LAMBDA u : u # Blank) = gallery
<1> DEFINE n == Len(gallery)
<1>1. n \in Nat /\ gallery \in [1..n -> Pictures]
  BY DEF GalleryTyped
<1> HIDE DEF n
<1>2. order = gallery
  BY <1>1 DEF n
<1>3. {i \in DOMAIN order : order[i] # Blank} = 1..n
  BY <1>1, <1>2, DialogAssumption DEF Pictures
<1>4. Picked(gallery, 1..n) = gallery
  BY <1>1, PickedAll
<1> QED BY <1>2, <1>3, <1>4 DEF Where

\* The loop moves on with the slots filled up to its place.
LEMMA ProceedFills ==
  ASSUME GalleryTyped, NEW from \in Nat,
         NEW order \in [1..Len(gallery) -> Pictures \cup {Blank}],
         FilledTo(order, from), ~Sent,
         Proceed(order, from, Len(gallery)),
         UNCHANGED <<gallery, removed, options>>
  PROVE  UploadInv' /\ SentInv'
<1> DEFINE i == NextNew(gallery, from)
<1>1. Len(gallery) \in Nat /\ \A j \in 1..Len(gallery) : gallery[j] \in Existing \/ gallery[j] \in New
  BY DEF GalleryTyped, Pictures
<1>2. CASE i = 0
  <2>1. \A j \in from + 1..Len(gallery) : gallery[j] \notin New
    BY <1>2, NextNewIsNext DEF GalleryTyped
  <2>2. \A j \in 1..Len(gallery) : order[j] = gallery[j]
    BY <1>1, <2>1 DEF FilledTo
  <2>3. body' = Request(order) /\ saving' = Editing
    BY <1>2 DEF Proceed
  <2>4. Where(order, LAMBDA u : u # Blank) = gallery
    BY <2>2, CleanOrder
  <2>5. body'.images = gallery /\ body'.removed = removed /\ body'.options = options \ removed
    BY <2>3, <2>4 DEF Request
  <2> QED BY <2>3, <2>5 DEF UploadInv, SentInv
<1>3. CASE i # 0
  <2>1. /\ i \in 1..Len(gallery) /\ i > from /\ gallery[i] \in New
        /\ \A j \in from + 1..i - 1 : gallery[j] \notin New
    BY <1>3, NextNewIsNext DEF GalleryTyped
  <2>2. /\ saving' = [pc |-> "uploading", picture |-> gallery[i], at |-> i,
                      order |-> order, length |-> Len(gallery)]
        /\ UNCHANGED body
    BY <1>3 DEF Proceed
  <2> HIDE DEF i
  <2>3. FilledTo(order, i - 1)
    BY <1>1, <2>1 DEF FilledTo
  <2>4. /\ saving'.picture = gallery[i] /\ saving'.at = i
        /\ saving'.order = order /\ saving'.length = Len(gallery)
    BY <2>2
  <2>5. UploadInv'
    BY <1>1, <2>3, <2>4 DEF UploadInv, FilledTo
  <2>6. SentInv'
    BY <2>2 DEF SentInv, Sent
  <2> QED BY <2>5, <2>6
<1> QED BY <1>2, <1>3

\* An upload fills the slot of its picture, where the loop is.
LEMMA FilledNext ==
  ASSUME GalleryTyped, UploadInv, saving # Editing, Len(gallery) = saving.length
  PROVE  FilledTo(Filled(saving.order), saving.at)
<1>1. /\ saving.order \in [1..Len(gallery) -> Pictures \cup {Blank}]
      /\ saving.at \in 1..Len(gallery) /\ Len(gallery) \in Nat
  BY SaveFields DEF GalleryTyped
<1>2. FilledTo(saving.order, saving.at - 1) /\ gallery[saving.at] = saving.picture
  BY DEF UploadInv
<1>3. IndexIn(gallery, saving.picture) = saving.at
  BY <1>1, <1>2, IndexInFinds DEF GalleryTyped
<1>4. Filled(saving.order) = [saving.order EXCEPT ![saving.at] = saving.picture]
  BY <1>1, <1>3 DEF Filled
<1> DEFINE order == saving.order
           at == saving.at
<1>5. FilledTo(order, at - 1) /\ gallery[at] = saving.picture
      /\ Filled(order) = [order EXCEPT ![at] = saving.picture]
  BY <1>2, <1>4
<1> HIDE DEF order, at
<1>6. order \in [1..Len(gallery) -> Pictures \cup {Blank}] /\ at \in 1..Len(gallery)
  BY <1>1 DEF order, at
<1>7. FilledTo(Filled(order), at)
  <2> SUFFICES ASSUME NEW i \in 1..Len(gallery)
               PROVE  Filled(order)[i] = IF gallery[i] \in Existing \/ i <= at THEN gallery[i] ELSE Blank
    BY DEF FilledTo
  <2>1. CASE i = at
    BY <1>1, <1>5, <1>6, <2>1
  <2>2. CASE i # at
    <3>1. Filled(order)[i] = order[i]
      BY <1>5, <1>6, <2>2
    <3>2. i <= at <=> i <= at - 1
      BY <1>1, <1>6, <2>2
    <3> QED BY <1>5, <3>1, <3>2 DEF FilledTo
  <2> QED BY <2>1, <2>2
<1> QED BY <1>7 DEF order, at

\* A gesture in the middle of a save changes the length of the gallery.
LEMMA GestureInv ==
  ASSUME OneWay, GalleryTyped, UploadInv, SentInv, Gesture
  PROVE  UploadInv' /\ SentInv'
<1>1. ~Sent /\ UNCHANGED <<saving, body>>
  BY DEF Gesture, PickImage, OnRemoveAt, OnReorder, ToggleOption, Allows
<1>2. SentInv'
  BY <1>1 DEF SentInv, Sent
<1>3. CASE saving = Editing
  <2>1. saving' = Editing'
    BY <1>1, <1>3 DEF Editing
  <2>2. UploadInv'
    BY <1>3, <2>1 DEF UploadInv
  <2> QED BY <1>2, <2>2
<1>4. CASE saving # Editing
  <2>1. saving.length \in Nat /\ Len(gallery) \in Nat
    BY <1>4, SaveFields DEF GalleryTyped
  <2>2. ASSUME NEW n \in New, PickImage(n) PROVE UploadInv'
    <3>1. During \subseteq {"pick"} /\ ~(During \subseteq {"remove"})
      BY <1>4, <2>2 DEF PickImage, Allows, OneWay
    <3>2. Len(gallery') = Len(gallery) + 1
      BY <2>2, TypedPick
    <3>3. Len(gallery) >= saving.length
      BY <1>4, <3>1 DEF UploadInv
    <3> QED BY <1>1, <2>1, <3>1, <3>2, <3>3 DEF UploadInv
  <2>3. ASSUME NEW i \in DOMAIN gallery, OnRemoveAt(i) PROVE UploadInv'
    <3>1. During \subseteq {"remove"} /\ ~(During \subseteq {"pick"})
      BY <1>4, <2>3 DEF OnRemoveAt, Allows, OneWay
    <3>2. Len(gallery') = Len(gallery) - 1
      BY <2>3, TypedRemove
    <3>3. Len(gallery) <= saving.length
      BY <1>4, <3>1 DEF UploadInv
    <3> QED BY <1>1, <2>1, <3>1, <3>2, <3>3 DEF UploadInv
  <2>4. ASSUME NEW i \in DOMAIN gallery, NEW j \in DOMAIN gallery, OnReorder(i, j) PROVE FALSE
    BY <1>4, <2>4 DEF OnReorder, Allows, OneWay
  <2>5. ASSUME NEW u \in Existing, ToggleOption(u) PROVE FALSE
    BY <1>4, <2>5 DEF ToggleOption
  <2>6. UploadInv'
    BY <2>2, <2>3, <2>4, <2>5 DEF Gesture
  <2> QED BY <1>2, <2>6
<1> QED BY <1>2, <1>3, <1>4

\* The loop keeps its slots in step with the gallery and sends what is shown.
LEMMA SaveStep ==
  ASSUME OneWay, GalleryTyped, UploadInv, SentInv, [GalleryNext]_galleryVars
  PROVE  UploadInv' /\ SentInv'
<1>1. ASSUME Submit PROVE UploadInv' /\ SentInv'
  <2> DEFINE order == [i \in DOMAIN gallery |-> IF gallery[i] \in Existing THEN gallery[i] ELSE Blank]
  <2>1. order \in [1..Len(gallery) -> Pictures \cup {Blank}]
    BY FirstSlots
  <2>2. ~Sent /\ Proceed(order, 0, Len(gallery)) /\ UNCHANGED <<gallery, removed, options>>
    BY <1>1 DEF Submit
  <2>3. FilledTo(order, 0)
    BY DEF FilledTo, GalleryTyped
  <2> HIDE DEF order
  <2> QED BY <2>1, <2>2, <2>3, ProceedFills
<1>2. ASSUME UNCHANGED <<gallery, removed, options, body>>,
             saving' = Editing \/ UNCHANGED saving
      PROVE  UploadInv' /\ SentInv'
  BY <1>2 DEF UploadInv, SentInv, Sent, FilledTo
<1>3. ASSUME Uploaded PROVE UploadInv' /\ SentInv'
  <2>1. saving # Editing /\ UNCHANGED <<gallery, removed, options>>
    BY <1>3 DEF Uploaded, Editing
  <2>2. CASE Len(gallery) # saving.length
    BY <1>2, <1>3, <2>1, <2>2 DEF Uploaded
  <2>3. CASE Len(gallery) = saving.length
    <3>1. Proceed(Filled(saving.order), saving.at, saving.length)
      BY <1>3, <2>3 DEF Uploaded
    <3>2. saving.at \in Nat
      BY <2>1, SaveFields DEF GalleryTyped
    <3>3. ~Sent
      BY <2>1 DEF SentInv
    <3>4. FilledTo(Filled(saving.order), saving.at)
      BY <2>1, <2>3, FilledNext
    <3> QED BY <2>1, <2>3, <3>1, <3>2, <3>3, <3>4, FilledShape, ProceedFills
  <2> QED BY <2>2, <2>3
<1>4. ASSUME UploadFails \/ UNCHANGED galleryVars PROVE UploadInv' /\ SentInv'
  BY <1>2, <1>4 DEF UploadFails, galleryVars
<1> QED BY <1>1, <1>3, <1>4, GestureInv DEF GalleryNext

\* The invariant of a save, for one kind of gesture while it uploads.
LEMMA SaveInvariant == ASSUME OneWay PROVE GallerySpec => [](GalleryTyped /\ SentInv)
<1>1. GalleryInit => UploadInv /\ SentInv
  BY DEF GalleryInit, UploadInv, SentInv, Sent
<1>2. GalleryTyped /\ UploadInv /\ SentInv /\ [GalleryNext]_galleryVars => UploadInv' /\ SentInv'
  BY SaveStep
<1> QED BY <1>1, <1>2, GalleryTypedInit, GalleryTypedStep, PTL DEF GallerySpec

\* SavedAsShown holds in every reachable state, for any number of pictures,
\* while a save can only lose pictures, or only gain some.
THEOREM ShownIsSaved == ASSUME OneWay PROVE GallerySpec => []SavedAsShown
<1>1. SentInv => SavedAsShown
  BY DEF SentInv, SavedAsShown
<1> QED BY <1>1, SaveInvariant, PTL

\* OptionsFollow holds in every reachable state under the same condition: the
\* options the PUT carries show no picture that is not in its images.
THEOREM OptionsTrack == ASSUME OneWay PROVE GallerySpec => []OptionsFollow
<1>1. GalleryTyped /\ SentInv => OptionsFollow
  BY DEF GalleryTyped, SentInv, OptionsFollow
<1> QED BY <1>1, SaveInvariant, PTL

-----------------------------------------------------------------------------
(* What is kept                                                            *)

\* While pictures upload, the admin does not both pick and remove.
OneKind == "pick" \notin During \/ "remove" \notin During

\* The slots show pictures of the gallery, or nothing yet.
Shows(order) == \A k \in DOMAIN order : order[k] \in ToSet(gallery) \cup {Blank}

\* While the gallery has the length it had, it has the pictures it had.
SlotsInv ==
  saving # Editing =>
    /\ "pick" \notin During => Len(gallery) <= saving.length
    /\ "remove" \notin During => Len(gallery) >= saving.length
    /\ Len(gallery) = saving.length => Shows(saving.order)

\* The PUT, once sent, lists pictures of the gallery and its deletions.
KeptInv ==
  Sent => saving = Editing /\ ToSet(body.images) \subseteq ToSet(gallery) /\ body.removed = removed

\* What cleanOrder keeps was in a slot.
LEMMA CleanShows ==
  ASSUME NEW n \in Nat, NEW order, DOMAIN order = 1..n, Shows(order)
  PROVE  ToSet(Where(order, LAMBDA u : u # Blank)) \subseteq ToSet(gallery)
<1> DEFINE I == {k \in 1..n : order[k] # Blank}
           p == Picked(order, I)
<1>1. IsFiniteSet(1..n) /\ I \subseteq 1..n
  BY FS_Interval
<1>2. IsFiniteSet(I) /\ Cardinality(I) \in Nat /\ I \subseteq Nat
  BY <1>1, FS_Subset, FS_CardinalityType
<1>3. Where(order, LAMBDA u : u # Blank) = p
  BY DEF Where
<1>4. \A k \in I : order[k] \in ToSet(gallery)
  BY DEF Shows
<1> HIDE DEF I
<1>5. p = [k \in 1..Cardinality(I) |-> order[Nth(I, k)]]
  BY DEF Picked
<1>6. ASSUME NEW k \in 1..Cardinality(I) PROVE p[k] \in ToSet(gallery)
  <2>1. Nth(I, k) \in I
    BY <1>2, NthRank
  <2> QED BY <1>4, <1>5, <2>1
<1>7. DOMAIN p = 1..Cardinality(I)
  BY <1>5
<1> HIDE DEF p
<1>8. \A x \in ToSet(p) : x \in ToSet(gallery)
  <2> SUFFICES ASSUME NEW x \in ToSet(p) PROVE x \in ToSet(gallery)
    OBVIOUS
  <2>1. PICK k \in DOMAIN p : p[k] = x
    BY DEF ToSet
  <2> QED BY <1>6, <1>7, <2>1
<1> QED BY <1>3, <1>8

\* The loop moves on with slots that show pictures of the gallery.
LEMMA ProceedShows ==
  ASSUME GalleryTyped, NEW from,
         NEW order \in [1..Len(gallery) -> Pictures \cup {Blank}], Shows(order), ~Sent,
         Proceed(order, from, Len(gallery)), UNCHANGED <<gallery, removed>>
  PROVE  SlotsInv' /\ KeptInv'
<1> DEFINE i == NextNew(gallery, from)
<1>1. Len(gallery) \in Nat
  BY DEF GalleryTyped
<1>2. CASE i = 0
  <2>1. body' = Request(order) /\ saving' = Editing
    BY <1>2 DEF Proceed
  <2>2. ToSet(Where(order, LAMBDA u : u # Blank)) \subseteq ToSet(gallery)
    BY <1>1, CleanShows
  <2>3. ToSet(body'.images) \subseteq ToSet(gallery) /\ body'.removed = removed
    BY <2>1, <2>2 DEF Request
  <2> QED BY <2>1, <2>3 DEF SlotsInv, KeptInv, Editing
<1>3. CASE i # 0
  <2>1. /\ saving' = [pc |-> "uploading", picture |-> gallery[i], at |-> i,
                      order |-> order, length |-> Len(gallery)]
        /\ UNCHANGED body
    BY <1>3 DEF Proceed
  <2> HIDE DEF i
  <2>2. saving'.order = order /\ saving'.length = Len(gallery)
    BY <2>1
  <2>3. SlotsInv'
    BY <1>1, <2>2 DEF SlotsInv, Shows
  <2>4. KeptInv'
    BY <2>1 DEF KeptInv, Sent
  <2> QED BY <2>3, <2>4
<1> QED BY <1>2, <1>3

\* The slot an upload fills is one the picture has in the gallery of now.
LEMMA FilledShows ==
  ASSUME GalleryTyped, saving # Editing, Shows(saving.order), Len(gallery) = saving.length
  PROVE  Shows(Filled(saving.order))
<1> DEFINE x == saving.picture
           order == saving.order
           slot == IndexIn(gallery, x)
           I == {j \in 1..Len(gallery) : gallery[j] = x}
<1>1. DOMAIN order = 1..Len(gallery) /\ Len(gallery) \in Nat /\ DOMAIN gallery = 1..Len(gallery)
  BY SaveFields DEF GalleryTyped
<1>2. slot = IF I # {} THEN Min(I) ELSE 0
  BY DEF IndexIn, SelectInSeq
<1>3. Filled(order) = IF slot \in DOMAIN order THEN [order EXCEPT ![slot] = x] ELSE order
  BY DEF Filled
<1>4. IsFiniteSet(I) /\ I \subseteq Nat
  <2>1. IsFiniteSet(1..Len(gallery)) /\ I \subseteq 1..Len(gallery)
    BY <1>1, FS_Interval
  <2> QED BY <1>1, <2>1, FS_Subset
<1>5. I # {} => Min(I) \in I
  BY <1>4, MinIsFirst
<1>6. slot \in DOMAIN order => x \in ToSet(gallery)
  BY <1>1, <1>2, <1>5 DEF ToSet
<1>7. Shows(order)
  OBVIOUS
<1> HIDE DEF x, order, slot, I
<1>8. Shows(Filled(order))
  BY <1>3, <1>6, <1>7 DEF Shows
<1> QED BY <1>8 DEF order

\* A gesture in the middle of a save changes the length of the gallery, or only
\* its order.
LEMMA GestureKeeps ==
  ASSUME OneKind, GalleryTyped, SlotsInv, KeptInv, Gesture
  PROVE  SlotsInv' /\ KeptInv'
<1>1. ~Sent /\ UNCHANGED <<saving, body>>
  BY DEF Gesture, PickImage, OnRemoveAt, OnReorder, ToggleOption, Allows
<1>2. KeptInv'
  BY <1>1 DEF KeptInv, Sent
<1>3. CASE saving = Editing
  <2>1. saving' = Editing'
    BY <1>1, <1>3 DEF Editing
  <2> QED BY <1>2, <2>1 DEF SlotsInv
<1>4. CASE saving # Editing
  <2>1. saving.length \in Nat /\ Len(gallery) \in Nat
    BY <1>4, SaveFields DEF GalleryTyped
  <2>2. ASSUME NEW n \in New, PickImage(n) PROVE SlotsInv'
    <3>1. "pick" \in During /\ "remove" \notin During
      BY <1>4, <2>2 DEF PickImage, Allows, OneKind
    <3>2. Len(gallery') = Len(gallery) + 1
      BY <2>2, TypedPick
    <3>3. Len(gallery) >= saving.length
      BY <1>4, <3>1 DEF SlotsInv
    <3> QED BY <1>1, <2>1, <3>1, <3>2, <3>3 DEF SlotsInv
  <2>3. ASSUME NEW i \in DOMAIN gallery, OnRemoveAt(i) PROVE SlotsInv'
    <3>1. "remove" \in During /\ "pick" \notin During
      BY <1>4, <2>3 DEF OnRemoveAt, Allows, OneKind
    <3>2. Len(gallery') = Len(gallery) - 1
      BY <2>3, TypedRemove
    <3>3. Len(gallery) <= saving.length
      BY <1>4, <3>1 DEF SlotsInv
    <3> QED BY <1>1, <2>1, <3>1, <3>2, <3>3 DEF SlotsInv
  <2>4. ASSUME NEW i \in DOMAIN gallery, NEW j \in DOMAIN gallery, OnReorder(i, j) PROVE SlotsInv'
    <3>1. Len(gallery') = Len(gallery) /\ ToSet(gallery') = ToSet(gallery)
      BY <2>4, TypedReorder
    <3> QED BY <1>1, <3>1 DEF SlotsInv, Shows, Editing
  <2>5. ASSUME NEW u \in Existing, ToggleOption(u) PROVE FALSE
    BY <1>4, <2>5 DEF ToggleOption
  <2>6. SlotsInv'
    BY <2>2, <2>3, <2>4, <2>5 DEF Gesture
  <2> QED BY <1>2, <2>6
<1> QED BY <1>3, <1>4

\* The loop never puts a picture into a slot that the gallery does not show.
LEMMA KeptStep ==
  ASSUME OneKind, GalleryTyped, SlotsInv, KeptInv, [GalleryNext]_galleryVars
  PROVE  SlotsInv' /\ KeptInv'
<1>1. ASSUME Submit PROVE SlotsInv' /\ KeptInv'
  <2> DEFINE order == [i \in DOMAIN gallery |-> IF gallery[i] \in Existing THEN gallery[i] ELSE Blank]
  <2>1. order \in [1..Len(gallery) -> Pictures \cup {Blank}]
    BY FirstSlots
  <2>2. ~Sent /\ Proceed(order, 0, Len(gallery)) /\ UNCHANGED <<gallery, removed>>
    BY <1>1 DEF Submit
  <2>3. Shows(order)
    BY DEF Shows, ToSet
  <2> HIDE DEF order
  <2> QED BY <2>1, <2>2, <2>3, ProceedShows
<1>2. ASSUME UNCHANGED <<gallery, removed, body>>, saving' = Editing \/ UNCHANGED saving
      PROVE  SlotsInv' /\ KeptInv'
  BY <1>2 DEF SlotsInv, KeptInv, Sent, Shows, Editing
<1>3. ASSUME Uploaded PROVE SlotsInv' /\ KeptInv'
  <2>1. saving # Editing /\ UNCHANGED <<gallery, removed>>
    BY <1>3 DEF Uploaded, Editing
  <2>2. CASE Len(gallery) # saving.length
    BY <1>2, <1>3, <2>1, <2>2 DEF Uploaded
  <2>3. CASE Len(gallery) = saving.length
    <3>1. Proceed(Filled(saving.order), saving.at, Len(gallery))
      BY <1>3, <2>3 DEF Uploaded
    <3>2. ~Sent /\ Shows(saving.order)
      BY <2>1, <2>3 DEF KeptInv, SlotsInv
    <3>3. Shows(Filled(saving.order))
      BY <2>1, <2>3, <3>2, FilledShows
    <3>4. Filled(saving.order) \in [1..Len(gallery) -> Pictures \cup {Blank}]
      BY <2>1, <2>3, FilledShape
    <3> QED BY <2>1, <3>1, <3>2, <3>3, <3>4, ProceedShows
  <2> QED BY <2>2, <2>3
<1>4. ASSUME UploadFails \/ UNCHANGED galleryVars PROVE SlotsInv' /\ KeptInv'
  BY <1>2, <1>4 DEF UploadFails, galleryVars
<1> QED BY <1>1, <1>3, <1>4, GestureKeeps DEF GalleryNext

\* ListedIsKept holds in every reachable state, for any number of pictures and
\* reordered as often as one likes, while a save can only lose pictures, or only
\* gain some: the PUT of _submit never lists a picture it also has deleted.
THEOREM ListedStays == ASSUME OneKind PROVE GallerySpec => []ListedIsKept
<1>1. GalleryInit => SlotsInv /\ KeptInv
  BY DEF GalleryInit, SlotsInv, KeptInv, Sent
<1>2. GalleryTyped /\ SlotsInv /\ KeptInv /\ [GalleryNext]_galleryVars => SlotsInv' /\ KeptInv'
  BY KeptStep
<1>3. GalleryTyped /\ KeptInv => ListedIsKept
  BY DEF GalleryTyped, KeptInv, ListedIsKept
<1> QED BY <1>1, <1>2, <1>3, GalleryTypedInit, GalleryTypedStep, PTL DEF GallerySpec

-----------------------------------------------------------------------------
(***************************************************************************)
(* The product list and its steppers                                       *)
(* For an admin who waits for whatever could move the rows (Overlap =      *)
(* "none") and any number of copies of the app, or who waits for the calls *)
(* on the product she touches and no other (Overlap = "rows"), in one copy *)
(* of it, whose taps and deletes do not fail.                              *)
(***************************************************************************)
(* The admin's product list                                                *)

\* No product is shown twice.
Once(rows) == \A i, j \in DOMAIN rows : rows[i].id = rows[j].id => i = j

\* A row's id is a number; its stock may be unknown.
LEMMA RowIds == \A r \in Rows : r.id \in Products /\ r.id \in Nat /\ r.stock \in Stocks
  BY StockSyncAssumption DEF Rows

\* IndexOf finds the row of a product, whichever its position.
LEMMA IndexOfRow ==
  ASSUME NEW rows \in Seq(Rows), Once(rows), NEW i \in DOMAIN rows
  PROVE  IndexOf(rows, rows[i].id) = i
<1> DEFINE I == {j \in 1..Len(rows) : rows[j].id = rows[i].id}
<1>1. IndexOf(rows, rows[i].id) = IF I # {} THEN Min(I) ELSE 0
  BY DEF IndexOf, SelectInSeq
<1>2. I = {i}
  BY DEF Once
<1>3. Min({i}) = i
  BY DEF Min
<1> QED BY <1>1, <1>2, <1>3

\* A product that is not listed is not found.
LEMMA IndexOfNone ==
  ASSUME NEW rows \in Seq(Rows), NEW id, \A i \in DOMAIN rows : rows[i].id # id
  PROVE  IndexOf(rows, id) = 0
BY DEF IndexOf, SelectInSeq

\* A row written over the one of the same product.
LEMMA WithRowOver ==
  ASSUME NEW rows \in Seq(Rows), Once(rows), NEW i \in Nat, NEW row \in Rows,
         i \in DOMAIN rows => rows[i].id = row.id
  PROVE  /\ WithRow(rows, i, row) \in Seq(Rows)
         /\ DOMAIN WithRow(rows, i, row) = DOMAIN rows
         /\ Once(WithRow(rows, i, row))
         /\ \A j \in DOMAIN rows : WithRow(rows, i, row)[j] = IF j = i THEN row ELSE rows[j]
         /\ \A j \in DOMAIN rows : WithRow(rows, i, row)[j].id = rows[j].id
<1>1. CASE i \notin DOMAIN rows
  BY <1>1 DEF WithRow
<1>2. CASE i \in DOMAIN rows
  <2> DEFINE new == [rows EXCEPT ![i] = row]
  <2>1. WithRow(rows, i, row) = new
    BY <1>2 DEF WithRow
  <2>2. new \in Seq(Rows) /\ DOMAIN new = DOMAIN rows
        /\ \A j \in DOMAIN rows : new[j] = IF j = i THEN row ELSE rows[j]
    BY <1>2
  <2>3. \A j \in DOMAIN rows : new[j].id = rows[j].id
    BY <1>2, <2>2
  <2> HIDE DEF new
  <2>4. Once(new)
    BY <2>2, <2>3 DEF Once
  <2> QED BY <2>1, <2>2, <2>3, <2>4
<1> QED BY <1>1, <1>2

\* The answer's row takes the place of the one with its id, if there is one.
LEMMA RowAnswered ==
  ASSUME NEW rows \in Seq(Rows), Once(rows), NEW row \in Rows
  PROVE  LET new == WithRow(rows, IndexOf(rows, row.id), row) IN
         /\ new \in Seq(Rows) /\ DOMAIN new = DOMAIN rows /\ Once(new)
         /\ \A j \in DOMAIN rows : new[j] = IF rows[j].id = row.id THEN row ELSE rows[j]
         /\ \A j \in DOMAIN rows : new[j].id = rows[j].id
<1>1. CASE \E i \in DOMAIN rows : rows[i].id = row.id
  <2>1. PICK i \in DOMAIN rows : rows[i].id = row.id
    BY <1>1
  <2>2. IndexOf(rows, row.id) = i /\ i \in Nat
    BY <2>1, IndexOfRow
  <2>3. \A j \in DOMAIN rows : rows[j].id = row.id <=> j = i
    BY <2>1 DEF Once
  <2> QED BY <2>1, <2>2, <2>3, WithRowOver
<1>2. CASE \A i \in DOMAIN rows : rows[i].id # row.id
  <2>1. IndexOf(rows, row.id) = 0 /\ 0 \notin DOMAIN rows
    BY <1>2, IndexOfNone
  <2> QED BY <1>2, <2>1 DEF WithRow
<1> QED BY <1>1, <1>2

\* The entries at these places are rows, no two of one product.
RowsAt(s, I) ==
  /\ I \subseteq Nat /\ IsFiniteSet(I)
  /\ \A i \in I : s[i] \in Rows
  /\ \A i, j \in I : s[i].id = s[j].id => i = j

\* What is picked are these rows, each once.
PicksRows(s, I) ==
  /\ Picked(s, I) \in Seq(Rows) /\ Once(Picked(s, I))
  /\ \A k \in DOMAIN Picked(s, I) : \E i \in I : Picked(s, I)[k] = s[i]
  /\ \A i \in I : \E k \in DOMAIN Picked(s, I) : Picked(s, I)[k] = s[i]

\* Rows picked at different places are different rows.
LEMMA PickedRows ==
  ASSUME NEW s, NEW I, RowsAt(s, I)
  PROVE  PicksRows(s, I)
<1> DEFINE n == Cardinality(I)
           p == Picked(s, I)
<1>1. n \in Nat
  BY FS_CardinalityType DEF RowsAt
<1>2. p = [k \in 1..n |-> s[Nth(I, k)]]
  BY DEF Picked
<1> HIDE DEF n, p
<1>3. ASSUME NEW k \in 1..n PROVE Nth(I, k) \in I /\ p[k] = s[Nth(I, k)] /\ p[k] \in Rows
  BY <1>2, <1>3, NthRank DEF n, RowsAt
<1>4. p \in Seq(Rows) /\ DOMAIN p = 1..n
  BY <1>1, <1>2, <1>3
<1>5. Once(p)
  <2> SUFFICES ASSUME NEW k \in 1..n, NEW m \in 1..n, k < m PROVE p[k].id # p[m].id
    BY <1>1, <1>4 DEF Once
  <2>1. Nth(I, k) < Nth(I, m)
    BY NthGrows DEF n, RowsAt
  <2> DEFINE a == Nth(I, k)
             b == Nth(I, m)
  <2>2. a \in I /\ b \in I /\ p[k] = s[a] /\ p[m] = s[b] /\ a < b
    BY <1>3, <2>1
  <2> HIDE DEF a, b
  <2>3. a # b
    BY <2>2 DEF RowsAt
  <2> QED BY <2>2, <2>3 DEF RowsAt
<1>6. ASSUME NEW i \in I PROVE \E k \in 1..n : p[k] = s[i]
  <2>1. Rank(I, i) \in 1..n
    BY RankRange DEF n, RowsAt
  <2>2. p[Rank(I, i)] = s[i]
    BY <1>3, <2>1, NthOfRank DEF RowsAt
  <2> QED BY <2>1, <2>2
<1> QED BY <1>3, <1>4, <1>5, <1>6 DEF p, PicksRows

\* So are rows picked from a list that shows each product once.
LEMMA WhereRows ==
  ASSUME NEW rows \in Seq(Rows), Once(rows), NEW I, I \subseteq DOMAIN rows
  PROVE  PicksRows(rows, I)
<1>1. Len(rows) \in Nat /\ DOMAIN rows = 1..Len(rows)
  OBVIOUS
<1>2. IsFiniteSet(1..Len(rows))
  BY <1>1, FS_Interval
<1>3. IsFiniteSet(I)
  BY <1>1, <1>2, FS_Subset
<1>4. I \subseteq Nat /\ \A i \in I : rows[i] \in Rows
  BY <1>1
<1>5. \A i, j \in I : rows[i].id = rows[j].id => i = j
  BY DEF Once
<1>6. RowsAt(rows, I)
  BY <1>3, <1>4, <1>5 DEF RowsAt
<1> QED BY <1>6, PickedRows

-----------------------------------------------------------------------------
(* Types, and what a repaint does                                          *)

\* Applied, case by case.
LEMMA AppliedKinds ==
  ASSUME NEW rows, NEW c
  PROVE  /\ c.kind \in {"patch", "put"} =>
              Applied(rows, c) = WithRow(rows, IndexOf(rows, c.id), c.answer[1])
         /\ c.kind = "add" => Applied(rows, c) = rows \o c.answer
         /\ c.kind = "delete" => Applied(rows, c) = Where(rows, LAMBDA r : r.id # c.id)
         /\ c.kind = "load" => Applied(rows, c) = c.answer
<1>1. CASE c.kind \in {"patch", "put"}
  BY <1>1 DEF Applied
<1>2. CASE c.kind = "delete"
  BY <1>2 DEF Applied
<1>3. CASE c.kind = "load"
  BY <1>3 DEF Applied
<1>4. CASE c.kind = "add"
  BY <1>4 DEF Applied
<1> QED BY <1>1, <1>2, <1>3, <1>4

\* Stored, case by case.
LEMMA StoredKinds ==
  ASSUME NEW c
  PROVE  /\ c.kind = "patch" => Stored(c) = [server EXCEPT ![c.id].stock = c.row.stock]
         /\ c.kind = "put" => Stored(c) = [server EXCEPT ![c.id] = c.row]
         /\ c.kind = "add" => Stored(c) = [p \in DOMAIN server \cup {c.id} |->
                                              IF p = c.id THEN c.row ELSE server[p]]
         /\ c.kind = "delete" => Stored(c) = [p \in DOMAIN server \ {c.id} |-> server[p]]
         /\ c.kind = "load" => Stored(c) = server
BY DEF Stored

TypedServer ==
  /\ DOMAIN server \subseteq Products
  /\ \A p \in DOMAIN server : server[p] \in Rows /\ server[p].id = p

StockTyped ==
  /\ TypedServer
  /\ list \in [Tabs -> Seq(Rows)]
  /\ error \in [Tabs -> {"none", "shown", "cleared"}]
  /\ busy \in [Tabs -> SUBSET Nat]
  /\ dialog \in [Tabs -> Rows \cup {NoDialog}]
  /\ call \in [Tabs -> [CallSlots -> Calls \cup {NoCall}]]
  /\ doubt \in [Tabs -> SUBSET (Products \cup {0})]

\* Another tab's step leaves this tab as it is.
Untouched(u) ==
  /\ list'[u] = list[u] /\ error'[u] = error[u] /\ busy'[u] = busy[u]
  /\ dialog'[u] = dialog[u] /\ call'[u] = call[u] /\ doubt'[u] = doubt[u]

\* The same call, later: its stepper may be disposed, not one at these positions.
Ages(c, d, kept) ==
  /\ d \in Calls
  /\ d.kind = c.kind /\ d.stage = c.stage /\ d.id = c.id /\ d.row = c.row
  /\ d.index = c.index /\ d.before = c.before /\ d.answer = c.answer
  /\ c.tile \in kept => d.tile = c.tile
  /\ d.tile = c.tile \/ d.tile = 0

Stays(t, s, kept) ==
  IF call[t][s] = NoCall THEN call'[t][s] = NoCall ELSE Ages(call[t][s], call'[t][s], kept)

\* Disposing a stepper ages its call: nothing else about it changes.
LEMMA DetachedAges ==
  ASSUME NEW c \in Calls \cup {NoCall}, NEW kept
  PROVE  /\ Detached(c, Nat \ kept) \in Calls \cup {NoCall}
         /\ c = NoCall => Detached(c, Nat \ kept) = NoCall
         /\ c # NoCall => /\ Detached(c, Nat \ kept) # NoCall
                          /\ Ages(c, Detached(c, Nat \ kept), kept)
<1>1. CASE c = NoCall
  BY <1>1 DEF Detached
<1>2. CASE c # NoCall /\ c.tile \in Nat \ kept
  <2>1. c \in Calls /\ Detached(c, Nat \ kept) = [c EXCEPT !.tile = 0]
    BY <1>2 DEF Detached
  <2>2. [c EXCEPT !.tile = 0] \in Calls
    BY <2>1 DEF Calls
  <2>3. Ages(c, [c EXCEPT !.tile = 0], kept)
    BY <1>2, <2>1, <2>2 DEF Ages, Calls
  <2> QED BY <1>2, <2>1, <2>2, <2>3, NothingAssumption
<1>3. CASE c # NoCall /\ c.tile \notin Nat \ kept
  BY <1>3, NothingAssumption DEF Detached, Ages
<1> QED BY <1>1, <1>2, <1>3

\* What a repaint of one tab comes to.
Repainted(t, rows, e, marked, calls) ==
  LET kept == IF e = "shown" THEN {} ELSE DOMAIN rows IN
  /\ list' \in [Tabs -> Seq(Rows)]
  /\ error' \in [Tabs -> {"none", "shown", "cleared"}]
  /\ busy' \in [Tabs -> SUBSET Nat]
  /\ call' \in [Tabs -> [CallSlots -> Calls \cup {NoCall}]]
  /\ list'[t] = rows /\ error'[t] = e
  /\ busy'[t] = {i \in marked \cap kept : rows[i].id = list[t][i].id}
  /\ \A s \in CallSlots : IF calls[s] = NoCall THEN call'[t][s] = NoCall
                          ELSE call'[t][s] # NoCall /\ Ages(calls[s], call'[t][s], kept)
  /\ \A u \in Tabs \ {t} : /\ list'[u] = list[u] /\ error'[u] = error[u]
                           /\ busy'[u] = busy[u] /\ call'[u] = call[u]

\* Repaint writes one tab's list, error, marks and calls, and no other's.
LEMMA RepaintEffect ==
  ASSUME StockTyped, NEW t \in Tabs, NEW rows \in Seq(Rows),
         NEW e \in {"none", "shown", "cleared"}, NEW marked \in SUBSET Nat,
         NEW calls \in [CallSlots -> Calls \cup {NoCall}],
         Repaint(t, rows, e, marked, calls)
  PROVE  Repainted(t, rows, e, marked, calls)
<1> DEFINE kept == IF e = "shown" THEN {} ELSE DOMAIN rows
           aged == [s \in CallSlots |-> Detached(calls[s], Nat \ kept)]
           marks == {i \in marked \cap kept : rows[i].id = list[t][i].id}
<1>1. /\ list' = [list EXCEPT ![t] = rows]
      /\ error' = [error EXCEPT ![t] = e]
      /\ busy' = [busy EXCEPT ![t] = marks]
      /\ call' = [call EXCEPT ![t] = aged]
  BY DEF Repaint
<1>2. \A s \in CallSlots : calls[s] \in Calls \cup {NoCall}
  OBVIOUS
<1>3. aged \in [CallSlots -> Calls \cup {NoCall}]
  BY <1>2, DetachedAges
<1>4. \A s \in CallSlots : IF calls[s] = NoCall THEN aged[s] = NoCall
                           ELSE aged[s] # NoCall /\ Ages(calls[s], aged[s], kept)
  BY <1>2, DetachedAges
<1>5. marks \in SUBSET Nat
  OBVIOUS
<1> HIDE DEF kept, aged, marks
<1>6. /\ list' \in [Tabs -> Seq(Rows)] /\ list'[t] = rows
      /\ \A u \in Tabs \ {t} : list'[u] = list[u]
  BY <1>1 DEF StockTyped
<1>7. /\ error' \in [Tabs -> {"none", "shown", "cleared"}] /\ error'[t] = e
      /\ \A u \in Tabs \ {t} : error'[u] = error[u]
  BY <1>1 DEF StockTyped
<1>8. /\ busy' \in [Tabs -> SUBSET Nat] /\ busy'[t] = marks
      /\ \A u \in Tabs \ {t} : busy'[u] = busy[u]
  BY <1>1, <1>5 DEF StockTyped
<1>9. /\ call' \in [Tabs -> [CallSlots -> Calls \cup {NoCall}]] /\ call'[t] = aged
      /\ \A u \in Tabs \ {t} : call'[u] = call[u]
  BY <1>1, <1>3 DEF StockTyped
<1> QED BY <1>4, <1>6, <1>7, <1>8, <1>9 DEF Repainted, kept, marks

-----------------------------------------------------------------------------
(* One tab, and the admin who waits                                        *)

\* One copy of the admin app: nobody else writes the products.
OneTab == \A t, u \in Tabs : t = u

\* How the admin waits: see above.
Orderly ==
  \/ Overlap = "none"
  \/ Overlap = "rows" /\ OneTab /\ "patch" \notin Failing /\ "delete" \notin Failing

\* A call that no other call of its tab is in flight with.
Alone(c) == c.kind = "load" \/ (Overlap = "none" /\ c.kind = "delete")

Shape(c) ==
  /\ c.kind # "load" => c.id \in Products
  /\ c.kind # "patch" => c.tile = 0
  /\ c.kind \in {"patch", "put", "add"} => c.row \in Rows /\ c.row.id = c.id
  /\ c.kind = "patch" => c.before \in Rows /\ c.before.id = c.id
  /\ c.kind \in {"patch", "put", "add"} /\ c.stage = "ok" =>
       c.answer[1] \in Rows /\ c.answer[1].id = c.id /\ c.answer = <<c.answer[1]>>
  /\ c.kind = "load" /\ c.stage = "ok" => Once(c.answer)

\* The list shows each product once, and a stepper that is busy awaits a call.
Drawn(t) ==
  /\ Once(list[t])
  /\ busy[t] \subseteq DOMAIN list[t]
  /\ \A i \in busy[t] : \E s \in CallSlots : call[t][s] # NoCall /\ call[t][s].tile = i

Shaped(t) == \A s \in CallSlots : call[t][s] # NoCall => Shape(call[t][s])

\* What a call knows of ids: none is still to be drawn, and a product being
\* added is in no list before its answer.
Dated(c, rows, undrawn) ==
  /\ c.kind # "load" => c.id \notin undrawn
  /\ c.kind = "load" /\ c.stage = "ok" =>
       \A k \in DOMAIN c.answer : c.answer[k].id \notin undrawn
  /\ c.kind = "add" => \A i \in DOMAIN rows : rows[i].id # c.id

Novel(t) ==
  /\ \A i \in DOMAIN list[t] : list[t][i].id \notin fresh
  /\ dialog[t] # NoDialog => dialog[t].id \notin fresh
  /\ \A s \in CallSlots : call[t][s] # NoCall => Dated(call[t][s], list[t], fresh)

\* No two calls about one product.
Exclusive(t) ==
  \A s, z \in CallSlots : call[t][s] # NoCall /\ call[t][z] # NoCall /\ s # z =>
    ~Alone(call[t][s]) /\ call[t][s].id # call[t][z].id

\* Where nothing moves the rows, a tap's row is where it was, and its stepper
\* awaits it, unless an error is shown.
InPlace(c, rows, e, marked) ==
  /\ c.index \in DOMAIN rows
  /\ rows[c.index].id = c.id
  /\ e = "none" => c.tile = c.index /\ c.index \in marked

\* Where other calls move them, no tap needs to find its row by its position.
Steppers(t) ==
  \A s \in CallSlots : call[t][s] # NoCall /\ call[t][s].kind = "patch" =>
    /\ Overlap = "none" => InPlace(call[t][s], list[t], error[t], busy[t])
    /\ Overlap = "rows" => call[t][s].stage # "failed"

\* No call is about the product in the dialog.
Edited(t) ==
  dialog[t] # NoDialog =>
    \A s \in CallSlots : call[t][s] # NoCall =>
      ~Alone(call[t][s]) /\ call[t][s].id # dialog[t].id

\* Nothing but the load happens behind an error just cleared.
Cleared(t) ==
  error[t] = "cleared" =>
    /\ dialog[t] = NoDialog
    /\ \A s \in CallSlots : call[t][s] # NoCall => call[t][s].kind = "load"

Tab(t) ==
  Drawn(t) /\ Shaped(t) /\ Novel(t) /\ Exclusive(t) /\ Steppers(t) /\ Edited(t) /\ Cleared(t)

\* A tab another one's step left alone is as good as it was.
LEMMA UntouchedTab ==
  ASSUME NEW u, Tab(u), Untouched(u), fresh' \subseteq fresh
  PROVE  Tab(u)'
<1>1. Drawn(u)' /\ Shaped(u)' /\ Exclusive(u)' /\ Edited(u)' /\ Cleared(u)'
  BY DEF Untouched, Tab, Drawn, Shaped, Exclusive, Edited, Cleared
<1>2. Steppers(u)'
  BY DEF Untouched, Tab, Steppers, InPlace
<1>3. Novel(u)'
  BY DEF Untouched, Tab, Novel, Dated
<1> QED BY <1>1, <1>2, <1>3 DEF Tab

\* A tap writes a known stock within the bound.
LEMMA AdjustedStock ==
  ASSUME NEW stock \in Stocks, NEW up \in BOOLEAN, stock # (IF up THEN MaxStock ELSE 0)
  PROVE  Adjusted(stock, up) \in 0..MaxStock
<1>1. MaxStock \in Nat /\ MaxStock > 0
  BY StockSyncAssumption
<1>2. CASE stock = Unknown
  BY <1>1, <1>2 DEF Adjusted
<1>3. CASE stock # Unknown
  BY <1>1, <1>3 DEF Adjusted, Stocks
<1> QED BY <1>2, <1>3

\* A number up to the bound is a stock.
LEMMA KnownStock == \A n \in 0..MaxStock : n \in Stocks
  BY StockSyncAssumption DEF Stocks

\* A call starts in slot s.
Begins(t, s, kept) ==
  /\ s \in CallSlots /\ call[t][s] = NoCall
  /\ call'[t][s] \in Calls /\ call'[t][s].stage = "sent"
  /\ \A z \in CallSlots \ {s} : Stays(t, z, kept)

\* The call in slot s is over.
Ends(t, s, kept) ==
  /\ s \in CallSlots /\ call[t][s] # NoCall
  /\ call'[t][s] = NoCall
  /\ \A z \in CallSlots \ {s} : Stays(t, z, kept)

Others(t) == \A u \in Tabs \ {t} : Untouched(u)

\* A new call is one, and is on its way.
LEMMA CallType ==
  ASSUME NEW kind \in Kinds, NEW id \in Products \cup {0},
         NEW row \in Rows \cup {NoDialog}
  PROVE  /\ Call(kind, id, row) \in Calls
         /\ Call(kind, id, row).kind = kind /\ Call(kind, id, row).stage = "sent"
         /\ Call(kind, id, row).id = id /\ Call(kind, id, row).row = row
         /\ Call(kind, id, row).tile = 0
BY DEF Call, Calls, Kinds

\* _bump and quickAdjustStock: the row at the stepper's own position is written
\* and remembered, the stepper marked, one PATCH sent.
LEMMA TapEffect ==
  ASSUME StockTyped, NEW t \in Tabs, Tab(t), NEW i \in DOMAIN list[t], NEW up \in BOOLEAN,
         Tap(t, i, up)
  PROVE  /\ StockTyped' /\ Others(t)
         /\ UNCHANGED <<server, dialog, fresh, doubt>>
         /\ error[t] = "none" /\ dialog[t] = NoDialog /\ i \notin busy[t]
         /\ Quiet(t, list[t][i].id, {"put"})
         /\ error'[t] = "none" /\ busy'[t] = busy[t] \cup {i}
         /\ \E s \in CallSlots :
              /\ Begins(t, s, DOMAIN list[t])
              /\ call'[t][s].kind = "patch"
              /\ call'[t][s].id = list[t][i].id
              /\ call'[t][s].row \in Rows /\ call'[t][s].row.id = list[t][i].id
              /\ call'[t][s].before = list[t][i]
              /\ call'[t][s].index = i /\ call'[t][s].tile = i
              /\ list'[t] = [list[t] EXCEPT ![i] = call'[t][s].row]
<1> DEFINE id == list[t][i].id
           index == IndexOf(list[t], id)
           before == list[t][index]
           after == [before EXCEPT !.stock = Adjusted(@, up)]
           new == [Call("patch", id, after) EXCEPT !.index = index, !.before = before, !.tile = i]
<1>1. list[t] \in Seq(Rows) /\ Once(list[t]) /\ i \in Nat /\ list[t][i] \in Rows
  BY DEF StockTyped, Tab, Drawn
<1>2. index = i /\ before = list[t][i]
  BY <1>1, IndexOfRow
<1>3. PICK s \in CallSlots \ InFlight(t) :
        Repaint(t, WithRow(list[t], index, after), "none", busy[t] \cup {i},
                [call[t] EXCEPT ![s] = new])
  BY DEF Tap
<1>4. /\ error[t] = "none" /\ dialog[t] = NoDialog /\ i \notin busy[t]
      /\ Quiet(t, id, {"put"})
      /\ UNCHANGED <<server, dialog, fresh, doubt>>
      /\ list[t][i].stock # (IF up THEN MaxStock ELSE 0)
  BY DEF Tap, RowsShown
<1>5. before \in Rows /\ before.id = id /\ id \in Products /\ before.stock \in Stocks
  BY <1>1, <1>2, RowIds
<1>6. Adjusted(before.stock, up) \in 0..MaxStock
  BY <1>2, <1>4, <1>5, AdjustedStock
<1>7. after \in Rows /\ after.id = id
  <2> DEFINE n == Adjusted(before.stock, up)
  <2>1. n \in Stocks
    BY <1>6, KnownStock
  <2>2. after = [before EXCEPT !.stock = n]
    BY <1>5 DEF Rows
  <2> HIDE DEF n, after, before, id
  <2> QED BY <1>5, <2>1, <2>2 DEF Rows
<1>8. /\ new \in Calls /\ new.kind = "patch" /\ new.stage = "sent" /\ new.id = id
      /\ new.row = after /\ new.index = i /\ new.before = list[t][i] /\ new.tile = i
  <2> HIDE DEF after, before, index, id
  <2>1. Call("patch", id, after) \in Calls
        /\ Call("patch", id, after).kind = "patch" /\ Call("patch", id, after).stage = "sent"
        /\ Call("patch", id, after).id = id /\ Call("patch", id, after).row = after
    BY <1>5, <1>7, CallType DEF Kinds
  <2>2. index \in Nat /\ i \in Nat /\ before \in Rows
    BY <1>1, <1>2, <1>5
  <2> QED BY <1>2, <2>1, <2>2 DEF Calls
<1> DEFINE calls == [call[t] EXCEPT ![s] = new]
           rows == WithRow(list[t], index, after)
           marked == busy[t] \cup {i}
<1>9. s \in CallSlots /\ call[t][s] = NoCall
  BY DEF InFlight
<1>10. call[t] \in [CallSlots -> Calls \cup {NoCall}] /\ busy[t] \in SUBSET Nat
  BY DEF StockTyped
<1>11. /\ calls \in [CallSlots -> Calls \cup {NoCall}]
       /\ calls[s] = new /\ \A z \in CallSlots \ {s} : calls[z] = call[t][z]
  <2> HIDE DEF new
  <2> QED BY <1>8, <1>9, <1>10
<1>12. rows = [list[t] EXCEPT ![i] = after]
  BY <1>2 DEF WithRow
<1>13. rows \in Seq(Rows) /\ DOMAIN rows = DOMAIN list[t]
       /\ \A j \in DOMAIN rows : rows[j].id = list[t][j].id
  <2> HIDE DEF after, id
  <2>1. rows[i].id = list[t][i].id
    BY <1>1, <1>7, <1>12 DEF id
  <2> QED BY <1>1, <1>7, <1>12, <2>1
<1>14. marked \in SUBSET Nat /\ marked \subseteq DOMAIN rows
  BY <1>1, <1>10, <1>13 DEF Tab, Drawn
<1>15. Repaint(t, rows, "none", marked, calls)
  BY <1>3
<1> HIDE DEF calls, rows, marked, new
<1>16. Repainted(t, rows, "none", marked, calls)
  BY <1>11, <1>13, <1>14, <1>15, RepaintEffect
<1>17. StockTyped' /\ Others(t)
  BY <1>4, <1>16 DEF Repainted, StockTyped, TypedServer, Others, Untouched
<1>18. busy'[t] = busy[t] \cup {i}
  BY <1>13, <1>14, <1>16 DEF Repainted, marked
<1>19. new # NoCall
  BY <1>8, NothingAssumption
<1>20. Ages(new, call'[t][s], DOMAIN rows)
  BY <1>9, <1>11, <1>16, <1>19 DEF Repainted
<1>21. Begins(t, s, DOMAIN list[t])
  <2>1. call'[t][s] \in Calls /\ call'[t][s].stage = "sent"
    BY <1>8, <1>20 DEF Ages
  <2>2. ASSUME NEW z \in CallSlots \ {s} PROVE Stays(t, z, DOMAIN list[t])
    BY <1>11, <1>13, <1>16 DEF Repainted, Stays
  <2> QED BY <1>9, <2>1, <2>2 DEF Begins
<1>22. call'[t][s].row = after /\ call'[t][s].kind = "patch" /\ call'[t][s].id = id
       /\ call'[t][s].before = list[t][i] /\ call'[t][s].index = i /\ call'[t][s].tile = i
  BY <1>8, <1>13, <1>20 DEF Ages
<1>23. list'[t] = [list[t] EXCEPT ![i] = call'[t][s].row] /\ error'[t] = "none"
  BY <1>12, <1>16, <1>22 DEF Repainted
<1> HIDE DEF after
<1>24. call'[t][s].row \in Rows /\ call'[t][s].row.id = id
  BY <1>7, <1>22
<1> QED BY <1>4, <1>9, <1>17, <1>18, <1>21, <1>22, <1>23, <1>24

\* A call starts and the list is painted again as it is.
LEMMA StartEffect ==
  ASSUME StockTyped, NEW t \in Tabs, Tab(t), NEW s \in CallSlots \ InFlight(t),
         NEW new \in Calls, new.stage = "sent",
         Repaint(t, list[t], "none", busy[t], [call[t] EXCEPT ![s] = new])
  PROVE  /\ Repainted(t, list[t], "none", busy[t], [call[t] EXCEPT ![s] = new])
         /\ list'[t] = list[t] /\ error'[t] = "none" /\ busy'[t] = busy[t]
         /\ Begins(t, s, DOMAIN list[t])
         /\ Ages(new, call'[t][s], DOMAIN list[t])
<1> DEFINE calls == [call[t] EXCEPT ![s] = new]
<1>1. s \in CallSlots /\ call[t][s] = NoCall
  BY DEF InFlight
<1>2. /\ call[t] \in [CallSlots -> Calls \cup {NoCall}] /\ busy[t] \in SUBSET Nat
      /\ list[t] \in Seq(Rows) /\ busy[t] \subseteq DOMAIN list[t]
  BY DEF StockTyped, Tab, Drawn
<1>3. /\ calls \in [CallSlots -> Calls \cup {NoCall}]
      /\ calls[s] = new /\ \A z \in CallSlots \ {s} : calls[z] = call[t][z]
  BY <1>1, <1>2
<1>4. Repaint(t, list[t], "none", busy[t], calls)
  OBVIOUS
<1> HIDE DEF calls
<1>5. Repainted(t, list[t], "none", busy[t], calls)
  BY <1>2, <1>3, <1>4, RepaintEffect
<1>6. list'[t] = list[t] /\ error'[t] = "none" /\ busy'[t] = busy[t]
  BY <1>2, <1>5 DEF Repainted
<1>7. Ages(new, call'[t][s], DOMAIN list[t])
  BY <1>1, <1>3, <1>5, NothingAssumption DEF Repainted
<1>8. Begins(t, s, DOMAIN list[t])
  <2>1. call'[t][s] \in Calls /\ call'[t][s].stage = "sent"
    BY <1>7 DEF Ages
  <2>2. ASSUME NEW z \in CallSlots \ {s} PROVE Stays(t, z, DOMAIN list[t])
    BY <1>3, <1>5 DEF Repainted, Stays
  <2> QED BY <1>1, <2>1, <2>2 DEF Begins
<1> QED BY <1>5, <1>6, <1>7, <1>8 DEF calls

\* A call is over, and the list painted as its end left it.
LEMMA EndEffect ==
  ASSUME StockTyped, NEW t \in Tabs, NEW s \in CallSlots, call[t][s] # NoCall,
         NEW rows \in Seq(Rows), NEW e \in {"none", "shown", "cleared"},
         NEW marked, marked \subseteq busy[t],
         Repaint(t, rows, e, marked, [call[t] EXCEPT ![s] = NoCall])
  PROVE  /\ Repainted(t, rows, e, marked, [call[t] EXCEPT ![s] = NoCall])
         /\ list'[t] = rows /\ error'[t] = e
         /\ busy'[t] = {i \in marked \cap (IF e = "shown" THEN {} ELSE DOMAIN rows) :
                          rows[i].id = list[t][i].id}
         /\ Ends(t, s, IF e = "shown" THEN {} ELSE DOMAIN rows)
<1> DEFINE calls == [call[t] EXCEPT ![s] = NoCall]
           kept == IF e = "shown" THEN {} ELSE DOMAIN rows
<1>1. call[t] \in [CallSlots -> Calls \cup {NoCall}] /\ marked \in SUBSET Nat
  BY DEF StockTyped
<1>2. /\ calls \in [CallSlots -> Calls \cup {NoCall}]
      /\ calls[s] = NoCall /\ \A z \in CallSlots \ {s} : calls[z] = call[t][z]
  BY <1>1
<1>3. Repaint(t, rows, e, marked, calls)
  OBVIOUS
<1> HIDE DEF calls
<1>4. Repainted(t, rows, e, marked, calls)
  BY <1>1, <1>2, <1>3, RepaintEffect
<1>5. list'[t] = rows /\ error'[t] = e
      /\ busy'[t] = {i \in marked \cap kept : rows[i].id = list[t][i].id}
  BY <1>4 DEF Repainted
<1>6. \A z \in CallSlots : IF calls[z] = NoCall THEN call'[t][z] = NoCall
                           ELSE Ages(calls[z], call'[t][z], kept)
  BY <1>4 DEF Repainted
<1> HIDE DEF kept
<1>7. Ends(t, s, kept)
  <2>1. ASSUME NEW z \in CallSlots \ {s} PROVE Stays(t, z, kept)
    BY <1>2, <1>6 DEF Stays
  <2> QED BY <1>2, <1>6, <2>1 DEF Ends
<1> QED BY <1>4, <1>5, <1>7 DEF calls, kept

\* _submit: one PUT of the dialog's product, and the dialog closes.
LEMMA SaveEffect ==
  ASSUME StockTyped, NEW t \in Tabs, Tab(t), SaveEdit(t)
  PROVE  /\ StockTyped' /\ Others(t)
         /\ UNCHANGED <<server, fresh, doubt>>
         /\ dialog[t] # NoDialog /\ dialog'[t] = NoDialog
         /\ error[t] = "none" \/ AllQuiet(t)
         /\ list'[t] = list[t] /\ error'[t] = "none" /\ busy'[t] = busy[t]
         /\ \E s \in CallSlots :
              /\ Begins(t, s, DOMAIN list[t])
              /\ call'[t][s].kind = "put"
              /\ call'[t][s].id = dialog[t].id
              /\ call'[t][s].row \in Rows /\ call'[t][s].row.id = dialog[t].id
              /\ call'[t][s].tile = 0
<1> DEFINE row == [dialog[t] EXCEPT !.text = "new"]
           new == Call("put", dialog[t].id, row)
<1>1. PICK s \in CallSlots \ InFlight(t) :
        Repaint(t, list[t], "none", busy[t], [call[t] EXCEPT ![s] = new])
  BY DEF SaveEdit
<1>2. /\ dialog[t] # NoDialog /\ (error[t] = "none" \/ AllQuiet(t))
      /\ dialog' = [dialog EXCEPT ![t] = NoDialog]
      /\ UNCHANGED <<server, fresh, doubt>>
  BY DEF SaveEdit
<1>3. dialog[t] \in Rows
  BY <1>2 DEF StockTyped
<1>4. row \in Rows /\ row.id = dialog[t].id /\ dialog[t].id \in Products
  BY <1>3 DEF Rows
<1> HIDE DEF row
<1>5. /\ new \in Calls /\ new.kind = "put" /\ new.stage = "sent" /\ new.id = dialog[t].id
      /\ new.row = row /\ new.tile = 0
  BY <1>4, CallType DEF Kinds
<1> HIDE DEF new
<1>6. /\ Repainted(t, list[t], "none", busy[t], [call[t] EXCEPT ![s] = new])
      /\ list'[t] = list[t] /\ error'[t] = "none" /\ busy'[t] = busy[t]
      /\ Begins(t, s, DOMAIN list[t])
      /\ Ages(new, call'[t][s], DOMAIN list[t])
  BY <1>1, <1>5, StartEffect
<1>7. dialog' \in [Tabs -> Rows \cup {NoDialog}] /\ dialog'[t] = NoDialog
      /\ \A u \in Tabs \ {t} : dialog'[u] = dialog[u]
  BY <1>2 DEF StockTyped
<1>8. StockTyped' /\ Others(t)
  BY <1>2, <1>6, <1>7 DEF Repainted, StockTyped, TypedServer, Others, Untouched
<1>9. /\ call'[t][s].kind = "put" /\ call'[t][s].id = dialog[t].id
      /\ call'[t][s].row = row /\ call'[t][s].tile = 0
  BY <1>5, <1>6 DEF Ages
<1> QED BY <1>2, <1>4, <1>6, <1>7, <1>8, <1>9

\* addProduct up to its await: one POST, of a product that had no id.
LEMMA AddEffect ==
  ASSUME StockTyped, NEW t \in Tabs, Tab(t), NEW p \in Products,
         NEW stock \in InitialStocks \ {Unknown}, Add(t, p, stock)
  PROVE  /\ StockTyped' /\ Others(t)
         /\ UNCHANGED <<server, dialog, doubt>> /\ fresh' = fresh \ {p} /\ p \in fresh
         /\ dialog[t] = NoDialog /\ Quiet(t, p, {})
         /\ error[t] = "none" \/ AllQuiet(t)
         /\ list'[t] = list[t] /\ error'[t] = "none" /\ busy'[t] = busy[t]
         /\ \E s \in CallSlots :
              /\ Begins(t, s, DOMAIN list[t])
              /\ call'[t][s].kind = "add"
              /\ call'[t][s].id = p
              /\ call'[t][s].row \in Rows /\ call'[t][s].row.id = p
              /\ call'[t][s].tile = 0
<1> DEFINE row == [id |-> p, stock |-> stock, text |-> "old"]
           new == Call("add", p, row)
<1>1. PICK s \in CallSlots \ InFlight(t) :
        Repaint(t, list[t], "none", busy[t], [call[t] EXCEPT ![s] = new])
  BY DEF Add
<1>2. /\ dialog[t] = NoDialog /\ Quiet(t, p, {}) /\ (error[t] = "none" \/ AllQuiet(t))
      /\ p \in fresh /\ fresh' = fresh \ {p}
      /\ UNCHANGED <<server, dialog, doubt>>
  BY DEF Add
<1>3. stock \in Stocks
  BY StockSyncAssumption DEF Stocks
<1>4. row \in Rows /\ row.id = p
  BY <1>3 DEF Rows
<1> HIDE DEF row
<1>5. /\ new \in Calls /\ new.kind = "add" /\ new.stage = "sent" /\ new.id = p
      /\ new.row = row /\ new.tile = 0
  BY <1>4, CallType DEF Kinds
<1> HIDE DEF new
<1>6. /\ Repainted(t, list[t], "none", busy[t], [call[t] EXCEPT ![s] = new])
      /\ list'[t] = list[t] /\ error'[t] = "none" /\ busy'[t] = busy[t]
      /\ Begins(t, s, DOMAIN list[t])
      /\ Ages(new, call'[t][s], DOMAIN list[t])
  BY <1>1, <1>5, StartEffect
<1>7. StockTyped' /\ Others(t)
  BY <1>2, <1>6 DEF Repainted, StockTyped, TypedServer, Others, Untouched
<1>8. /\ call'[t][s].kind = "add" /\ call'[t][s].id = p
      /\ call'[t][s].row = row /\ call'[t][s].tile = 0
  BY <1>5, <1>6 DEF Ages
<1> QED BY <1>2, <1>4, <1>6, <1>7, <1>8

\* deleteProduct up to its await: one DELETE, the list as it was.
LEMMA DeleteEffect ==
  ASSUME StockTyped, NEW t \in Tabs, Tab(t), NEW i \in DOMAIN list[t], Delete(t, i)
  PROVE  /\ StockTyped' /\ Others(t)
         /\ UNCHANGED <<server, dialog, fresh, doubt>>
         /\ dialog[t] = NoDialog /\ error[t] = "none" /\ AllQuiet(t) /\ Quiet(t, list[t][i].id, {})
         /\ list'[t] = list[t] /\ error'[t] = "none" /\ busy'[t] = busy[t]
         /\ \E s \in CallSlots :
              /\ Begins(t, s, DOMAIN list[t])
              /\ call'[t][s].kind = "delete"
              /\ call'[t][s].id = list[t][i].id
              /\ call'[t][s].tile = 0
<1> DEFINE new == Call("delete", list[t][i].id, NoDialog)
<1>1. PICK s \in CallSlots \ InFlight(t) :
        Repaint(t, list[t], "none", busy[t], [call[t] EXCEPT ![s] = new])
  BY DEF Delete
<1>2. /\ dialog[t] = NoDialog /\ error[t] = "none" /\ AllQuiet(t) /\ Quiet(t, list[t][i].id, {})
      /\ UNCHANGED <<server, dialog, fresh, doubt>>
  BY DEF Delete, RowsShown
<1>3. list[t] \in Seq(Rows)
  BY DEF StockTyped
<1>4. list[t][i].id \in Products
  BY <1>3, RowIds
<1>5. /\ new \in Calls /\ new.kind = "delete" /\ new.stage = "sent" /\ new.id = list[t][i].id
      /\ new.tile = 0
  BY <1>4, CallType DEF Kinds
<1> HIDE DEF new
<1>6. /\ Repainted(t, list[t], "none", busy[t], [call[t] EXCEPT ![s] = new])
      /\ list'[t] = list[t] /\ error'[t] = "none" /\ busy'[t] = busy[t]
      /\ Begins(t, s, DOMAIN list[t])
      /\ Ages(new, call'[t][s], DOMAIN list[t])
  BY <1>1, <1>5, StartEffect
<1>8. StockTyped' /\ Others(t)
  BY <1>2, <1>6 DEF Repainted, StockTyped, TypedServer, Others, Untouched
<1>9. call'[t][s].kind = "delete" /\ call'[t][s].id = list[t][i].id /\ call'[t][s].tile = 0
  BY <1>5, <1>6 DEF Ages
<1> QED BY <1>2, <1>6, <1>8, <1>9

\* initialize up to its await: one GET, and every stepper is disposed.
LEMMA ReloadEffect ==
  ASSUME StockTyped, NEW t \in Tabs, Reload(t)
  PROVE  /\ StockTyped' /\ Others(t)
         /\ UNCHANGED <<server, list, dialog, fresh, doubt>>
         /\ dialog[t] = NoDialog /\ (Overlap = "any" \/ InFlight(t) = {})
         /\ error'[t] \in {"none", "cleared"} /\ busy'[t] = {}
         /\ \E s \in CallSlots : 
              Begins(t, s, {}) /\ call'[t][s].kind = "load" /\ call'[t][s].tile = 0
<1>1. PICK s \in CallSlots \ InFlight(t) :
        call' = [call EXCEPT ![t] = [z \in CallSlots |->
                   IF z = s THEN Call("load", 0, NoDialog) ELSE Detached(@[z], Nat)]]
  BY DEF Reload
<1>2. /\ dialog[t] = NoDialog /\ (Overlap = "any" \/ InFlight(t) = {})
      /\ UNCHANGED <<server, list, dialog, fresh, doubt>>
      /\ error' = [error EXCEPT ![t] = IF @ = "shown" THEN "cleared" ELSE @]
      /\ busy' = [busy EXCEPT ![t] = {}]
  BY DEF Reload
<1> DEFINE new == Call("load", 0, NoDialog)
           calls == [z \in CallSlots |-> IF z = s THEN new ELSE Detached(call[t][z], Nat)]
<1>3. new \in Calls /\ new.kind = "load" /\ new.stage = "sent" /\ new.tile = 0
  BY CallType DEF Kinds
<1>4. s \in CallSlots /\ call[t][s] = NoCall
  BY DEF InFlight
<1>5. ASSUME NEW z \in CallSlots
      PROVE  /\ Detached(call[t][z], Nat) \in Calls \cup {NoCall}
             /\ IF call[t][z] = NoCall THEN Detached(call[t][z], Nat) = NoCall
                ELSE Ages(call[t][z], Detached(call[t][z], Nat), {})
  <2>1. call[t][z] \in Calls \cup {NoCall}
    BY DEF StockTyped
  <2>2. Nat = Nat \ {}
    OBVIOUS
  <2> QED BY <2>1, <2>2, DetachedAges
<1> HIDE DEF new
<1>6. call' = [call EXCEPT ![t] = calls] /\ calls \in [CallSlots -> Calls \cup {NoCall}]
      /\ calls[s] = new /\ \A z \in CallSlots \ {s} : calls[z] = Detached(call[t][z], Nat)
  <2>1. call[t] \in [CallSlots -> Calls \cup {NoCall}]
    BY DEF StockTyped
  <2> QED BY <1>1, <1>3, <1>4, <1>5, <2>1 DEF new
<1> HIDE DEF calls
<1>7. /\ call' \in [Tabs -> [CallSlots -> Calls \cup {NoCall}]] /\ call'[t] = calls
      /\ \A u \in Tabs \ {t} : call'[u] = call[u]
  BY <1>6 DEF StockTyped
<1>8. /\ error' \in [Tabs -> {"none", "shown", "cleared"}] /\ error'[t] \in {"none", "cleared"}
      /\ \A u \in Tabs \ {t} : error'[u] = error[u]
  <2>1. error[t] \in {"none", "shown", "cleared"}
    BY DEF StockTyped
  <2> QED BY <1>2, <2>1 DEF StockTyped
<1>9. /\ busy' \in [Tabs -> SUBSET Nat] /\ busy'[t] = {}
      /\ \A u \in Tabs \ {t} : busy'[u] = busy[u]
  BY <1>2 DEF StockTyped
<1>10. StockTyped' /\ Others(t)
  BY <1>2, <1>7, <1>8, <1>9 DEF StockTyped, TypedServer, Others, Untouched
<1>11. Begins(t, s, {})
  BY <1>3, <1>4, <1>5, <1>6, <1>7 DEF Begins, Stays
<1> QED BY <1>2, <1>3, <1>6, <1>7, <1>8, <1>9, <1>10, <1>11

\* A tile scrolled away loses its mark and its call's stepper.
LEMMA ScrollEffect ==
  ASSUME StockTyped, NEW t \in Tabs, NEW i, Scroll(t, i)
  PROVE  /\ StockTyped' /\ Others(t)
         /\ UNCHANGED <<server, list, error, dialog, fresh, doubt>>
         /\ error[t] = "none" /\ AllQuiet(t)
         /\ busy'[t] = busy[t] \ {i}
         /\ \A s \in CallSlots : Stays(t, s, Nat \ {i})
<1> DEFINE calls == [z \in CallSlots |-> Detached(call[t][z], {i})]
<1>1. /\ error[t] = "none" /\ AllQuiet(t)
      /\ UNCHANGED <<server, list, error, dialog, fresh, doubt>>
      /\ busy' = [busy EXCEPT ![t] = @ \ {i}]
      /\ call' = [call EXCEPT ![t] = calls]
  BY DEF Scroll, RowsShown
<1>2. ASSUME NEW z \in CallSlots
      PROVE  /\ Detached(call[t][z], {i}) \in Calls \cup {NoCall}
             /\ IF call[t][z] = NoCall THEN Detached(call[t][z], {i}) = NoCall
                ELSE Ages(call[t][z], Detached(call[t][z], {i}), Nat \ {i})
  <2>1. call[t][z] \in Calls \cup {NoCall}
    BY DEF StockTyped
  <2>2. CASE call[t][z] = NoCall
    BY <2>2 DEF Detached
  <2>3. CASE call[t][z] # NoCall
    <3>1. call[t][z] \in Calls /\ call[t][z].tile \in Nat
      BY <2>1, <2>3 DEF Calls
    <3>2. CASE call[t][z].tile # i
      BY <2>3, <3>1, <3>2 DEF Detached, Ages
    <3>3. CASE call[t][z].tile = i
      <4>1. Detached(call[t][z], {i}) = [call[t][z] EXCEPT !.tile = 0]
        BY <2>3, <3>3 DEF Detached
      <4>2. [call[t][z] EXCEPT !.tile = 0] \in Calls
        BY <3>1 DEF Calls
      <4>3. Ages(call[t][z], [call[t][z] EXCEPT !.tile = 0], Nat \ {i})
        BY <3>1, <3>3, <4>2 DEF Ages, Calls
      <4> QED BY <2>3, <4>1, <4>2, <4>3
    <3> QED BY <3>2, <3>3
  <2> QED BY <2>2, <2>3
<1>3. calls \in [CallSlots -> Calls \cup {NoCall}]
  BY <1>2
<1>4. \A z \in CallSlots : calls[z] = Detached(call[t][z], {i})
  OBVIOUS
<1> HIDE DEF calls
<1>5. /\ call' \in [Tabs -> [CallSlots -> Calls \cup {NoCall}]] /\ call'[t] = calls
      /\ \A u \in Tabs \ {t} : call'[u] = call[u]
  BY <1>1, <1>3 DEF StockTyped
<1>6. /\ busy' \in [Tabs -> SUBSET Nat] /\ busy'[t] = busy[t] \ {i}
      /\ \A u \in Tabs \ {t} : busy'[u] = busy[u]
  BY <1>1 DEF StockTyped
<1>7. StockTyped' /\ Others(t)
  BY <1>1, <1>5, <1>6 DEF StockTyped, TypedServer, Others, Untouched
<1>8. \A s \in CallSlots : Stays(t, s, Nat \ {i})
  BY <1>2, <1>4, <1>5 DEF Stays
<1> QED BY <1>1, <1>6, <1>7, <1>8

\* The dialog opens on the row's product, its stock the row's if known.
LEMMA OpenEffect ==
  ASSUME StockTyped, NEW t \in Tabs, NEW i \in DOMAIN list[t], OpenEdit(t, i)
  PROVE  /\ StockTyped' /\ Others(t)
         /\ UNCHANGED <<server, list, error, busy, call, fresh, doubt>>
         /\ error[t] = "none" /\ Quiet(t, list[t][i].id, {"patch", "put"})
         /\ dialog'[t] \in Rows /\ dialog'[t].id = list[t][i].id
<1> DEFINE row == [list[t][i] EXCEPT !.stock = IF @ = Unknown THEN 0 ELSE @]
<1>1. /\ error[t] = "none" /\ Quiet(t, list[t][i].id, {"patch", "put"})
      /\ dialog' = [dialog EXCEPT ![t] = row]
      /\ UNCHANGED <<server, list, error, busy, call, fresh, doubt>>
  BY DEF OpenEdit, RowsShown
<1>2. list[t] \in Seq(Rows) /\ list[t][i] \in Rows
  BY DEF StockTyped
<1>3. 0 \in Stocks
  BY KnownStock, StockSyncAssumption
<1>4. row \in Rows /\ row.id = list[t][i].id
  BY <1>2, <1>3 DEF Rows
<1> HIDE DEF row
<1>5. /\ dialog' \in [Tabs -> Rows \cup {NoDialog}] /\ dialog'[t] = row
      /\ \A u \in Tabs \ {t} : dialog'[u] = dialog[u]
  BY <1>1, <1>4 DEF StockTyped
<1>6. StockTyped' /\ Others(t)
  BY <1>1, <1>5 DEF StockTyped, TypedServer, Others, Untouched
<1> QED BY <1>1, <1>4, <1>5, <1>6

\* Cancelling closes the dialog, no more.
LEMMA CancelEffect ==
  ASSUME StockTyped, NEW t \in Tabs, CancelEdit(t)
  PROVE  /\ StockTyped' /\ Others(t)
         /\ UNCHANGED <<server, list, error, busy, call, fresh, doubt>>
         /\ dialog'[t] = NoDialog
<1>1. /\ dialog' = [dialog EXCEPT ![t] = NoDialog]
      /\ UNCHANGED <<server, list, error, busy, call, fresh, doubt>>
  BY DEF CancelEdit
<1>2. /\ dialog' \in [Tabs -> Rows \cup {NoDialog}] /\ dialog'[t] = NoDialog
      /\ \A u \in Tabs \ {t} : dialog'[u] = dialog[u]
  BY <1>1 DEF StockTyped
<1> QED BY <1>1, <1>2 DEF StockTyped, TypedServer, Others, Untouched

-----------------------------------------------------------------------------
(* The server                                                              *)

\* The rows of one page.
LEMMA ServerRows == ASSUME TypedServer PROVE RowsAt(server, OnPage) /\ Unlisted \subseteq Products
<1>1. Products \subseteq Nat /\ IsFiniteSet(Products)
  BY StockSyncAssumption
<1>2. OnPage \subseteq DOMAIN server /\ Unlisted \subseteq DOMAIN server
  BY DEF OnPage, Unlisted
<1>3. IsFiniteSet(OnPage)
  BY <1>1, <1>2, FS_Subset DEF TypedServer
<1> QED BY <1>1, <1>2, <1>3 DEF TypedServer, RowsAt

\* The list the server answers: the rows of its first page, and no other.
LEMMA ListedRows ==
  ASSUME TypedServer
  PROVE  /\ Listed \in Seq(Rows) /\ Once(Listed)
         /\ \A k \in DOMAIN Listed : \E p \in DOMAIN server : Listed[k] = server[p]
         /\ \A p \in DOMAIN server \ Unlisted : \E k \in DOMAIN Listed : Listed[k] = server[p]
<1>1. PicksRows(server, OnPage)
  BY ServerRows, PickedRows
<1>2. OnPage \subseteq DOMAIN server /\ DOMAIN server \ Unlisted = OnPage
  BY DEF OnPage, Unlisted
<1> QED BY <1>1, <1>2 DEF Listed, PicksRows

Found(c) == c.kind \in {"load", "add"} \/ c.id \in DOMAIN server

\* What a call stores: one row changed or gone, every other as it was.
LEMMA StoredEffect ==
  ASSUME TypedServer, NEW c \in Calls, Shape(c), Found(c)
  PROVE  /\ DOMAIN Stored(c) \subseteq Products
         /\ \A p \in DOMAIN Stored(c) : Stored(c)[p] \in Rows /\ Stored(c)[p].id = p
         /\ \A p \in Products : c.kind = "load" \/ p # c.id =>
              /\ p \in DOMAIN Stored(c) <=> p \in DOMAIN server
              /\ p \in DOMAIN server => Stored(c)[p] = server[p]
         /\ c.kind \in {"patch", "put", "add"} => c.id \in DOMAIN Stored(c)
         /\ c.kind = "delete" => c.id \notin DOMAIN Stored(c)
<1>1. CASE c.kind = "patch"
  <2> DEFINE row == [server[c.id] EXCEPT !.stock = c.row.stock]
  <2>1. c.id \in DOMAIN server /\ server[c.id] \in Rows /\ server[c.id].id = c.id /\ c.row \in Rows
    BY <1>1 DEF Found, TypedServer, Shape
  <2>2. row \in Rows /\ row.id = c.id
    BY <2>1 DEF Rows
  <2>3. Stored(c) = [server EXCEPT ![c.id] = row]
    BY <1>1, StoredKinds
  <2> HIDE DEF row
  <2> QED BY <1>1, <2>1, <2>2, <2>3 DEF TypedServer
<1>2. CASE c.kind = "put"
  <2>1. c.id \in DOMAIN server /\ c.row \in Rows /\ c.row.id = c.id
    BY <1>2 DEF Found, Shape
  <2>2. Stored(c) = [server EXCEPT ![c.id] = c.row]
    BY <1>2, StoredKinds
  <2> QED BY <1>2, <2>1, <2>2 DEF TypedServer
<1>3. CASE c.kind = "delete"
  <2>1. Stored(c) = [p \in DOMAIN server \ {c.id} |-> server[p]]
    BY <1>3, StoredKinds
  <2> QED BY <1>3, <2>1 DEF TypedServer
<1>4. CASE c.kind = "load"
  <2>1. Stored(c) = server
    BY <1>4, StoredKinds
  <2> QED BY <1>4, <2>1 DEF TypedServer
<1>5. CASE c.kind = "add"
  <2>1. c.id \in Products /\ c.row \in Rows /\ c.row.id = c.id
    BY <1>5 DEF Shape
  <2>2. Stored(c) = [p \in DOMAIN server \cup {c.id} |-> IF p = c.id THEN c.row ELSE server[p]]
    BY <1>5, StoredKinds
  <2> QED BY <1>5, <2>1, <2>2 DEF TypedServer
<1>6. c.kind \in Kinds
  BY DEF Calls
<1> QED BY <1>1, <1>2, <1>3, <1>4, <1>5, <1>6 DEF Kinds

\* The same call, answered.
Answered(c, d) ==
  /\ d \in Calls /\ Shape(d)
  /\ d.kind = c.kind /\ d.id = c.id /\ d.row = c.row
  /\ d.index = c.index /\ d.before = c.before /\ d.tile = c.tile

\* A refused call is the same call, failed.
LEMMA FailedAnswer ==
  ASSUME NEW c \in Calls, Shape(c)
  PROVE  LET d == [c EXCEPT !.stage = "failed"] IN Answered(c, d) /\ d.stage = "failed"
<1> DEFINE d == [c EXCEPT !.stage = "failed"]
<1>1. d \in Calls /\ d.stage = "failed"
      /\ d.kind = c.kind /\ d.id = c.id /\ d.row = c.row
      /\ d.index = c.index /\ d.before = c.before /\ d.tile = c.tile
  BY DEF Calls
<1> HIDE DEF d
<1>2. Shape(d)
  BY <1>1 DEF Shape
<1> QED BY <1>1, <1>2 DEF Answered, d

RightAnswer(c, answer) ==
  /\ answer \in Seq(Rows)
  /\ c.kind \in {"patch", "put", "add"} =>
       answer[1] \in Rows /\ answer[1].id = c.id /\ answer = <<answer[1]>>
  /\ c.kind = "load" => Once(answer)

OkWith(c, answer) == [c EXCEPT !.stage = "ok", !.answer = answer]

\* An answered call is the same call, with an answer of the right shape.
LEMMA OkAnswer ==
  ASSUME NEW c \in Calls, Shape(c), NEW answer, RightAnswer(c, answer)
  PROVE  /\ Answered(c, OkWith(c, answer))
         /\ OkWith(c, answer).stage = "ok" /\ OkWith(c, answer).answer = answer
<1> DEFINE d == OkWith(c, answer)
<1>1. d \in Calls /\ d.stage = "ok" /\ d.answer = answer
      /\ d.kind = c.kind /\ d.id = c.id /\ d.row = c.row
      /\ d.index = c.index /\ d.before = c.before /\ d.tile = c.tile
  BY DEF Calls, RightAnswer, OkWith
<1> HIDE DEF d
<1>2. Shape(d)
  BY <1>1 DEF Shape, RightAnswer
<1> QED BY <1>1, <1>2 DEF Answered, d

\* A call is answered, or its answer lost; nothing else happens to the tabs.
LEMMA CallChanges ==
  ASSUME StockTyped, NEW t \in Tabs, NEW s \in CallSlots, NEW d \in Calls,
         call' = [call EXCEPT ![t][s] = d]
  PROVE  /\ call' \in [Tabs -> [CallSlots -> Calls \cup {NoCall}]]
         /\ call'[t][s] = d
         /\ \A z \in CallSlots \ {s} : call'[t][z] = call[t][z]
         /\ \A u \in Tabs \ {t} : call'[u] = call[u]
<1> DEFINE calls == [call[t] EXCEPT ![s] = d]
<1>1. call[t] \in [CallSlots -> Calls \cup {NoCall}]
  BY DEF StockTyped
<1>2. calls \in [CallSlots -> Calls \cup {NoCall}] /\ calls[s] = d
      /\ \A z \in CallSlots \ {s} : calls[z] = call[t][z]
  BY <1>1
<1>3. call' = [call EXCEPT ![t] = calls]
  OBVIOUS
<1> HIDE DEF calls
<1> QED BY <1>2, <1>3 DEF StockTyped

\* The server serves a call and answers it, serves it and the answer is lost,
\* or does not find its product.
LEMMA ServeEffect ==
  ASSUME StockTyped, NEW t \in Tabs, Shaped(t), NEW s \in CallSlots, Serve(t, s)
  PROVE  /\ StockTyped'
         /\ UNCHANGED <<list, error, busy, dialog, fresh>>
         /\ \A u \in Tabs \ {t} : call'[u] = call[u] /\ doubt'[u] = doubt[u]
         /\ call[t][s] \in Calls /\ call[t][s] # NoCall /\ call[t][s].stage = "sent"
         /\ Answered(call[t][s], call'[t][s])
         /\ \A z \in CallSlots \ {s} : call'[t][z] = call[t][z]
         /\ \/ server' = server
            \/ Found(call[t][s]) /\ server' = Stored(call[t][s])
         /\ \/ /\ call'[t][s].stage = "ok" /\ doubt' = doubt
               /\ Found(call[t][s]) /\ server' = Stored(call[t][s])
               /\ call[t][s].kind = "load" => call'[t][s].answer = Listed
               /\ call[t][s].kind \in {"patch", "put", "add"} =>
                    call'[t][s].answer[1] = server'[call[t][s].id]
            \/ call'[t][s].stage = "failed" /\ doubt' = doubt /\ server' = server
               /\ ~Found(call[t][s])
            \/ call'[t][s].stage = "failed" /\ doubt'[t] = doubt[t] \cup {call[t][s].id}
               /\ call[t][s].kind \in Failing
<1> DEFINE c == call[t][s]
           answer == CASE c.kind = "load"   -> Listed
                       [] c.kind = "delete" -> <<>>
                       [] OTHER             -> <<Stored(c)[c.id]>>
           okd == OkWith(c, answer)
           bad == [c EXCEPT !.stage = "failed"]
<1>1. c # NoCall /\ c.stage = "sent" /\ UNCHANGED <<list, error, busy, dialog, fresh>>
      /\ server' = IF Found(c) THEN Stored(c) ELSE server
  BY DEF Serve, Found
<1>2. \/ /\ call' = [call EXCEPT ![t][s] = IF Found(c) THEN okd ELSE bad]
         /\ doubt' = doubt
      \/ /\ call' = [call EXCEPT ![t][s].stage = "failed"] /\ c.kind \in Failing
         /\ doubt' = [doubt EXCEPT ![t] = @ \cup {c.id}]
  BY DEF Serve, Found, OkWith
<1>3. c \in Calls /\ Shape(c)
  BY <1>1 DEF StockTyped, Shaped
<1>4. TypedServer
  BY DEF StockTyped
<1>5. Answered(c, bad) /\ bad.stage = "failed" /\ bad \in Calls
  BY <1>3, FailedAnswer DEF Answered
<1>6. ASSUME Found(c)
      PROVE  /\ Answered(c, okd) /\ okd.stage = "ok" /\ okd \in Calls
             /\ c.kind = "load" => okd.answer = Listed
             /\ c.kind \in {"patch", "put", "add"} => okd.answer[1] = Stored(c)[c.id]
  <2>1. /\ c.kind = "load" => answer = Listed
        /\ c.kind = "delete" => answer = <<>>
        /\ c.kind \in {"patch", "put", "add"} => answer = <<Stored(c)[c.id]>>
    OBVIOUS
  <2> HIDE DEF answer
  <2>2. c.kind \in {"patch", "put", "add"} => Stored(c)[c.id] \in Rows /\ Stored(c)[c.id].id = c.id
    BY <1>3, <1>4, <1>6, StoredEffect
  <2>3. Listed \in Seq(Rows) /\ Once(Listed)
    BY <1>4, ListedRows
  <2>4. c.kind \in {"patch", "put", "add", "delete", "load"}
    BY <1>3 DEF Calls, Kinds
  <2>5. answer \in Seq(Rows)
    <3>1. CASE c.kind = "load"
      BY <2>1, <2>3, <3>1
    <3>2. CASE c.kind = "delete"
      BY <2>1, <3>2
    <3>3. CASE c.kind \in {"patch", "put", "add"}
      <4> DEFINE row == Stored(c)[c.id]
      <4>1. row \in Rows /\ answer = <<row>>
        BY <2>1, <2>2, <3>3
      <4> HIDE DEF row
      <4> QED BY <4>1
    <3> QED BY <2>4, <3>1, <3>2, <3>3
  <2>6. c.kind \in {"patch", "put", "add"} => answer[1] = Stored(c)[c.id] /\ answer = <<answer[1]>>
    BY <2>1
  <2>7. c.kind = "load" => Once(answer)
    BY <2>1, <2>3
  <2>9. RightAnswer(c, answer)
    BY <2>2, <2>5, <2>6, <2>7 DEF RightAnswer
  <2> HIDE DEF c
  <2>8. Answered(c, okd) /\ okd.stage = "ok" /\ okd.answer = answer
    BY <1>3, <2>9, OkAnswer
  <2> QED BY <2>1, <2>6, <2>8 DEF Answered
<1>7. TypedServer'
  BY <1>1, <1>3, <1>4, StoredEffect DEF TypedServer
<1>8. CASE /\ call' = [call EXCEPT ![t][s] = IF Found(c) THEN okd ELSE bad]
           /\ doubt' = doubt
  <2> DEFINE d == IF Found(c) THEN okd ELSE bad
  <2>1. d \in Calls /\ Answered(c, d)
    BY <1>5, <1>6
  <2>2. call' = [call EXCEPT ![t][s] = d]
    BY <1>8
  <2>3. Found(c) => /\ d.stage = "ok"
                    /\ c.kind = "load" => d.answer = Listed
                    /\ c.kind \in {"patch", "put", "add"} => d.answer[1] = Stored(c)[c.id]
    BY <1>6
  <2>4. ~Found(c) => d.stage = "failed"
    BY <1>5
  <2> HIDE DEF c, d
  <2>5. /\ call' \in [Tabs -> [CallSlots -> Calls \cup {NoCall}]]
        /\ call'[t][s] = d
        /\ \A z \in CallSlots \ {s} : call'[t][z] = call[t][z]
        /\ \A u \in Tabs \ {t} : call'[u] = call[u]
    BY <2>1, <2>2, CallChanges
  <2>6. StockTyped'
    BY <1>1, <1>7, <1>8, <2>5 DEF StockTyped
  <2>7. doubt' = doubt
    BY <1>8
  <2>8. CASE Found(c)
    BY <1>1, <1>3, <2>1, <2>3, <2>5, <2>6, <2>7, <2>8 DEF c
  <2>9. CASE ~Found(c)
    BY <1>1, <1>3, <2>1, <2>4, <2>5, <2>6, <2>7, <2>9 DEF c
  <2> QED BY <2>8, <2>9
<1>9. CASE /\ call' = [call EXCEPT ![t][s].stage = "failed"] /\ c.kind \in Failing
           /\ doubt' = [doubt EXCEPT ![t] = @ \cup {c.id}]
  <2>1. call' = [call EXCEPT ![t][s] = bad]
    BY <1>9
  <2> HIDE DEF bad
  <2>2. /\ call' \in [Tabs -> [CallSlots -> Calls \cup {NoCall}]]
        /\ call'[t][s] = bad
        /\ \A z \in CallSlots \ {s} : call'[t][z] = call[t][z]
        /\ \A u \in Tabs \ {t} : call'[u] = call[u]
    BY <1>5, <2>1, CallChanges
  <2>3. c.id \in Products \cup {0}
    BY <1>3 DEF Calls
  <2>4. /\ doubt' \in [Tabs -> SUBSET (Products \cup {0})] /\ doubt'[t] = doubt[t] \cup {c.id}
        /\ \A u \in Tabs \ {t} : doubt'[u] = doubt[u]
    BY <1>9, <2>3 DEF StockTyped
  <2>5. StockTyped'
    BY <1>1, <1>7, <2>2, <2>4 DEF StockTyped
  <2> QED BY <1>1, <1>3, <1>5, <1>9, <2>2, <2>4, <2>5
<1> QED BY <1>2, <1>8, <1>9

\* A call fails before the server sees it.
LEMMA RefuseEffect ==
  ASSUME StockTyped, NEW t \in Tabs, Shaped(t), NEW s \in CallSlots, Refuse(t, s)
  PROVE  /\ StockTyped' /\ Others(t)
         /\ UNCHANGED <<server, list, error, busy, dialog, fresh, doubt>>
         /\ call[t][s] \in Calls /\ call[t][s] # NoCall /\ call[t][s].stage = "sent"
         /\ Answered(call[t][s], call'[t][s]) /\ call'[t][s].stage = "failed"
         /\ call[t][s].kind \in Failing
         /\ \A z \in CallSlots \ {s} : call'[t][z] = call[t][z]
<1> DEFINE c == call[t][s]
           bad == [c EXCEPT !.stage = "failed"]
<1>1. /\ c # NoCall /\ c.stage = "sent" /\ c.kind \in Failing
      /\ UNCHANGED <<server, list, error, busy, dialog, fresh, doubt>>
      /\ call' = [call EXCEPT ![t][s] = bad]
  BY DEF Refuse
<1>2. c \in Calls /\ Shape(c)
  BY <1>1 DEF StockTyped, Shaped
<1>3. Answered(c, bad) /\ bad.stage = "failed" /\ bad \in Calls
  BY <1>2, FailedAnswer DEF Answered
<1> HIDE DEF bad
<1>4. /\ call' \in [Tabs -> [CallSlots -> Calls \cup {NoCall}]]
      /\ call'[t][s] = bad
      /\ \A z \in CallSlots \ {s} : call'[t][z] = call[t][z]
      /\ \A u \in Tabs \ {t} : call'[u] = call[u]
  BY <1>1, <1>3, CallChanges
<1>5. StockTyped' /\ Others(t)
  BY <1>1, <1>4 DEF StockTyped, TypedServer, Others, Untouched
<1> QED BY <1>1, <1>2, <1>3, <1>4, <1>5

-----------------------------------------------------------------------------
(* Answers                                                                 *)

\* A row put at the end of a list that does not show its product.
Appended(rows, row, new) ==
  /\ new \in Seq(Rows) /\ Once(new)
  /\ DOMAIN rows \subseteq DOMAIN new
  /\ \A j \in DOMAIN rows : new[j] = rows[j]
  /\ \A k \in DOMAIN new : k \in DOMAIN rows \/ new[k] = row
  /\ \E k \in DOMAIN new : new[k] = row

LEMMA RowAppended ==
  ASSUME NEW rows \in Seq(Rows), Once(rows), NEW row \in Rows,
         \A i \in DOMAIN rows : rows[i].id # row.id
  PROVE  Appended(rows, row, rows \o <<row>>)
<1> DEFINE new == rows \o <<row>>
           n == Len(rows)
<1>1. n \in Nat /\ DOMAIN rows = 1..n
  OBVIOUS
<1>2. /\ new \in Seq(Rows) /\ DOMAIN new = 1..(n + 1)
      /\ \A k \in 1..(n + 1) : new[k] = IF k <= n THEN rows[k] ELSE row
  OBVIOUS
<1> HIDE DEF new, n
<1>3. Once(new)
  <2> SUFFICES ASSUME NEW i \in 1..(n + 1), NEW j \in 1..(n + 1), new[i].id = new[j].id PROVE i = j
    BY <1>2 DEF Once
  <2>1. CASE i <= n /\ j <= n
    BY <1>1, <1>2, <2>1 DEF Once
  <2>2. CASE i <= n /\ ~(j <= n)
    BY <1>1, <1>2, <2>2
  <2>3. CASE ~(i <= n) /\ j <= n
    BY <1>1, <1>2, <2>3
  <2>4. CASE ~(i <= n) /\ ~(j <= n)
    BY <1>1, <2>4
  <2> QED BY <2>1, <2>2, <2>3, <2>4
<1>4. new[n + 1] = row /\ n + 1 \in DOMAIN new
  BY <1>1, <1>2
<1>5. \A k \in DOMAIN new : k \in DOMAIN rows \/ new[k] = row
  BY <1>1, <1>2
<1>6. DOMAIN rows \subseteq DOMAIN new /\ \A j \in DOMAIN rows : new[j] = rows[j]
  BY <1>1, <1>2
<1> QED BY <1>2, <1>3, <1>4, <1>5, <1>6 DEF new, Appended

\* What the view model makes of an answer: one row replaced, one added, one
\* gone, or the whole list replaced.
AppliedTo(rows, c, new) ==
  /\ new \in Seq(Rows) /\ Once(new)
  /\ c.kind \in {"patch", "put"} =>
       /\ DOMAIN new = DOMAIN rows
       /\ \A j \in DOMAIN rows : new[j] = IF rows[j].id = c.id THEN c.answer[1] ELSE rows[j]
       /\ \A j \in DOMAIN rows : new[j].id = rows[j].id
  /\ c.kind = "add" =>
       /\ DOMAIN rows \subseteq DOMAIN new
       /\ \A j \in DOMAIN rows : new[j] = rows[j]
       /\ \A k \in DOMAIN new : k \in DOMAIN rows \/ new[k] = c.answer[1]
       /\ \E k \in DOMAIN new : new[k] = c.answer[1]
  /\ c.kind = "delete" =>
       /\ \A k \in DOMAIN new : \E i \in DOMAIN rows : rows[i].id # c.id /\ new[k] = rows[i]
       /\ \A i \in DOMAIN rows : rows[i].id # c.id => \E k \in DOMAIN new : new[k] = rows[i]
  /\ c.kind = "load" => new = c.answer

LEMMA AppliedRows ==
  ASSUME NEW rows \in Seq(Rows), Once(rows), NEW c \in Calls, Shape(c), c.stage = "ok",
         c.kind = "add" => \A i \in DOMAIN rows : rows[i].id # c.id
  PROVE  AppliedTo(rows, c, Applied(rows, c))
<1>1. CASE c.kind \in {"patch", "put"}
  <2> DEFINE row == c.answer[1]
  <2>1. row \in Rows /\ row.id = c.id
    BY <1>1 DEF Shape
  <2>2. Applied(rows, c) = WithRow(rows, IndexOf(rows, row.id), row)
    BY <1>1, <2>1, AppliedKinds
  <2> HIDE DEF row
  <2>3. LET new == WithRow(rows, IndexOf(rows, row.id), row) IN
         /\ new \in Seq(Rows) /\ DOMAIN new = DOMAIN rows /\ Once(new)
         /\ \A j \in DOMAIN rows : new[j] = IF rows[j].id = row.id THEN row ELSE rows[j]
         /\ \A j \in DOMAIN rows : new[j].id = rows[j].id
    BY <2>1, RowAnswered
  <2> QED BY <1>1, <2>1, <2>2, <2>3 DEF row, AppliedTo
<1>2. CASE c.kind = "delete"
  <2> DEFINE I == {i \in DOMAIN rows : rows[i].id # c.id}
  <2>1. Applied(rows, c) = Picked(rows, I)
    BY <1>2, AppliedKinds DEF Where
  <2>2. I \subseteq DOMAIN rows
    OBVIOUS
  <2>3. \A i : i \in I <=> i \in DOMAIN rows /\ rows[i].id # c.id
    OBVIOUS
  <2> HIDE DEF I
  <2>4. PicksRows(rows, I)
    BY <2>2, WhereRows
  <2> QED BY <1>2, <2>1, <2>3, <2>4 DEF PicksRows, AppliedTo
<1>3. CASE c.kind = "load"
  <2>1. Applied(rows, c) = c.answer /\ Once(c.answer) /\ c.answer \in Seq(Rows)
    BY <1>3, AppliedKinds DEF Shape, Calls
  <2> QED BY <1>3, <2>1 DEF AppliedTo
<1>4. CASE c.kind = "add"
  <2> DEFINE row == c.answer[1]
  <2>1. row \in Rows /\ row.id = c.id /\ c.answer = <<row>>
    BY <1>4 DEF Shape
  <2>2. Applied(rows, c) = rows \o <<row>>
    BY <1>4, <2>1, AppliedKinds
  <2> HIDE DEF row
  <2>3. Appended(rows, row, rows \o <<row>>)
    BY <1>4, <2>1, RowAppended
  <2> QED BY <1>4, <2>2, <2>3 DEF row, AppliedTo, Appended
<1>5. c.kind \in {"patch", "put", "add", "delete", "load"}
  BY DEF Calls, Kinds
<1> QED BY <1>1, <1>2, <1>3, <1>4, <1>5

\* The view model takes an answer: the list it comes to, and the call is over.
LEMMA SucceedEffect ==
  ASSUME StockTyped, NEW t \in Tabs, Tab(t), NEW s \in CallSlots, Succeed(t, s)
  PROVE  /\ StockTyped' /\ Others(t)
         /\ UNCHANGED <<server, dialog, fresh>>
         /\ call[t][s] \in Calls /\ call[t][s] # NoCall /\ call[t][s].stage = "ok"
         /\ list'[t] = Applied(list[t], call[t][s])
         /\ AppliedTo(list[t], call[t][s], list'[t])
         /\ error'[t] = Painted(error[t])
         /\ Ends(t, s, IF error'[t] = "shown" THEN {} ELSE DOMAIN list'[t])
         /\ busy'[t] = {i \in (busy[t] \ {call[t][s].tile})
                              \cap (IF error'[t] = "shown" THEN {} ELSE DOMAIN list'[t]) :
                          list'[t][i].id = list[t][i].id}
         /\ doubt'[t] = IF call[t][s].kind = "load" THEN Unlisted ELSE doubt[t]
<1> DEFINE c == call[t][s]
           rows == Applied(list[t], c)
           e == Painted(error[t])
           marked == busy[t] \ {c.tile}
<1>1. /\ c # NoCall /\ c.stage = "ok"
      /\ Repaint(t, rows, e, marked, [call[t] EXCEPT ![s] = NoCall])
      /\ doubt' = [doubt EXCEPT ![t] = IF c.kind = "load" THEN Unlisted ELSE @]
      /\ UNCHANGED <<server, dialog, fresh>>
  BY DEF Succeed
<1>2. /\ c \in Calls /\ Shape(c) /\ list[t] \in Seq(Rows) /\ Once(list[t])
      /\ c.kind = "add" => \A i \in DOMAIN list[t] : list[t][i].id # c.id
  BY <1>1 DEF StockTyped, Tab, Shaped, Drawn, Novel, Dated
<1>9. AppliedTo(list[t], c, rows)
  BY <1>1, <1>2, AppliedRows
<1>3. rows \in Seq(Rows)
  BY <1>9 DEF AppliedTo
<1>4. e \in {"none", "shown", "cleared"}
  BY DEF Painted, StockTyped
<1>5. marked \subseteq busy[t]
  OBVIOUS
<1> HIDE DEF rows, e, marked
<1>6. /\ Repainted(t, rows, e, marked, [call[t] EXCEPT ![s] = NoCall])
      /\ list'[t] = rows /\ error'[t] = e
      /\ busy'[t] = {i \in marked \cap (IF e = "shown" THEN {} ELSE DOMAIN rows) :
                       rows[i].id = list[t][i].id}
      /\ Ends(t, s, IF e = "shown" THEN {} ELSE DOMAIN rows)
  BY <1>1, <1>3, <1>4, <1>5, EndEffect
<1>7. /\ doubt' \in [Tabs -> SUBSET (Products \cup {0})]
      /\ doubt'[t] = IF c.kind = "load" THEN Unlisted ELSE doubt[t]
      /\ \A u \in Tabs \ {t} : doubt'[u] = doubt[u]
  BY <1>1, ServerRows DEF StockTyped
<1>8. StockTyped' /\ Others(t)
  BY <1>1, <1>6, <1>7 DEF Repainted, StockTyped, TypedServer, Others, Untouched
<1> QED BY <1>1, <1>2, <1>6, <1>7, <1>8, <1>9 DEF rows, e, marked

\* The catch of quickAdjustStock finds its row where it left it.
LEMMA FailTapEffect ==
  ASSUME Orderly, StockTyped, NEW t \in Tabs, Tab(t), NEW s \in CallSlots, FailTap(t, s)
  PROVE  /\ StockTyped' /\ Others(t)
         /\ UNCHANGED <<server, dialog, fresh, doubt>>
         /\ call[t][s] \in Calls /\ call[t][s] # NoCall
         /\ call[t][s].kind = "patch" /\ call[t][s].stage = "failed"
         /\ error'[t] = "shown" /\ busy'[t] = {} /\ Ends(t, s, {})
         /\ Once(list'[t]) /\ DOMAIN list'[t] = DOMAIN list[t]
         /\ \A j \in DOMAIN list[t] : list'[t][j].id = list[t][j].id
         /\ \A j \in DOMAIN list[t] : list'[t][j] =
              IF list[t][j].id = call[t][s].id THEN call[t][s].before ELSE list[t][j]
<1> DEFINE c == call[t][s]
           rows == WithRow(list[t], c.index, c.before)
           e == IF c.index \in DOMAIN list[t] THEN "shown" ELSE error[t]
           marked == busy[t] \ {c.tile}
<1>1. /\ c # NoCall /\ c.kind = "patch" /\ c.stage = "failed"
      /\ Repaint(t, rows, e, marked, [call[t] EXCEPT ![s] = NoCall])
      /\ UNCHANGED <<server, dialog, fresh, doubt>>
  BY DEF FailTap
<1>2. /\ c \in Calls /\ Shape(c) /\ list[t] \in Seq(Rows) /\ Once(list[t])
      /\ c.index \in DOMAIN list[t] /\ list[t][c.index].id = c.id
  BY <1>1 DEF Orderly, StockTyped, Tab, Shaped, Drawn, Steppers, InPlace
<1>3. c.before \in Rows /\ c.before.id = c.id /\ c.index \in Nat
  BY <1>1, <1>2 DEF Shape, Calls
<1> DEFINE i == c.index
           row == c.before
<1>4. row \in Rows /\ i \in Nat /\ i \in DOMAIN list[t] /\ list[t][i].id = row.id
  BY <1>2, <1>3
<1> HIDE DEF i, row
<1>5. /\ WithRow(list[t], i, row) \in Seq(Rows)
      /\ DOMAIN WithRow(list[t], i, row) = DOMAIN list[t]
      /\ Once(WithRow(list[t], i, row))
      /\ \A j \in DOMAIN list[t] : WithRow(list[t], i, row)[j] = IF j = i THEN row ELSE list[t][j]
      /\ \A j \in DOMAIN list[t] : WithRow(list[t], i, row)[j].id = list[t][j].id
  BY <1>2, <1>4, WithRowOver
<1>6. \A j \in DOMAIN list[t] : list[t][j].id = c.id <=> j = i
  BY <1>2, <1>3, <1>4 DEF row, Once
<1>7. rows = WithRow(list[t], i, row) /\ e = "shown" /\ marked \subseteq busy[t]
  BY <1>2 DEF i, row
<1>8. rows \in Seq(Rows)
  BY <1>5, <1>7
<1> HIDE DEF rows, e, marked
<1>9. /\ Repainted(t, rows, e, marked, [call[t] EXCEPT ![s] = NoCall])
      /\ list'[t] = rows /\ error'[t] = e
      /\ busy'[t] = {k \in marked \cap (IF e = "shown" THEN {} ELSE DOMAIN rows) :
                       rows[k].id = list[t][k].id}
      /\ Ends(t, s, IF e = "shown" THEN {} ELSE DOMAIN rows)
  BY <1>1, <1>7, <1>8, EndEffect
<1>10. StockTyped' /\ Others(t)
  BY <1>1, <1>9 DEF Repainted, StockTyped, TypedServer, Others, Untouched
<1>11. error'[t] = "shown" /\ busy'[t] = {} /\ Ends(t, s, {})
  BY <1>7, <1>9
<1>12. \A j \in DOMAIN list[t] : rows[j] = IF list[t][j].id = c.id THEN c.before ELSE list[t][j]
  BY <1>5, <1>6, <1>7 DEF row
<1> QED BY <1>1, <1>2, <1>5, <1>7, <1>9, <1>10, <1>11, <1>12

\* Another call's failure shows the error and leaves the list.
LEMMA FailOtherEffect ==
  ASSUME StockTyped, NEW t \in Tabs, Tab(t), NEW s \in CallSlots, FailOther(t, s)
  PROVE  /\ StockTyped' /\ Others(t)
         /\ UNCHANGED <<server, dialog, fresh, doubt>>
         /\ call[t][s] \in Calls /\ call[t][s] # NoCall
         /\ call[t][s].kind # "patch" /\ call[t][s].stage = "failed"
         /\ list'[t] = list[t]
         /\ error'[t] = "shown" /\ busy'[t] = {} /\ Ends(t, s, {})
<1> DEFINE c == call[t][s]
<1>1. /\ c # NoCall /\ c.kind # "patch" /\ c.stage = "failed"
      /\ Repaint(t, list[t], "shown", busy[t], [call[t] EXCEPT ![s] = NoCall])
      /\ UNCHANGED <<server, dialog, fresh, doubt>>
  BY DEF FailOther
<1>2. c \in Calls /\ list[t] \in Seq(Rows)
  BY <1>1 DEF StockTyped
<1>3. /\ Repainted(t, list[t], "shown", busy[t], [call[t] EXCEPT ![s] = NoCall])
      /\ list'[t] = list[t] /\ error'[t] = "shown"
      /\ busy'[t] = {}
      /\ Ends(t, s, {})
  BY <1>1, <1>2, EndEffect
<1>4. StockTyped' /\ Others(t)
  BY <1>1, <1>3 DEF Repainted, StockTyped, TypedServer, Others, Untouched
<1> QED BY <1>1, <1>2, <1>3, <1>4

-----------------------------------------------------------------------------
(* What one tab keeps                                                      *)

\* A call in flight after a step that starts none was in flight before.
LEMMA OldCall ==
  ASSUME NEW t, NEW z, NEW kept, Stays(t, z, kept), call'[t][z] # NoCall
  PROVE  call[t][z] # NoCall /\ Ages(call[t][z], call'[t][z], kept)
BY DEF Stays

\* An aged call keeps its shape.
LEMMA AgedShape == ASSUME NEW c, NEW d, NEW kept, Shape(c), Ages(c, d, kept) PROVE Shape(d)
BY DEF Shape, Ages

\* Whether a call must be alone does not change either.
LEMMA AgedAlone == ASSUME NEW c, NEW d, NEW kept, Ages(c, d, kept) PROVE Alone(d) <=> Alone(c)
BY DEF Alone, Ages

\* Starting a call of the right shape keeps the shapes.
LEMMA BeginsShaped ==
  ASSUME NEW t, NEW s, NEW kept, Shaped(t), Begins(t, s, kept), Shape(call'[t][s])
  PROVE  Shaped(t)'
<1>1. ASSUME NEW z \in CallSlots, call'[t][z] # NoCall, z # s PROVE Shape(call'[t][z])
  BY <1>1, OldCall, AgedShape DEF Shaped, Begins
<1> QED BY <1>1 DEF Shaped

\* So does ending one.
LEMMA EndsShaped ==
  ASSUME NEW t, NEW s, NEW kept, Shaped(t), Ends(t, s, kept)
  PROVE  Shaped(t)'
<1>1. ASSUME NEW z \in CallSlots, call'[t][z] # NoCall PROVE Shape(call'[t][z])
  BY <1>1, OldCall, AgedShape DEF Shaped, Ends
<1> QED BY <1>1 DEF Shaped

\* Starting a call while the list keeps its products draws no id, except that of
\* a product being added.
LEMMA BeginsNovel ==
  ASSUME NEW t, NEW s, NEW kept, Novel(t), Begins(t, s, kept), fresh' \subseteq fresh,
         DOMAIN list'[t] = DOMAIN list[t],
         \A j \in DOMAIN list[t] : list'[t][j].id = list[t][j].id,
         dialog'[t] = NoDialog \/ dialog'[t] = dialog[t],
         call'[t][s].kind # "load" => call'[t][s].id \notin fresh',
         call'[t][s].kind = "add" => \A i \in DOMAIN list[t] : list[t][i].id # call'[t][s].id
  PROVE  Novel(t)'
<1>1. call'[t][s].stage = "sent"
  BY DEF Begins
<1>2. ASSUME NEW z \in CallSlots, call'[t][z] # NoCall PROVE Dated(call'[t][z], list'[t], fresh')
  <2>1. CASE z = s
    BY <1>1, <2>1 DEF Dated
  <2>2. CASE z # s
    <3>1. call[t][z] # NoCall /\ Ages(call[t][z], call'[t][z], kept)
      BY <1>2, <2>2, OldCall DEF Begins
    <3>2. Dated(call[t][z], list[t], fresh)
      BY <3>1 DEF Novel
    <3>3. call[t][z].kind = "add" => \A i \in DOMAIN list'[t] : list'[t][i].id # call[t][z].id
      BY <3>2 DEF Dated
    <3> QED BY <3>1, <3>2, <3>3 DEF Dated, Ages
  <2> QED BY <2>1, <2>2
<1>3. \A i \in DOMAIN list'[t] : list'[t][i].id \notin fresh'
  BY DEF Novel
<1>4. dialog'[t] # NoDialog => dialog'[t].id \notin fresh'
  BY DEF Novel
<1> QED BY <1>2, <1>3, <1>4 DEF Novel, Dated

\* Ending a call draws no id while the list gets rows of ids drawn before.
LEMMA EndsNovel ==
  ASSUME NEW t, NEW s, NEW kept, Novel(t), Exclusive(t), Ends(t, s, kept), UNCHANGED <<dialog, fresh>>,
         \A k \in DOMAIN list'[t] :
           \/ \E i \in DOMAIN list[t] : list'[t][k].id = list[t][i].id
           \/ list'[t][k].id = call[t][s].id /\ call[t][s].kind # "load"
           \/ call[t][s].kind = "load" /\ list'[t][k].id \notin fresh
  PROVE  Novel(t)'
<1>1. Dated(call[t][s], list[t], fresh)
  BY DEF Ends, Novel
<1>2. ASSUME NEW z \in CallSlots, call'[t][z] # NoCall PROVE Dated(call'[t][z], list'[t], fresh')
  <2>1. z # s /\ call[t][z] # NoCall /\ Ages(call[t][z], call'[t][z], kept)
    BY <1>2, OldCall DEF Ends
  <2>2. Dated(call[t][z], list[t], fresh)
    BY <2>1 DEF Novel
  <2>3. call[t][s].kind # "load" /\ call[t][s].id # call[t][z].id
    BY <2>1 DEF Exclusive, Ends, Alone
  <2>4. call[t][z].kind = "add" => \A i \in DOMAIN list'[t] : list'[t][i].id # call[t][z].id
    BY <2>2, <2>3 DEF Dated
  <2> QED BY <2>1, <2>2, <2>4 DEF Dated, Ages
<1>3. \A i \in DOMAIN list'[t] : list'[t][i].id \notin fresh'
  BY <1>1 DEF Novel, Dated
<1>4. dialog'[t] # NoDialog => dialog'[t].id \notin fresh'
  BY DEF Novel
<1> QED BY <1>2, <1>3, <1>4 DEF Novel, Dated

\* A call on a product no other call is about keeps the calls apart.
LEMMA BeginsExclusive ==
  ASSUME NEW t, NEW s, NEW kept, Exclusive(t), Begins(t, s, kept),
         \/ \A z \in CallSlots : call[t][z] = NoCall
         \/ /\ ~Alone(call'[t][s])
            /\ \A z \in CallSlots : call[t][z] # NoCall =>
                 ~Alone(call[t][z]) /\ call[t][z].id # call'[t][s].id
  PROVE  Exclusive(t)'
<1>1. ASSUME NEW z \in CallSlots \ {s}, call'[t][z] # NoCall
      PROVE  /\ call[t][z] # NoCall /\ (Alone(call'[t][z]) <=> Alone(call[t][z]))
             /\ call'[t][z].id = call[t][z].id
  <2>1. Stays(t, z, kept)
    BY DEF Begins
  <2>2. call[t][z] # NoCall /\ Ages(call[t][z], call'[t][z], kept)
    BY <1>1, <2>1, OldCall
  <2> QED BY <2>2, AgedAlone DEF Ages
<1>2. ASSUME NEW z \in CallSlots, NEW y \in CallSlots, call'[t][z] # NoCall, call'[t][y] # NoCall, z # y
      PROVE  ~Alone(call'[t][z]) /\ call'[t][z].id # call'[t][y].id
  <2>1. CASE z # s /\ y # s
    BY <1>1, <1>2, <2>1 DEF Exclusive
  <2>2. CASE z = s
    BY <1>1, <1>2, <2>2
  <2>3. CASE y = s
    BY <1>1, <1>2, <2>3
  <2> QED BY <2>1, <2>2, <2>3
<1> QED BY <1>2 DEF Exclusive, Alone

\* So does ending one.
LEMMA EndsExclusive ==
  ASSUME NEW t, NEW s, NEW kept, Exclusive(t), Ends(t, s, kept)
  PROVE  Exclusive(t)'
<1>1. ASSUME NEW z \in CallSlots, call'[t][z] # NoCall
      PROVE  /\ call[t][z] # NoCall /\ (Alone(call'[t][z]) <=> Alone(call[t][z]))
             /\ call'[t][z].id = call[t][z].id
  BY <1>1, OldCall, AgedAlone DEF Ends, Ages
<1> QED BY <1>1 DEF Exclusive, Alone

\* An ending call does not reach the product in the dialog.
LEMMA EndsEdited ==
  ASSUME NEW t, NEW s, NEW kept, Edited(t), Ends(t, s, kept), UNCHANGED dialog
  PROVE  Edited(t)'
<1>1. ASSUME NEW z \in CallSlots, call'[t][z] # NoCall
      PROVE  /\ call[t][z] # NoCall /\ (Alone(call'[t][z]) <=> Alone(call[t][z]))
             /\ call'[t][z].id = call[t][z].id
  BY <1>1, OldCall, AgedAlone DEF Ends, Ages
<1> QED BY <1>1 DEF Edited, Alone

\* The admin who waits for quiet finds no call in flight.
LEMMA NoneInFlight ==
  ASSUME Overlap = "none", NEW t, AllQuiet(t)
  PROVE  \A z \in CallSlots : call[t][z] = NoCall
BY DEF AllQuiet, InFlight

\* The list keeps its shape while a call starts: so do the steppers.
LEMMA BeginsDrawn ==
  ASSUME NEW t, NEW s, Drawn(t), Begins(t, s, DOMAIN list[t]),
         Once(list'[t]), DOMAIN list'[t] = DOMAIN list[t],
         \A i \in busy'[t] : i \in busy[t] \/ (i \in DOMAIN list[t] /\ i = call'[t][s].tile)
  PROVE  Drawn(t)'
<1>1. ASSUME NEW i \in busy'[t]
      PROVE  i \in DOMAIN list'[t] /\ \E z \in CallSlots : call'[t][z] # NoCall /\ call'[t][z].tile = i
  <2>1. CASE i \notin busy[t]
    BY <2>1, NothingAssumption DEF Begins
  <2>2. CASE i \in busy[t]
    <3>1. PICK z \in CallSlots : call[t][z] # NoCall /\ call[t][z].tile = i
      BY <2>2 DEF Drawn
    <3>2. z # s /\ i \in DOMAIN list[t]
      BY <2>2, <3>1 DEF Begins, Drawn
    <3>3. Ages(call[t][z], call'[t][z], DOMAIN list[t])
      BY <3>1, <3>2 DEF Begins, Stays
    <3> QED BY <3>1, <3>2, <3>3, NothingAssumption DEF Ages
  <2> QED BY <2>1, <2>2
<1> QED BY <1>1 DEF Drawn

\* A stepper stays with its tap while a call starts and no error is shown.
LEMMA BeginsSteppers ==
  ASSUME NEW t, NEW s, Steppers(t), Begins(t, s, DOMAIN list[t]),
         DOMAIN list'[t] = DOMAIN list[t],
         \A j \in DOMAIN list[t] : list'[t][j].id = list[t][j].id,
         busy[t] \subseteq busy'[t],
         error[t] = "none" \/ (Overlap = "none" => \A z \in CallSlots : call[t][z] = NoCall),
         call'[t][s].kind = "patch" => InPlace(call'[t][s], list'[t], error'[t], busy'[t])
  PROVE  Steppers(t)'
<1> SUFFICES ASSUME NEW z \in CallSlots, call'[t][z] # NoCall, call'[t][z].kind = "patch"
             PROVE  /\ Overlap = "none" => InPlace(call'[t][z], list'[t], error'[t], busy'[t])
                    /\ Overlap = "rows" => call'[t][z].stage # "failed"
  BY DEF Steppers, InPlace
<1>1. CASE z = s
  BY <1>1 DEF Begins
<1>2. CASE z # s
  <2>1. call[t][z] # NoCall /\ Ages(call[t][z], call'[t][z], DOMAIN list[t])
    BY <1>2, OldCall DEF Begins
  <2>2. /\ Overlap = "none" => InPlace(call[t][z], list[t], error[t], busy[t])
        /\ Overlap = "rows" => call[t][z].stage # "failed"
    BY <2>1 DEF Steppers, Ages
  <2>3. CASE Overlap = "none"
    <3>1. error[t] = "none"
      BY <2>1, <2>3
    <3>2. /\ call[t][z].index \in DOMAIN list[t] /\ call[t][z].index \in busy[t]
          /\ list[t][call[t][z].index].id = call[t][z].id
          /\ call[t][z].tile = call[t][z].index
      BY <2>2, <2>3, <3>1 DEF InPlace
    <3>3. /\ call'[t][z].index = call[t][z].index /\ call'[t][z].id = call[t][z].id
          /\ call'[t][z].tile = call[t][z].tile
      BY <2>1, <3>2 DEF Ages
    <3> QED BY <2>3, <3>2, <3>3 DEF InPlace
  <2>4. CASE Overlap # "none"
    BY <2>1, <2>2, <2>4 DEF Ages
  <2> QED BY <2>3, <2>4
<1> QED BY <1>1, <1>2

\* A product on which the admin waits for no call has none in flight: the
\* stepper, for its taps, is not busy.
LEMMA FreeToTap ==
  ASSUME Orderly, StockTyped, NEW t \in Tabs, Tab(t), NEW i \in DOMAIN list[t],
         error[t] = "none", i \notin busy[t] \/ Quiet(t, list[t][i].id, {"patch", "put"}),
         Quiet(t, list[t][i].id, {"put"})
  PROVE  \A z \in CallSlots : call[t][z] # NoCall =>
           ~Alone(call[t][z]) /\ call[t][z].id # list[t][i].id
<1> SUFFICES ASSUME NEW z \in CallSlots, call[t][z] # NoCall
             PROVE  ~Alone(call[t][z]) /\ call[t][z].id # list[t][i].id
  OBVIOUS
<1>1. Once(list[t]) /\ z \in InFlight(t) /\ ~WaitsFor(call[t][z], list[t][i].id, {"put"})
  BY DEF Tab, Drawn, InFlight, Quiet
<1>2. CASE Overlap = "rows"
  BY <1>1, <1>2 DEF WaitsFor, Alone
<1>3. CASE Overlap = "none"
  <2>1. /\ call[t][z].kind \notin {"load", "delete"}
        /\ call[t][z].kind = "put" => call[t][z].id # list[t][i].id
    BY <1>1, <1>3 DEF WaitsFor
  <2>2. CASE call[t][z].kind = "patch"
    <3>1. CASE i \notin busy[t]
      <4>1. /\ call[t][z].index \in DOMAIN list[t] /\ call[t][z].index \in busy[t]
            /\ list[t][call[t][z].index].id = call[t][z].id
        BY <1>3, <2>2 DEF Tab, Steppers, InPlace
      <4> QED BY <1>1, <1>3, <2>1, <3>1, <4>1 DEF Once, Alone
    <3>2. CASE Quiet(t, list[t][i].id, {"patch", "put"})
      BY <1>1, <1>3, <2>1, <2>2, <3>2 DEF Quiet, WaitsFor, Alone
    <3> QED BY <3>1, <3>2
  <2>3. CASE call[t][z].kind = "add"
    <3>1. Dated(call[t][z], list[t], fresh)
      BY DEF Tab, Novel
    <3> QED BY <1>3, <2>1, <2>3, <3>1 DEF Dated, Alone
  <2>4. call[t][z].kind \in {"patch", "put", "add", "load", "delete"}
    BY DEF StockTyped, Calls, Kinds
  <2> QED BY <1>3, <2>1, <2>2, <2>3, <2>4 DEF Alone
<1> QED BY <1>2, <1>3 DEF Orderly

\* A tap on a stepper that is not busy: no call of its product is in flight.
LEMMA TapTab ==
  ASSUME Orderly, StockTyped, NEW t \in Tabs, Tab(t),
         NEW i \in DOMAIN list[t], NEW up \in BOOLEAN, Tap(t, i, up)
  PROVE  Tab(t)'
<1>1. /\ UNCHANGED <<server, dialog, fresh, doubt>>
      /\ error[t] = "none" /\ dialog[t] = NoDialog /\ i \notin busy[t]
      /\ Quiet(t, list[t][i].id, {"put"})
      /\ error'[t] = "none" /\ busy'[t] = busy[t] \cup {i}
      /\ \E s \in CallSlots :
           /\ Begins(t, s, DOMAIN list[t])
           /\ call'[t][s].kind = "patch"
           /\ call'[t][s].id = list[t][i].id
           /\ call'[t][s].row \in Rows /\ call'[t][s].row.id = list[t][i].id
           /\ call'[t][s].before = list[t][i]
           /\ call'[t][s].index = i /\ call'[t][s].tile = i
           /\ list'[t] = [list[t] EXCEPT ![i] = call'[t][s].row]
  BY TapEffect
<1>2. PICK s \in CallSlots :
           /\ Begins(t, s, DOMAIN list[t])
           /\ call'[t][s].kind = "patch"
           /\ call'[t][s].id = list[t][i].id
           /\ call'[t][s].row \in Rows /\ call'[t][s].row.id = list[t][i].id
           /\ call'[t][s].before = list[t][i]
           /\ call'[t][s].index = i /\ call'[t][s].tile = i
           /\ list'[t] = [list[t] EXCEPT ![i] = call'[t][s].row]
  BY <1>1
<1>3. list[t] \in Seq(Rows) /\ Once(list[t]) /\ list[t][i] \in Rows /\ list[t][i].id \in Products
  BY RowIds DEF StockTyped, Tab, Drawn
<1>4. DOMAIN list'[t] = DOMAIN list[t] /\ \A j \in DOMAIN list[t] : list'[t][j].id = list[t][j].id
  BY <1>2, <1>3
<1>5. Once(list'[t])
  BY <1>3, <1>4 DEF Once
<1>6. Drawn(t)'
  BY <1>1, <1>2, <1>4, <1>5, BeginsDrawn DEF Tab
<1>7. Shaped(t)'
  <2>1. call'[t][s].stage = "sent"
    BY <1>2 DEF Begins
  <2>2. Shape(call'[t][s])
    BY <1>2, <1>3, <2>1 DEF Shape
  <2> QED BY <1>2, <2>2, BeginsShaped DEF Tab
<1>8. \A z \in CallSlots : call[t][z] # NoCall => ~Alone(call[t][z]) /\ call[t][z].id # list[t][i].id
  BY <1>1, FreeToTap
<1>9. Exclusive(t)'
  <2>1. ~Alone(call'[t][s])
    BY <1>2 DEF Alone
  <2> QED BY <1>2, <1>8, <2>1, BeginsExclusive DEF Tab
<1>10. Steppers(t)'
  <2>1. InPlace(call'[t][s], list'[t], error'[t], busy'[t])
    BY <1>1, <1>2, <1>4 DEF InPlace
  <2> QED BY <1>1, <1>2, <1>4, <2>1, BeginsSteppers DEF Tab
<1>11. Novel(t)'
  <2>1. call'[t][s].id \notin fresh' /\ fresh' \subseteq fresh
    BY <1>1, <1>2 DEF Tab, Novel
  <2> QED BY <1>1, <1>2, <1>4, <2>1, BeginsNovel DEF Tab
<1>12. Edited(t)' /\ Cleared(t)'
  BY <1>1 DEF Edited, Cleared
<1> QED BY <1>6, <1>7, <1>9, <1>10, <1>11, <1>12 DEF Tab

\* A save: no call of the dialog's product is in flight, and it brings steppers
\* back over an error only when no call is.
LEMMA SaveTab ==
  ASSUME Orderly, StockTyped, NEW t \in Tabs, Tab(t), SaveEdit(t)
  PROVE  Tab(t)'
<1>1. /\ dialog[t] # NoDialog /\ dialog'[t] = NoDialog /\ UNCHANGED <<server, fresh, doubt>>
      /\ (error[t] = "none" \/ AllQuiet(t))
      /\ list'[t] = list[t] /\ error'[t] = "none" /\ busy'[t] = busy[t]
      /\ \E s \in CallSlots :
           /\ Begins(t, s, DOMAIN list[t])
           /\ call'[t][s].kind = "put"
           /\ call'[t][s].id = dialog[t].id
           /\ call'[t][s].row \in Rows /\ call'[t][s].row.id = dialog[t].id
           /\ call'[t][s].tile = 0
  BY SaveEffect
<1>2. PICK s \in CallSlots :
           /\ Begins(t, s, DOMAIN list[t])
           /\ call'[t][s].kind = "put"
           /\ call'[t][s].id = dialog[t].id
           /\ call'[t][s].row \in Rows /\ call'[t][s].row.id = dialog[t].id
           /\ call'[t][s].tile = 0
  BY <1>1
<1>3. dialog[t] \in Rows /\ dialog[t].id \in Products
  BY <1>1, RowIds DEF StockTyped
<1>4. Drawn(t)'
  BY <1>1, <1>2, BeginsDrawn DEF Tab, Drawn
<1>5. Shaped(t)'
  <2>1. Shape(call'[t][s])
    BY <1>2, <1>3 DEF Shape, Begins
  <2> QED BY <1>2, <2>1, BeginsShaped DEF Tab
<1>6. Exclusive(t)'
  <2>1. ~Alone(call'[t][s])
    BY <1>2 DEF Alone
  <2> QED BY <1>1, <1>2, <2>1, BeginsExclusive DEF Tab, Edited
<1>7. Steppers(t)'
  <2>1. error[t] = "none" \/ (Overlap = "none" => \A z \in CallSlots : call[t][z] = NoCall)
    BY <1>1, NoneInFlight
  <2> QED BY <1>1, <1>2, <2>1, BeginsSteppers DEF Tab
<1>8. Novel(t)'
  <2>1. call'[t][s].id \notin fresh' /\ fresh' \subseteq fresh
    BY <1>1, <1>2 DEF Tab, Novel
  <2> QED BY <1>1, <1>2, <2>1, BeginsNovel DEF Tab
<1>9. Edited(t)' /\ Cleared(t)'
  BY <1>1 DEF Edited, Cleared
<1> QED BY <1>4, <1>5, <1>6, <1>7, <1>8, <1>9 DEF Tab

\* An addition: no call can be about a product that had no id.
LEMMA AddTab ==
  ASSUME Orderly, StockTyped, NEW t \in Tabs, Tab(t), NEW p \in Products,
         NEW stock \in InitialStocks \ {Unknown}, Add(t, p, stock)
  PROVE  Tab(t)'
<1>1. /\ fresh' = fresh \ {p} /\ p \in fresh /\ UNCHANGED <<server, dialog, doubt>>
      /\ dialog[t] = NoDialog /\ Quiet(t, p, {})
      /\ (error[t] = "none" \/ AllQuiet(t))
      /\ list'[t] = list[t] /\ error'[t] = "none" /\ busy'[t] = busy[t]
      /\ \E s \in CallSlots :
           /\ Begins(t, s, DOMAIN list[t])
           /\ call'[t][s].kind = "add"
           /\ call'[t][s].id = p
           /\ call'[t][s].row \in Rows /\ call'[t][s].row.id = p
           /\ call'[t][s].tile = 0
  BY AddEffect
<1>2. PICK s \in CallSlots :
           /\ Begins(t, s, DOMAIN list[t])
           /\ call'[t][s].kind = "add"
           /\ call'[t][s].id = p
           /\ call'[t][s].row \in Rows /\ call'[t][s].row.id = p
           /\ call'[t][s].tile = 0
  BY <1>1
<1>3. \A z \in CallSlots : call[t][z] # NoCall => ~Alone(call[t][z]) /\ call[t][z].id # p
  <2> SUFFICES ASSUME NEW z \in CallSlots, call[t][z] # NoCall
               PROVE  ~Alone(call[t][z]) /\ call[t][z].id # p
    OBVIOUS
  <2>1. ~WaitsFor(call[t][z], p, {})
    BY <1>1 DEF Quiet, InFlight
  <2>2. ~Alone(call[t][z])
    BY <2>1 DEF WaitsFor, Alone, Orderly
  <2>3. Dated(call[t][z], list[t], fresh)
    BY DEF Tab, Novel
  <2> QED BY <1>1, <2>2, <2>3 DEF Dated, Alone
<1>4. Drawn(t)'
  BY <1>1, <1>2, BeginsDrawn DEF Tab, Drawn
<1>5. Shaped(t)'
  <2>1. Shape(call'[t][s])
    BY <1>2 DEF Shape, Begins
  <2> QED BY <1>2, <2>1, BeginsShaped DEF Tab
<1>6. Exclusive(t)'
  <2>1. ~Alone(call'[t][s])
    BY <1>2 DEF Alone
  <2> QED BY <1>2, <1>3, <2>1, BeginsExclusive DEF Tab
<1>7. Steppers(t)'
  <2>1. error[t] = "none" \/ (Overlap = "none" => \A z \in CallSlots : call[t][z] = NoCall)
    BY <1>1, NoneInFlight
  <2> QED BY <1>1, <1>2, <2>1, BeginsSteppers DEF Tab
<1>8. Novel(t)'
  <2>1. \A i \in DOMAIN list[t] : list[t][i].id # p
    BY <1>1 DEF Tab, Novel
  <2> QED BY <1>1, <1>2, <2>1, BeginsNovel DEF Tab
<1>9. Edited(t)' /\ Cleared(t)'
  BY <1>1 DEF Edited, Cleared
<1> QED BY <1>4, <1>5, <1>6, <1>7, <1>8, <1>9 DEF Tab

\* A delete: alone where the admin waits for all, else the only call on its row.
LEMMA DeleteTab ==
  ASSUME Orderly, StockTyped, NEW t \in Tabs, Tab(t), NEW i \in DOMAIN list[t], Delete(t, i)
  PROVE  Tab(t)'
<1>1. /\ UNCHANGED <<server, dialog, fresh, doubt>>
      /\ dialog[t] = NoDialog /\ error[t] = "none" /\ AllQuiet(t) /\ Quiet(t, list[t][i].id, {})
      /\ list'[t] = list[t] /\ error'[t] = "none" /\ busy'[t] = busy[t]
      /\ \E s \in CallSlots :
           /\ Begins(t, s, DOMAIN list[t])
           /\ call'[t][s].kind = "delete"
           /\ call'[t][s].id = list[t][i].id
           /\ call'[t][s].tile = 0
  BY DeleteEffect
<1>2. PICK s \in CallSlots :
           /\ Begins(t, s, DOMAIN list[t])
           /\ call'[t][s].kind = "delete"
           /\ call'[t][s].id = list[t][i].id
           /\ call'[t][s].tile = 0
  BY <1>1
<1>3. list[t][i].id \in Products /\ list[t][i].id \notin fresh
  BY RowIds DEF StockTyped, Tab, Novel
<1>4. Shaped(t)'
  <2>1. Shape(call'[t][s])
    BY <1>2, <1>3 DEF Shape
  <2> QED BY <1>2, <2>1, BeginsShaped DEF Tab
<1>5. Drawn(t)'
  BY <1>1, <1>2, BeginsDrawn DEF Tab, Drawn
<1>6. Exclusive(t)'
  <2>1. CASE Overlap = "none"
    BY <1>1, <1>2, <2>1, NoneInFlight, BeginsExclusive DEF Tab
  <2>2. CASE Overlap = "rows"
    <3>1. \A z \in CallSlots : call[t][z] # NoCall => ~WaitsFor(call[t][z], list[t][i].id, {})
      BY <1>1 DEF Quiet, InFlight
    <3>2. \A z \in CallSlots : call[t][z] # NoCall =>
            ~Alone(call[t][z]) /\ call[t][z].id # list[t][i].id
      BY <2>2, <3>1 DEF WaitsFor, Alone
    <3>3. ~Alone(call'[t][s])
      BY <1>2, <2>2 DEF Alone
    <3> QED BY <1>2, <3>2, <3>3, BeginsExclusive DEF Tab
  <2> QED BY <2>1, <2>2 DEF Orderly
<1>7. Steppers(t)'
  BY <1>1, <1>2, BeginsSteppers DEF Tab
<1>8. Novel(t)'
  BY <1>1, <1>2, <1>3, BeginsNovel DEF Tab
<1>9. Edited(t)' /\ Cleared(t)'
  BY <1>1 DEF Edited, Cleared
<1> QED BY <1>4, <1>5, <1>6, <1>7, <1>8, <1>9 DEF Tab

\* The reload is alone; the error behind it is cleared with no other call.
LEMMA ReloadTab ==
  ASSUME Orderly, StockTyped, NEW t \in Tabs, Tab(t), Reload(t)
  PROVE  Tab(t)'
<1>1. /\ UNCHANGED <<server, list, dialog, fresh, doubt>>
      /\ dialog[t] = NoDialog /\ (Overlap = "any" \/ InFlight(t) = {})
      /\ busy'[t] = {}
      /\ \E s \in CallSlots :
           Begins(t, s, {}) /\ call'[t][s].kind = "load" /\ call'[t][s].tile = 0
  BY ReloadEffect
<1>2. PICK s \in CallSlots : Begins(t, s, {}) /\ call'[t][s].kind = "load" /\ call'[t][s].tile = 0
  BY <1>1
<1>3. Shape(call'[t][s])
  BY <1>2 DEF Shape, Begins
<1>4. \A z \in CallSlots : call[t][z] = NoCall
  BY <1>1 DEF InFlight, Orderly
<1>5. \A z \in CallSlots \ {s} : call'[t][z] = NoCall
  BY <1>2, <1>4 DEF Begins, Stays
<1>6. Shaped(t)' /\ Exclusive(t)' /\ Steppers(t)'
  BY <1>2, <1>3, <1>5 DEF Shaped, Exclusive, Steppers
<1>7. Drawn(t)'
  BY <1>1 DEF Tab, Drawn
<1>8. Novel(t)'
  BY <1>1, <1>2, BeginsNovel DEF Tab
<1>9. Edited(t)' /\ Cleared(t)'
  BY <1>1, <1>2, <1>5 DEF Edited, Cleared
<1> QED BY <1>6, <1>7, <1>8, <1>9 DEF Tab

\* A tile scrolled away takes the mark of no tap that relies on its position.
LEMMA ScrollTab ==
  ASSUME Orderly, StockTyped, NEW t \in Tabs, Tab(t), NEW i, Scroll(t, i)
  PROVE  Tab(t)'
<1>1. /\ UNCHANGED <<server, list, error, dialog, fresh, doubt>>
      /\ error[t] = "none" /\ AllQuiet(t)
      /\ busy'[t] = busy[t] \ {i}
      /\ \A s \in CallSlots : Stays(t, s, Nat \ {i})
  BY ScrollEffect
<1>2. ASSUME NEW z \in CallSlots, call'[t][z] # NoCall
      PROVE  call[t][z] # NoCall /\ Ages(call[t][z], call'[t][z], Nat \ {i})
  BY <1>1, <1>2, OldCall
<1>3. Drawn(t)'
  <2>1. ASSUME NEW j \in busy'[t] PROVE \E z \in CallSlots : call'[t][z] # NoCall /\ call'[t][z].tile = j
    <3>1. PICK z \in CallSlots : call[t][z] # NoCall /\ call[t][z].tile = j
      BY <1>1, <2>1 DEF Tab, Drawn
    <3>2. j \in Nat \ {i}
      BY <1>1, <2>1 DEF StockTyped
    <3> QED BY <1>1, <3>1, <3>2, NothingAssumption DEF Stays, Ages
  <2> QED BY <1>1, <2>1 DEF Tab, Drawn
<1>4. Shaped(t)'
  BY <1>2, AgedShape DEF Tab, Shaped
<1>5. Exclusive(t)' /\ Edited(t)'
  <2>1. \A z \in CallSlots : call'[t][z] # NoCall =>
          /\ call[t][z] # NoCall /\ (Alone(call'[t][z]) <=> Alone(call[t][z]))
          /\ call'[t][z].id = call[t][z].id
    BY <1>2, AgedAlone DEF Ages
  <2> QED BY <1>1, <2>1 DEF Tab, Exclusive, Edited, Alone
<1>6. Steppers(t)'
  <2>1. Overlap = "none" => \A z \in CallSlots : call'[t][z] = NoCall
    BY <1>1, NoneInFlight DEF Stays
  <2> QED BY <1>2, <2>1 DEF Tab, Steppers, Ages
<1>7. Novel(t)'
  <2>1. ASSUME NEW z \in CallSlots, call'[t][z] # NoCall PROVE Dated(call'[t][z], list'[t], fresh')
    BY <1>1, <1>2, <2>1 DEF Tab, Novel, Dated, Ages
  <2> QED BY <1>1, <2>1 DEF Tab, Novel, Dated
<1>8. Cleared(t)'
  BY <1>1 DEF Cleared
<1> QED BY <1>3, <1>4, <1>5, <1>6, <1>7, <1>8 DEF Tab

\* The dialog opens on a product no call is about.
LEMMA OpenTab ==
  ASSUME Orderly, StockTyped, NEW t \in Tabs, Tab(t), NEW i \in DOMAIN list[t], OpenEdit(t, i)
  PROVE  Tab(t)'
<1>1. /\ UNCHANGED <<server, list, error, busy, call, fresh, doubt>>
      /\ error[t] = "none" /\ Quiet(t, list[t][i].id, {"patch", "put"})
      /\ dialog'[t] \in Rows /\ dialog'[t].id = list[t][i].id
  BY OpenEffect
<1>2. Quiet(t, list[t][i].id, {"put"})
  BY <1>1 DEF Quiet, WaitsFor
<1>3. \A z \in CallSlots : call[t][z] # NoCall => ~Alone(call[t][z]) /\ call[t][z].id # list[t][i].id
  BY <1>1, <1>2, FreeToTap
<1>4. Edited(t)'
  BY <1>1, <1>3 DEF Edited, Alone
<1>5. Cleared(t)'
  BY <1>1 DEF Cleared
<1>6. Novel(t)'
  BY <1>1 DEF Tab, Novel, Dated
<1>7. Drawn(t)' /\ Shaped(t)' /\ Exclusive(t)' /\ Steppers(t)'
  BY <1>1 DEF Tab, Drawn, Shaped, Exclusive, Steppers, InPlace
<1> QED BY <1>4, <1>5, <1>6, <1>7 DEF Tab

\* Closing the dialog frees its product.
LEMMA CancelTab ==
  ASSUME StockTyped, NEW t \in Tabs, Tab(t), CancelEdit(t)
  PROVE  Tab(t)'
<1>1. /\ UNCHANGED <<server, list, error, busy, call, fresh, doubt>>
      /\ dialog'[t] = NoDialog
  BY CancelEffect
<1>2. Novel(t)'
  BY <1>1 DEF Tab, Novel, Dated
<1>3. Edited(t)' /\ Cleared(t)'
  BY <1>1 DEF Tab, Edited, Cleared
<1>4. Drawn(t)' /\ Shaped(t)' /\ Exclusive(t)' /\ Steppers(t)'
  BY <1>1 DEF Tab, Drawn, Shaped, Exclusive, Steppers, InPlace
<1> QED BY <1>2, <1>3, <1>4 DEF Tab

\* An answer, right or wrong, changes nothing a tab relies on.
LEMMA AnsweredTab ==
  ASSUME NEW t, Tab(t), NEW s \in CallSlots, call[t][s] # NoCall,
         Answered(call[t][s], call'[t][s]),
         \A z \in CallSlots \ {s} : call'[t][z] = call[t][z],
         UNCHANGED <<list, error, busy, dialog, fresh>>,
         call'[t][s].kind = "load" /\ call'[t][s].stage = "ok" =>
           \A k \in DOMAIN call'[t][s].answer : call'[t][s].answer[k].id \notin fresh,
         call'[t][s].kind = "patch" /\ Overlap = "rows" => call'[t][s].stage # "failed"
  PROVE  Tab(t)'
<1>1. call'[t][s] # NoCall
  BY NothingAssumption DEF Answered
<1>2. ASSUME NEW z \in CallSlots
      PROVE  /\ call'[t][z] # NoCall <=> call[t][z] # NoCall
             /\ call[t][z] # NoCall =>
                  /\ call'[t][z].kind = call[t][z].kind /\ call'[t][z].id = call[t][z].id
                  /\ call'[t][z].index = call[t][z].index /\ call'[t][z].tile = call[t][z].tile
  BY <1>1 DEF Answered
<1>3. Shaped(t)'
  <2>1. Shape(call'[t][s])
    BY DEF Answered
  <2> QED BY <2>1 DEF Shaped, Tab
<1>4. Drawn(t)'
  BY <1>2 DEF Drawn, Tab
<1>5. Exclusive(t)' /\ Edited(t)' /\ Cleared(t)'
  BY <1>2 DEF Exclusive, Edited, Cleared, Tab, Alone
<1>6. Steppers(t)'
  BY <1>2 DEF Steppers, InPlace, Tab
<1>7. Novel(t)'
  <2>1. ASSUME NEW z \in CallSlots, call'[t][z] # NoCall PROVE Dated(call'[t][z], list'[t], fresh')
    <3>1. Dated(call[t][z], list[t], fresh)
      BY <1>2, <2>1 DEF Tab, Novel
    <3> QED BY <1>2, <2>1, <3>1 DEF Dated
  <2> QED BY <2>1 DEF Tab, Novel, Dated
<1> QED BY <1>3, <1>4, <1>5, <1>6, <1>7 DEF Tab

\* A busy stepper that stays has its call still in flight.
LEMMA EndsDrawn ==
  ASSUME NEW t, NEW s, NEW kept, Drawn(t), Ends(t, s, kept), Once(list'[t]),
         kept \subseteq DOMAIN list'[t],
         busy'[t] \subseteq busy[t] \cap kept, call[t][s].tile \notin busy'[t]
  PROVE  Drawn(t)'
<1>1. ASSUME NEW i \in busy'[t]
      PROVE  \E z \in CallSlots : call'[t][z] # NoCall /\ call'[t][z].tile = i
  <2>1. PICK z \in CallSlots : call[t][z] # NoCall /\ call[t][z].tile = i
    BY <1>1 DEF Drawn
  <2>2. z # s /\ i \in kept
    BY <1>1, <2>1
  <2>3. Ages(call[t][z], call'[t][z], kept)
    BY <2>1, <2>2 DEF Ends, Stays
  <2> QED BY <2>1, <2>2, <2>3, NothingAssumption DEF Ages
<1> QED BY <1>1 DEF Drawn

\* An answer frees its own stepper; another tap's row stays where it was.
LEMMA SucceedTab ==
  ASSUME StockTyped, NEW t \in Tabs, Tab(t), NEW s \in CallSlots, Succeed(t, s)
  PROVE  Tab(t)'
<1> DEFINE c == call[t][s]
           kept == IF error'[t] = "shown" THEN {} ELSE DOMAIN list'[t]
<1>1. /\ UNCHANGED <<server, dialog, fresh>>
      /\ c \in Calls /\ c # NoCall /\ c.stage = "ok"
      /\ AppliedTo(list[t], c, list'[t])
      /\ error'[t] = Painted(error[t])
      /\ Ends(t, s, kept)
      /\ busy'[t] = {i \in (busy[t] \ {c.tile}) \cap kept : list'[t][i].id = list[t][i].id}
  BY SucceedEffect
<1>2. list[t] \in Seq(Rows) /\ Once(list[t]) /\ Shape(c)
  BY <1>1 DEF StockTyped, Tab, Drawn, Shaped
<1>3. Once(list'[t])
  BY <1>1 DEF AppliedTo
<1>4. kept \subseteq DOMAIN list'[t]
  OBVIOUS
<1>5. busy'[t] \subseteq busy[t] \cap kept /\ c.tile \notin busy'[t]
  BY <1>1
<1>6. \A i \in busy[t] \cap kept : i # c.tile /\ list'[t][i].id = list[t][i].id => i \in busy'[t]
  BY <1>1
<1> HIDE DEF kept
<1>7. Drawn(t)'
  BY <1>1, <1>3, <1>4, <1>5, EndsDrawn DEF Tab
<1>8. Shaped(t)' /\ Exclusive(t)' /\ Edited(t)'
  BY <1>1, EndsShaped, EndsExclusive, EndsEdited DEF Tab
<1>9. Cleared(t)'
  BY <1>1 DEF Cleared, Painted
<1>10. Steppers(t)'
  <2> SUFFICES ASSUME NEW z \in CallSlots, call'[t][z] # NoCall, call'[t][z].kind = "patch"
               PROVE  /\ Overlap = "none" => InPlace(call'[t][z], list'[t], error'[t], busy'[t])
                      /\ Overlap = "rows" => call'[t][z].stage # "failed"
    BY DEF Steppers, InPlace
  <2>1. z # s /\ call[t][z] # NoCall /\ Ages(call[t][z], call'[t][z], kept)
    BY <1>1, OldCall DEF Ends
  <2>2. /\ Overlap = "none" => InPlace(call[t][z], list[t], error[t], busy[t])
        /\ Overlap = "rows" => call'[t][z].stage # "failed"
    BY <2>1 DEF Tab, Steppers, Ages
  <2>3. ~Alone(c) /\ c.id # call[t][z].id
    BY <1>1, <2>1 DEF Tab, Exclusive
  <2> SUFFICES ASSUME Overlap = "none" PROVE InPlace(call'[t][z], list'[t], error'[t], busy'[t])
    BY <2>2
  <2>4. c.kind \in {"patch", "put", "add"}
    BY <1>1, <2>3 DEF Calls, Kinds, Alone
  <2>5. /\ DOMAIN list[t] \subseteq DOMAIN list'[t]
        /\ \A j \in DOMAIN list[t] : list'[t][j].id = list[t][j].id
    BY <1>1, <2>4 DEF AppliedTo
  <2>6. CASE error'[t] = "none"
    <3>1. error[t] = "none" \/ error[t] = "cleared"
      BY <1>1, <2>6 DEF Painted, StockTyped
    <3>2. error[t] = "none"
      BY <1>1, <2>3, <3>1 DEF Tab, Cleared, Alone
    <3>3. call[t][z].index # c.tile
      <4>1. CASE c.kind = "patch"
        <5>1. c.index \in DOMAIN list[t] /\ list[t][c.index].id = c.id /\ c.tile = c.index
          BY <1>1, <3>2, <4>1 DEF Tab, Steppers, InPlace
        <5> QED BY <2>2, <2>3, <5>1 DEF InPlace
      <4>2. CASE c.kind \in {"put", "add"}
        <5>1. c.tile = 0
          BY <1>2, <4>2 DEF Shape
        <5>2. 0 \notin DOMAIN list[t]
          BY <1>2
        <5> QED BY <2>2, <5>1, <5>2 DEF InPlace
      <4> QED BY <2>4, <4>1, <4>2
    <3>4. DOMAIN list[t] \subseteq kept
      BY <2>5, <2>6 DEF kept
    <3>5. call[t][z].index \in busy'[t]
      BY <1>6, <2>2, <2>5, <3>2, <3>3, <3>4 DEF InPlace
    <3> QED BY <2>1, <2>2, <2>5, <3>2, <3>4, <3>5 DEF Ages, InPlace
  <2>7. CASE error'[t] # "none"
    BY <2>1, <2>2, <2>5, <2>7 DEF Ages, InPlace
  <2> QED BY <2>6, <2>7
<1>11. Novel(t)'
  <2>1. Dated(c, list[t], fresh)
    BY <1>1 DEF Tab, Novel
  <2>2. c.kind \in {"patch", "put", "add", "delete", "load"}
    BY <1>1 DEF Calls, Kinds
  <2>3. c.kind = "add" => c.answer[1].id = c.id
    BY <1>1, <1>2 DEF Shape
  <2>4. ASSUME NEW k \in DOMAIN list'[t]
        PROVE  \/ \E i \in DOMAIN list[t] : list'[t][k].id = list[t][i].id
               \/ list'[t][k].id = c.id /\ c.kind # "load"
               \/ c.kind = "load" /\ list'[t][k].id \notin fresh
    <3>1. CASE c.kind \in {"patch", "put"}
      BY <1>1, <3>1 DEF AppliedTo
    <3>2. CASE c.kind = "add"
      BY <1>1, <2>3, <3>2 DEF AppliedTo
    <3>3. CASE c.kind = "delete"
      BY <1>1, <3>3 DEF AppliedTo
    <3>4. CASE c.kind = "load"
      BY <1>1, <2>1, <3>4 DEF AppliedTo, Dated
    <3> QED BY <2>2, <3>1, <3>2, <3>3, <3>4
  <2>5. UNCHANGED <<dialog, fresh>> /\ Ends(t, s, kept)
    BY <1>1
  <2> QED BY <2>4, <2>5, EndsNovel DEF Tab
<1> QED BY <1>7, <1>8, <1>9, <1>10, <1>11 DEF Tab

\* The error view shows no stepper.
LEMMA FailedTab ==
  ASSUME NEW t, NEW s, Tab(t), Ends(t, s, {}), UNCHANGED <<dialog, fresh>>,
         error'[t] = "shown", busy'[t] = {},
         Once(list'[t]), DOMAIN list'[t] = DOMAIN list[t],
         \A j \in DOMAIN list[t] : list'[t][j].id = list[t][j].id
  PROVE  Tab(t)'
<1>1. Drawn(t)'
  BY DEF Drawn
<1>2. Shaped(t)' /\ Exclusive(t)' /\ Edited(t)'
  BY EndsShaped, EndsExclusive, EndsEdited DEF Tab
<1>3. Cleared(t)'
  BY DEF Cleared
<1>4. Steppers(t)'
  <2> SUFFICES ASSUME NEW z \in CallSlots, call'[t][z] # NoCall, call'[t][z].kind = "patch"
               PROVE  /\ Overlap = "none" => InPlace(call'[t][z], list'[t], error'[t], busy'[t])
                      /\ Overlap = "rows" => call'[t][z].stage # "failed"
    BY DEF Steppers, InPlace
  <2>1. call[t][z] # NoCall /\ Ages(call[t][z], call'[t][z], {})
    BY OldCall DEF Ends
  <2> QED BY <2>1 DEF Tab, Steppers, InPlace, Ages
<1>5. Novel(t)'
  BY EndsNovel DEF Tab
<1> QED BY <1>1, <1>2, <1>3, <1>4, <1>5 DEF Tab

-----------------------------------------------------------------------------
(* What the tab takes to be on the server                                  *)

\* A delete of the product went through, its row not removed yet.
Gone(calls, p) ==
  \E s \in CallSlots : /\ calls[s] # NoCall /\ calls[s].kind = "delete"
                       /\ calls[s].stage = "ok" /\ calls[s].id = p

\* The products a call needs, or brings, are on the server.
Known(c, srv) ==
  /\ c.kind \in {"patch", "put"} => c.id \in DOMAIN srv
  /\ c.kind = "add" /\ c.stage = "ok" => c.id \in DOMAIN srv
  /\ c.kind = "load" /\ c.stage = "ok" => \A k \in DOMAIN c.answer : c.answer[k].id \in DOMAIN srv

\* Where the admin waits for no other row's call, what she may act on is there.
Present(t) ==
  Overlap = "rows" =>
    /\ \A i \in DOMAIN list[t] :
         list[t][i].id \in DOMAIN server \/ Gone(call[t], list[t][i].id)
    /\ dialog[t] # NoDialog => dialog[t].id \in DOMAIN server
    /\ \A s \in CallSlots : call[t][s] # NoCall => Known(call[t][s], server)

\* No id still to be drawn is on the server.
FreshUnused == fresh \subseteq Products /\ \A p \in fresh : p \notin DOMAIN server

\* A row no call is about is one of a product on the server.
LEMMA FreeIsPresent ==
  ASSUME NEW t, Present(t), Overlap = "rows", NEW i \in DOMAIN list[t],
         \A z \in CallSlots : call[t][z] # NoCall => call[t][z].id # list[t][i].id
  PROVE  list[t][i].id \in DOMAIN server
BY DEF Present, Gone

\* A delete answered stays so.
LEMMA AgedGone ==
  ASSUME NEW t, NEW kept, NEW p, NEW z \in CallSlots,
         call[t][z] # NoCall, call[t][z].kind = "delete", call[t][z].stage = "ok",
         call[t][z].id = p, Stays(t, z, kept)
  PROVE  Gone(call'[t], p)
<1>1. Ages(call[t][z], call'[t][z], kept)
  BY DEF Stays
<1>2. call'[t][z] # NoCall
  BY <1>1, NothingAssumption DEF Ages
<1> QED BY <1>1, <1>2 DEF Ages, Gone

\* A call about a product that is there may start.
LEMMA BeginsPresent ==
  ASSUME NEW t, NEW s, NEW kept, Present(t), Begins(t, s, kept), server' = server,
         DOMAIN list'[t] = DOMAIN list[t],
         \A j \in DOMAIN list[t] : list'[t][j].id = list[t][j].id,
         dialog'[t] = NoDialog \/ dialog'[t] = dialog[t],
         Overlap = "rows" /\ call'[t][s].kind \in {"patch", "put"} => call'[t][s].id \in DOMAIN server
  PROVE  Present(t)'
<1> SUFFICES ASSUME Overlap = "rows" PROVE Present(t)'
  BY DEF Present
<1>1. ASSUME NEW i \in DOMAIN list'[t]
      PROVE  list'[t][i].id \in DOMAIN server \/ Gone(call'[t], list'[t][i].id)
  <2>1. list[t][i].id \in DOMAIN server \/ Gone(call[t], list[t][i].id)
    BY DEF Present
  <2>2. CASE Gone(call[t], list[t][i].id)
    <3>1. PICK z \in CallSlots : /\ call[t][z] # NoCall /\ call[t][z].kind = "delete"
                                 /\ call[t][z].stage = "ok" /\ call[t][z].id = list[t][i].id
      BY <2>2 DEF Gone
    <3>2. Stays(t, z, kept)
      BY <3>1 DEF Begins
    <3> QED BY <3>1, <3>2, AgedGone
  <2> QED BY <2>1, <2>2
<1>2. dialog'[t] # NoDialog => dialog'[t].id \in DOMAIN server
  BY DEF Present
<1>3. ASSUME NEW z \in CallSlots, call'[t][z] # NoCall PROVE Known(call'[t][z], server)
  <2>1. CASE z = s
    BY <2>1 DEF Begins, Known
  <2>2. CASE z # s
    <3>1. call[t][z] # NoCall /\ Ages(call[t][z], call'[t][z], kept)
      BY <1>3, <2>2, OldCall DEF Begins
    <3> QED BY <3>1 DEF Present, Known, Ages
  <2> QED BY <2>1, <2>2
<1> QED BY <1>1, <1>2, <1>3 DEF Present

\* An answer is about what the server has after it.
LEMMA AnsweredPresent ==
  ASSUME NEW t, Tab(t), Present(t), NEW s \in CallSlots, call[t][s] # NoCall,
         call[t][s].stage = "sent", Answered(call[t][s], call'[t][s]),
         \A z \in CallSlots \ {s} : call'[t][z] = call[t][z],
         UNCHANGED <<list, error, busy, dialog, fresh>>,
         Overlap = "rows" => Known(call'[t][s], server'),
         \A p \in DOMAIN server : p \in DOMAIN server' \/
            (p = call[t][s].id /\ call[t][s].kind = "delete" /\ call'[t][s].stage = "ok")
  PROVE  Present(t)'
<1> SUFFICES ASSUME Overlap = "rows" PROVE Present(t)'
  BY DEF Present
<1>1. call'[t][s] # NoCall /\ call'[t][s].kind = call[t][s].kind /\ call'[t][s].id = call[t][s].id
  BY NothingAssumption DEF Answered
<1>2. ASSUME NEW i \in DOMAIN list[t]
      PROVE  list[t][i].id \in DOMAIN server' \/ Gone(call'[t], list[t][i].id)
  <2>1. CASE Gone(call[t], list[t][i].id)
    <3>1. PICK z \in CallSlots : /\ call[t][z] # NoCall /\ call[t][z].kind = "delete"
                                 /\ call[t][z].stage = "ok" /\ call[t][z].id = list[t][i].id
      BY <2>1 DEF Gone
    <3> QED BY <3>1 DEF Gone
  <2>2. CASE list[t][i].id \in DOMAIN server
    BY <1>1, <2>2 DEF Gone
  <2> QED BY <2>1, <2>2 DEF Present
<1>3. dialog[t] # NoDialog => dialog[t].id \in DOMAIN server'
  BY DEF Present, Tab, Edited
<1>4. ASSUME NEW z \in CallSlots, call'[t][z] # NoCall PROVE Known(call'[t][z], server')
  <2>1. CASE z = s
    BY <2>1
  <2>2. CASE z # s
    <3>1. call'[t][z] = call[t][z] /\ call[t][z] # NoCall /\ Known(call[t][z], server)
      BY <1>4, <2>2 DEF Present
    <3>2. ~Alone(call[t][z]) /\ call[t][z].id # call[t][s].id
      BY <2>2, <3>1 DEF Tab, Exclusive
    <3> QED BY <3>1, <3>2 DEF Known, Alone
  <2> QED BY <2>1, <2>2
<1> QED BY <1>2, <1>3, <1>4 DEF Present

\* An ending call leaves no row of a product that is gone for good.
LEMMA EndsPresent ==
  ASSUME NEW t, NEW s, NEW kept, Present(t), Ends(t, s, kept), server' = server, dialog' = dialog,
         \A k \in DOMAIN list'[t] :
           \/ \E i \in DOMAIN list[t] :
                /\ list'[t][k].id = list[t][i].id
                /\ call[t][s].kind = "delete" /\ call[t][s].stage = "ok" =>
                     call[t][s].id # list[t][i].id
           \/ Overlap = "rows" => list'[t][k].id \in DOMAIN server
  PROVE  Present(t)'
<1> SUFFICES ASSUME Overlap = "rows" PROVE Present(t)'
  BY DEF Present
<1>1. ASSUME NEW k \in DOMAIN list'[t]
      PROVE  list'[t][k].id \in DOMAIN server \/ Gone(call'[t], list'[t][k].id)
  <2> SUFFICES ASSUME list'[t][k].id \notin DOMAIN server PROVE Gone(call'[t], list'[t][k].id)
    OBVIOUS
  <2>1. PICK i \in DOMAIN list[t] :
          /\ list'[t][k].id = list[t][i].id
          /\ call[t][s].kind = "delete" /\ call[t][s].stage = "ok" => call[t][s].id # list[t][i].id
    OBVIOUS
  <2>2. Gone(call[t], list[t][i].id)
    BY <2>1 DEF Present
  <2>3. PICK z \in CallSlots : /\ call[t][z] # NoCall /\ call[t][z].kind = "delete"
                               /\ call[t][z].stage = "ok" /\ call[t][z].id = list[t][i].id
    BY <2>2 DEF Gone
  <2>4. z # s
    BY <2>1, <2>3
  <2>5. Stays(t, z, kept)
    BY <2>4 DEF Ends
  <2> QED BY <2>1, <2>3, <2>5, AgedGone
<1>2. ASSUME NEW z \in CallSlots, call'[t][z] # NoCall PROVE Known(call'[t][z], server)
  <2>1. call[t][z] # NoCall /\ Ages(call[t][z], call'[t][z], kept)
    BY <1>2, OldCall DEF Ends
  <2> QED BY <2>1 DEF Present, Known, Ages
<1> QED BY <1>1, <1>2 DEF Present

-----------------------------------------------------------------------------
(* The invariant                                                           *)

\* One step of a tab, and its call's.
TabStep(t) ==
  \/ \E i \in DOMAIN list[t] :
       \/ \E up \in BOOLEAN : Tap(t, i, up)
       \/ OpenEdit(t, i)
       \/ Delete(t, i)
       \/ Scroll(t, i)
  \/ \E p \in Products, stock \in InitialStocks \ {Unknown} : Add(t, p, stock)
  \/ CancelEdit(t)
  \/ SaveEdit(t)
  \/ Reload(t)
  \/ \E s \in CallSlots :
       \/ Serve(t, s)
       \/ Refuse(t, s)
       \/ Succeed(t, s)
       \/ FailTap(t, s)
       \/ FailOther(t, s)

TabInv(t) == Tab(t) /\ Present(t)

StockInv == StockTyped /\ FreshUnused /\ \A t \in Tabs : TabInv(t)

\* What a step of tab t leaves true.
Holds(t) ==
  /\ StockTyped' /\ FreshUnused' /\ TabInv(t)'
  /\ \A u \in Tabs \ {t} : TabInv(u) => TabInv(u)'

\* A step that leaves the server alone.
LEMMA KeptHere ==
  ASSUME Orderly, FreshUnused, NEW t \in Tabs, StockTyped', Others(t), Tab(t)', Present(t)',
         server' = server, fresh' \subseteq fresh
  PROVE  Holds(t)
<1>1. FreshUnused'
  BY DEF FreshUnused
<1>2. ASSUME NEW u \in Tabs \ {t}, TabInv(u) PROVE TabInv(u)'
  <2>1. Untouched(u)
    BY DEF Others
  <2>2. Tab(u)'
    BY <1>2, <2>1, UntouchedTab DEF TabInv
  <2>3. Present(u)'
    BY <1>2, <2>1 DEF TabInv, Present, Gone, Untouched
  <2> QED BY <2>2, <2>3 DEF TabInv
<1> QED BY <1>1, <1>2 DEF Holds, TabInv

\* An admin's gestures keep it.
LEMMA GestureKept ==
  ASSUME Orderly, StockTyped, FreshUnused, NEW t \in Tabs, TabInv(t),
         \/ \E i \in DOMAIN list[t] :
              (\E up \in BOOLEAN : Tap(t, i, up)) \/ OpenEdit(t, i) \/ Delete(t, i) \/ Scroll(t, i)
         \/ \E p \in Products, stock \in InitialStocks \ {Unknown} : Add(t, p, stock)
         \/ CancelEdit(t) \/ SaveEdit(t) \/ Reload(t)
  PROVE  Holds(t)
<1> USE DEF TabInv
<1>1. ASSUME NEW i \in DOMAIN list[t], NEW up \in BOOLEAN, Tap(t, i, up) PROVE Holds(t)
  <2>1. /\ StockTyped' /\ Others(t) /\ UNCHANGED <<server, dialog, fresh, doubt>>
        /\ error[t] = "none" /\ i \notin busy[t] /\ Quiet(t, list[t][i].id, {"put"})
        /\ \E s \in CallSlots :
             /\ Begins(t, s, DOMAIN list[t])
             /\ call'[t][s].id = list[t][i].id
             /\ call'[t][s].row \in Rows /\ call'[t][s].row.id = list[t][i].id
             /\ list'[t] = [list[t] EXCEPT ![i] = call'[t][s].row]
    BY <1>1, TapEffect
  <2>2. PICK s \in CallSlots :
             /\ Begins(t, s, DOMAIN list[t])
             /\ call'[t][s].id = list[t][i].id
             /\ call'[t][s].row \in Rows /\ call'[t][s].row.id = list[t][i].id
             /\ list'[t] = [list[t] EXCEPT ![i] = call'[t][s].row]
    BY <2>1
  <2>3. \A z \in CallSlots : call[t][z] # NoCall => call[t][z].id # list[t][i].id
    BY <2>1, FreeToTap
  <2>4. Overlap = "rows" => list[t][i].id \in DOMAIN server
    BY <2>3, FreeIsPresent
  <2>5. DOMAIN list'[t] = DOMAIN list[t] /\ \A j \in DOMAIN list[t] : list'[t][j].id = list[t][j].id
    BY <2>2 DEF StockTyped
  <2>6. Present(t)'
    BY <2>1, <2>2, <2>4, <2>5, BeginsPresent
  <2> QED BY <1>1, <2>1, <2>6, TapTab, KeptHere
<1>2. ASSUME NEW i \in DOMAIN list[t], OpenEdit(t, i) PROVE Holds(t)
  <2>1. /\ StockTyped' /\ Others(t) /\ UNCHANGED <<server, list, error, busy, call, fresh, doubt>>
        /\ error[t] = "none" /\ Quiet(t, list[t][i].id, {"patch", "put"})
        /\ dialog'[t].id = list[t][i].id
    BY <1>2, OpenEffect
  <2>2. Quiet(t, list[t][i].id, {"put"})
    BY <2>1 DEF Quiet, WaitsFor
  <2>3. \A z \in CallSlots : call[t][z] # NoCall => call[t][z].id # list[t][i].id
    BY <2>1, <2>2, FreeToTap
  <2>4. Overlap = "rows" => list[t][i].id \in DOMAIN server
    BY <2>3, FreeIsPresent
  <2>5. Present(t)'
    BY <2>1, <2>4 DEF Present
  <2> QED BY <1>2, <2>1, <2>5, OpenTab, KeptHere
<1>3. ASSUME NEW i \in DOMAIN list[t], Delete(t, i) PROVE Holds(t)
  <2>1. /\ StockTyped' /\ Others(t) /\ UNCHANGED <<server, dialog, fresh, doubt>> /\ list'[t] = list[t]
        /\ \E s \in CallSlots : Begins(t, s, DOMAIN list[t]) /\ call'[t][s].kind = "delete"
    BY <1>3, DeleteEffect
  <2>2. Present(t)'
    BY <2>1, BeginsPresent
  <2> QED BY <1>3, <2>1, <2>2, DeleteTab, KeptHere
<1>4. ASSUME NEW i \in DOMAIN list[t], Scroll(t, i) PROVE Holds(t)
  <2>1. /\ StockTyped' /\ Others(t) /\ UNCHANGED <<server, list, error, dialog, fresh, doubt>>
        /\ \A s \in CallSlots : Stays(t, s, Nat \ {i})
    BY <1>4, ScrollEffect
  <2>2. ASSUME NEW p, Gone(call[t], p) PROVE Gone(call'[t], p)
    <3>1. PICK z \in CallSlots : /\ call[t][z] # NoCall /\ call[t][z].kind = "delete"
                                 /\ call[t][z].stage = "ok" /\ call[t][z].id = p
      BY <2>2 DEF Gone
    <3> QED BY <2>1, <3>1, AgedGone
  <2>3. ASSUME NEW z \in CallSlots, call'[t][z] # NoCall, Overlap = "rows" PROVE Known(call'[t][z], server)
    <3>1. call[t][z] # NoCall /\ Ages(call[t][z], call'[t][z], Nat \ {i})
      BY <2>1, <2>3, OldCall
    <3> QED BY <2>3, <3>1 DEF Present, Known, Ages
  <2>4. Present(t)'
    BY <2>1, <2>2, <2>3 DEF Present
  <2> QED BY <1>4, <2>1, <2>4, ScrollTab, KeptHere
<1>5. ASSUME NEW p \in Products, NEW stock \in InitialStocks \ {Unknown}, Add(t, p, stock) PROVE Holds(t)
  <2>1. /\ StockTyped' /\ Others(t) /\ UNCHANGED <<server, dialog, doubt>> /\ fresh' \subseteq fresh
        /\ list'[t] = list[t]
        /\ \E s \in CallSlots : Begins(t, s, DOMAIN list[t]) /\ call'[t][s].kind = "add"
    BY <1>5, AddEffect
  <2>2. Present(t)'
    BY <2>1, BeginsPresent
  <2> QED BY <1>5, <2>1, <2>2, AddTab, KeptHere
<1>6. ASSUME CancelEdit(t) PROVE Holds(t)
  <2>1. /\ StockTyped' /\ Others(t) /\ UNCHANGED <<server, list, error, busy, call, fresh, doubt>>
        /\ dialog'[t] = NoDialog
    BY <1>6, CancelEffect
  <2>2. Present(t)'
    BY <2>1 DEF Present
  <2> QED BY <1>6, <2>1, <2>2, CancelTab, KeptHere
<1>7. ASSUME SaveEdit(t) PROVE Holds(t)
  <2>1. /\ StockTyped' /\ Others(t) /\ UNCHANGED <<server, fresh, doubt>> /\ list'[t] = list[t]
        /\ dialog[t] # NoDialog /\ dialog'[t] = NoDialog
        /\ \E s \in CallSlots : Begins(t, s, DOMAIN list[t]) /\ call'[t][s].id = dialog[t].id
    BY <1>7, SaveEffect
  <2>2. Overlap = "rows" => dialog[t].id \in DOMAIN server
    BY <2>1 DEF Present
  <2>3. Present(t)'
    BY <2>1, <2>2, BeginsPresent
  <2> QED BY <1>7, <2>1, <2>3, SaveTab, KeptHere
<1>8. ASSUME Reload(t) PROVE Holds(t)
  <2>1. /\ StockTyped' /\ Others(t) /\ UNCHANGED <<server, list, dialog, fresh, doubt>>
        /\ \E s \in CallSlots : Begins(t, s, {}) /\ call'[t][s].kind = "load"
    BY <1>8, ReloadEffect
  <2>2. Present(t)'
    BY <2>1, BeginsPresent
  <2> QED BY <1>8, <2>1, <2>2, ReloadTab, KeptHere
<1> QED BY <1>1, <1>2, <1>3, <1>4, <1>5, <1>6, <1>7, <1>8

\* So does the server, which answers no tap it could fail where rows may move.
LEMMA ServeKept ==
  ASSUME Orderly, StockTyped, FreshUnused, NEW t \in Tabs, TabInv(t),
         NEW s \in CallSlots, Serve(t, s)
  PROVE  Holds(t)
<1> DEFINE c == call[t][s]
           d == call'[t][s]
<1>1. /\ StockTyped'
      /\ UNCHANGED <<list, error, busy, dialog, fresh>>
      /\ \A u \in Tabs \ {t} : call'[u] = call[u] /\ doubt'[u] = doubt[u]
      /\ c \in Calls /\ c # NoCall /\ c.stage = "sent"
      /\ Answered(c, d)
      /\ \A z \in CallSlots \ {s} : call'[t][z] = call[t][z]
      /\ server' = server \/ (Found(c) /\ server' = Stored(c))
      /\ \/ /\ d.stage = "ok" /\ Found(c) /\ server' = Stored(c)
            /\ c.kind = "load" => d.answer = Listed
         \/ d.stage = "failed" /\ server' = server /\ ~Found(c)
         \/ d.stage = "failed" /\ c.kind \in Failing
  BY ServeEffect DEF TabInv, Tab
<1>2. Shape(c) /\ Dated(c, list[t], fresh) /\ TypedServer
  BY <1>1 DEF TabInv, Tab, Shaped, Novel, StockTyped
<1>3. d.kind = c.kind /\ d.id = c.id /\ c.kind \in {"patch", "put", "add", "delete", "load"}
  BY <1>1 DEF Answered, Calls, Kinds
<1>4. Overlap = "rows" /\ c.kind \in {"patch", "put"} => c.id \in DOMAIN server
  BY <1>1 DEF TabInv, Present, Known
<1>5. Overlap = "rows" /\ c.kind = "patch" => d.stage # "failed"
  BY <1>1, <1>4 DEF Found, Orderly
<1>6. /\ Found(c) => \A p \in Products : c.kind = "load" \/ p # c.id =>
                       (p \in DOMAIN Stored(c) <=> p \in DOMAIN server)
      /\ Found(c) /\ c.kind \in {"patch", "put", "add"} => c.id \in DOMAIN Stored(c)
  BY <1>1, <1>2, StoredEffect
<1>7. \A k \in DOMAIN Listed : Listed[k].id \in DOMAIN server
  BY <1>2, ListedRows DEF TypedServer
<1> HIDE DEF c, d
<1>8. Tab(t)'
  <2>1. d.kind = "load" /\ d.stage = "ok" => \A k \in DOMAIN d.answer : d.answer[k].id \notin fresh
    BY <1>1, <1>3, <1>7 DEF FreshUnused
  <2>2. d.kind = "patch" /\ Overlap = "rows" => d.stage # "failed"
    BY <1>3, <1>5
  <2> QED BY <1>1, <2>1, <2>2, AnsweredTab DEF TabInv, c, d
<1>9. Present(t)'
  <2>1. Overlap = "rows" => Known(d, server')
    <3> SUFFICES ASSUME Overlap = "rows" PROVE Known(d, server')
      OBVIOUS
    <3>1. c.kind \in {"patch", "put"} => c.id \in DOMAIN server'
      BY <1>1, <1>4, <1>6
    <3>2. c.kind = "add" /\ d.stage = "ok" => c.id \in DOMAIN server'
      BY <1>1, <1>6
    <3>3. c.kind = "load" /\ d.stage = "ok" => \A k \in DOMAIN d.answer : d.answer[k].id \in DOMAIN server'
      BY <1>1, <1>2, <1>6, <1>7 DEF TypedServer
    <3> QED BY <1>3, <3>1, <3>2, <3>3 DEF Known
  <2>2. CASE Overlap = "rows"
    <3>1. ASSUME NEW p \in DOMAIN server
          PROVE  p \in DOMAIN server' \/ (p = c.id /\ c.kind = "delete" /\ d.stage = "ok")
      <4>1. CASE p # c.id \/ c.kind = "load"
        BY <1>1, <1>2, <1>6, <4>1 DEF TypedServer
      <4>2. CASE p = c.id /\ c.kind \in {"patch", "put", "add"}
        BY <1>1, <1>6, <4>2
      <4>3. CASE p = c.id /\ c.kind = "delete"
        <5>1. "delete" \notin Failing
          BY <2>2 DEF Orderly
        <5> QED BY <1>1, <4>3, <5>1
      <4> QED BY <1>3, <4>1, <4>2, <4>3
    <3> QED BY <1>1, <2>1, <3>1, AnsweredPresent DEF TabInv, c, d
  <2>3. CASE Overlap # "rows"
    BY <2>3 DEF Present
  <2> QED BY <2>2, <2>3
<1>10. FreshUnused'
  <2>1. ASSUME NEW p \in fresh PROVE p \notin DOMAIN server'
    <3>1. p \in Products /\ p \notin DOMAIN server
      BY DEF FreshUnused
    <3>2. c.kind = "load" \/ p # c.id
      BY <1>2 DEF Dated
    <3> QED BY <1>1, <1>6, <3>1, <3>2
  <2> QED BY <1>1, <2>1 DEF FreshUnused
<1>11. ASSUME NEW u \in Tabs \ {t}, TabInv(u) PROVE TabInv(u)'
  <2>1. Untouched(u) /\ fresh' = fresh
    BY <1>1 DEF Untouched
  <2>2. Overlap # "rows"
    BY <1>11 DEF Orderly, OneTab
  <2> QED BY <1>11, <2>1, <2>2, UntouchedTab DEF TabInv, Present
<1> QED BY <1>1, <1>8, <1>9, <1>10, <1>11 DEF Holds, TabInv

\* And what becomes of an answer.
LEMMA AnswerKept ==
  ASSUME Orderly, StockTyped, FreshUnused, NEW t \in Tabs, TabInv(t), NEW s \in CallSlots,
         Refuse(t, s) \/ Succeed(t, s) \/ FailTap(t, s) \/ FailOther(t, s)
  PROVE  Holds(t)
<1> USE DEF TabInv
<1>1. CASE Refuse(t, s)
  <2>1. /\ StockTyped' /\ Others(t)
        /\ UNCHANGED <<server, list, error, busy, dialog, fresh, doubt>>
        /\ call[t][s] # NoCall /\ call[t][s].stage = "sent"
        /\ Answered(call[t][s], call'[t][s]) /\ call'[t][s].stage = "failed"
        /\ call[t][s].kind \in Failing
        /\ \A z \in CallSlots \ {s} : call'[t][z] = call[t][z]
    BY <1>1, RefuseEffect DEF Tab
  <2>2. call'[t][s].kind = call[t][s].kind /\ call'[t][s].id = call[t][s].id
    BY <2>1 DEF Answered
  <2>3. call'[t][s].kind = "patch" /\ Overlap = "rows" => call'[t][s].stage # "failed"
    BY <2>1, <2>2 DEF Orderly
  <2>4. Tab(t)'
    BY <2>1, <2>3, AnsweredTab
  <2>5. Overlap = "rows" => Known(call'[t][s], server')
    BY <2>1, <2>2 DEF Present, Known
  <2>6. Present(t)'
    BY <2>1, <2>5, AnsweredPresent
  <2> QED BY <2>1, <2>4, <2>6, KeptHere
<1>2. CASE Succeed(t, s)
  <2> DEFINE c == call[t][s]
  <2>1. /\ StockTyped' /\ Others(t) /\ UNCHANGED <<server, dialog, fresh>>
        /\ c \in Calls /\ c # NoCall /\ c.stage = "ok"
        /\ AppliedTo(list[t], c, list'[t])
        /\ Ends(t, s, IF error'[t] = "shown" THEN {} ELSE DOMAIN list'[t])
    BY <1>2, SucceedEffect
  <2>2. Shape(c) /\ (Overlap = "rows" => Known(c, server))
    BY <2>1 DEF Tab, Shaped, Present
  <2>3. ASSUME NEW k \in DOMAIN list'[t]
        PROVE  \/ \E i \in DOMAIN list[t] :
                    /\ list'[t][k].id = list[t][i].id
                    /\ c.kind = "delete" /\ c.stage = "ok" => c.id # list[t][i].id
               \/ Overlap = "rows" => list'[t][k].id \in DOMAIN server
    <3>1. CASE c.kind \in {"patch", "put"}
      BY <2>1, <3>1 DEF AppliedTo
    <3>2. CASE c.kind = "add"
      <4>1. c.answer[1].id = c.id
        BY <2>1, <2>2, <3>2 DEF Shape
      <4> QED BY <2>1, <2>2, <3>2, <4>1 DEF AppliedTo, Known
    <3>3. CASE c.kind = "delete"
      BY <2>1, <3>3 DEF AppliedTo
    <3>4. CASE c.kind = "load"
      BY <2>1, <2>2, <3>4 DEF AppliedTo, Known
    <3>5. c.kind \in {"patch", "put", "add", "delete", "load"}
      BY <2>1 DEF Calls, Kinds
    <3> QED BY <3>1, <3>2, <3>3, <3>4, <3>5
  <2>4. Present(t)'
    BY <2>1, <2>3, EndsPresent
  <2> QED BY <1>2, <2>1, <2>4, SucceedTab, KeptHere
<1>3. CASE FailTap(t, s)
  <2>1. /\ StockTyped' /\ Others(t)
        /\ UNCHANGED <<server, dialog, fresh, doubt>>
        /\ call[t][s].kind = "patch"
        /\ error'[t] = "shown" /\ busy'[t] = {} /\ Ends(t, s, {})
        /\ Once(list'[t]) /\ DOMAIN list'[t] = DOMAIN list[t]
        /\ \A j \in DOMAIN list[t] : list'[t][j].id = list[t][j].id
    BY <1>3, FailTapEffect
  <2>2. Tab(t)'
    BY <2>1, FailedTab
  <2>3. Present(t)'
    BY <2>1, EndsPresent
  <2> QED BY <2>1, <2>2, <2>3, KeptHere
<1>4. CASE FailOther(t, s)
  <2>1. /\ StockTyped' /\ Others(t)
        /\ UNCHANGED <<server, dialog, fresh, doubt>>
        /\ call[t][s].stage = "failed" /\ list'[t] = list[t]
        /\ error'[t] = "shown" /\ busy'[t] = {} /\ Ends(t, s, {})
    BY <1>4, FailOtherEffect
  <2>2. Once(list[t])
    BY DEF Tab, Drawn
  <2>3. Tab(t)'
    BY <2>1, <2>2, FailedTab
  <2>4. Present(t)'
    BY <2>1, EndsPresent
  <2> QED BY <2>1, <2>3, <2>4, KeptHere
<1> QED BY <1>1, <1>2, <1>3, <1>4

\* Every step of a tab keeps that tab's invariant and every other's.
LEMMA TabKept ==
  ASSUME Orderly, StockTyped, FreshUnused, NEW t \in Tabs, TabInv(t), TabStep(t)
  PROVE  Holds(t)
BY GestureKept, ServeKept, AnswerKept DEF TabStep

\* The app starts on the list the server has.
LEMMA StockInvInit == StockInit => StockInv
<1> SUFFICES ASSUME StockInit PROVE StockInv
  OBVIOUS
<1>1. TypedServer /\ FreshUnused
  BY StockSyncAssumption DEF StockInit, TypedServer, FreshUnused
<1>2. /\ Listed \in Seq(Rows) /\ Once(Listed) /\ Unlisted \subseteq Products
      /\ \A k \in DOMAIN Listed : \E p \in DOMAIN server : Listed[k] = server[p]
  BY <1>1, ListedRows, ServerRows
<1>3. \A k \in DOMAIN Listed : Listed[k].id \in DOMAIN server
  BY <1>1, <1>2 DEF TypedServer
<1>4. StockTyped
  BY <1>1, <1>2 DEF StockInit, StockTyped
<1>5. ASSUME NEW t \in Tabs PROVE TabInv(t)
  <2>1. /\ list[t] = Listed /\ error[t] = "none" /\ busy[t] = {} /\ dialog[t] = NoDialog
        /\ \A s \in CallSlots : call[t][s] = NoCall
    BY DEF StockInit
  <2>2. Drawn(t)
    BY <1>2, <2>1 DEF Drawn
  <2>3. Novel(t)
    BY <1>1, <1>3, <2>1 DEF Novel, FreshUnused
  <2>4. Present(t)
    BY <1>3, <2>1 DEF Present
  <2> QED BY <2>1, <2>2, <2>3, <2>4 DEF TabInv, Tab, Shaped, Exclusive, Steppers, Edited, Cleared
<1> QED BY <1>1, <1>4, <1>5 DEF StockInv

\* The invariant is inductive for the admin who waits.
LEMMA StockInvStep ==
  ASSUME Orderly, StockInv, [StockNext]_stockVars
  PROVE  StockInv'
<1>1. CASE UNCHANGED stockVars
  <2>1. StockTyped' /\ FreshUnused'
    BY <1>1 DEF stockVars, StockInv, StockTyped, TypedServer, FreshUnused
  <2>2. \A u \in Tabs : Untouched(u)
    BY <1>1 DEF stockVars, Untouched
  <2>3. fresh' = fresh /\ server' = server
    BY <1>1 DEF stockVars
  <2>4. ASSUME NEW u \in Tabs PROVE TabInv(u)'
    <3>1. Tab(u)'
      BY <2>2, <2>3, UntouchedTab DEF StockInv, TabInv
    <3>2. Present(u)'
      BY <2>2, <2>3 DEF StockInv, TabInv, Present, Gone, Untouched
    <3> QED BY <3>1, <3>2 DEF TabInv
  <2> QED BY <2>1, <2>4 DEF StockInv
<1>2. CASE StockNext
  <2>1. PICK t \in Tabs : TabStep(t)
    BY <1>2 DEF StockNext, TabStep
  <2> QED BY <2>1, TabKept DEF StockInv, Holds
<1> QED BY <1>1, <1>2

\* It holds in every reachable state.
LEMMA StockInvariant == ASSUME Orderly PROVE StockSpec => []StockInv
<1>1. StockInv /\ [StockNext]_stockVars => StockInv'
  BY StockInvStep
<1> QED BY <1>1, StockInvInit, PTL DEF StockSpec

\* StockTypeOK holds in every reachable state: among the types, every busy
\* stepper has its call in flight, so the finally of _bump gives its buttons
\* back, though deletes and answers move the rows under it.
THEOREM StockTypeCorrect == ASSUME Orderly PROVE StockSpec => []StockTypeOK
<1>1. StockInv => StockTypeOK
  <2> SUFFICES ASSUME StockInv PROVE StockTypeOK
    OBVIOUS
  <2>1. /\ fresh \subseteq Products
        /\ \A p \in DOMAIN server : p \in Products \ fresh /\ server[p] \in Rows /\ server[p].id = p
    BY DEF StockInv, StockTyped, TypedServer, FreshUnused
  <2>2. ASSUME NEW t \in Tabs
        PROVE  /\ list[t] \in Seq(Rows)
               /\ error[t] \in {"none", "shown", "cleared"}
               /\ doubt[t] \subseteq Products \cup {0}
               /\ busy[t] \subseteq DOMAIN list[t]
               /\ dialog[t] \in Rows \cup {NoDialog}
               /\ \A s \in CallSlots : call[t][s] = NoCall \/ call[t][s] \in Calls
    BY DEF StockInv, StockTyped, TabInv, Tab, Drawn
  <2>3. ASSUME NEW t \in Tabs, NEW i \in busy[t]
        PROVE  \E s \in InFlight(t) : call[t][s].tile = i
    BY DEF StockInv, TabInv, Tab, Drawn, InFlight
  <2> QED BY <2>1, <2>2, <2>3 DEF StockTypeOK
<1> QED BY <1>1, StockInvariant, PTL

\* ListsEachOnce holds in every reachable state: no answer, addition, revert or
\* delete makes a list show a product twice, for any number of products and
\* calls, also where a delete above moves the row while its step is in flight.
THEOREM NoRowTwice == ASSUME Orderly PROVE StockSpec => []ListsEachOnce
<1>1. StockInv => ListsEachOnce
  BY DEF StockInv, TabInv, Tab, Drawn, Once, ListsEachOnce
<1> QED BY <1>1, StockInvariant, PTL

\* OneStepInFlight holds in every reachable state: "_busy" of
\* product_list_tile.dart keeps a second PATCH of a product from being sent,
\* though it belongs to a position of the list and not to the product.
THEOREM NoDoubleStep == ASSUME Orderly PROVE StockSpec => []OneStepInFlight
<1>1. StockInv => OneStepInFlight
  BY DEF StockInv, TabInv, Tab, Exclusive, OneStepInFlight, InFlight
<1> QED BY <1>1, StockInvariant, PTL

-----------------------------------------------------------------------------
(* One tab against the server                                              *)

\* A list and the server agree on a product.
Same(rows, srv, p) ==
  /\ p \in DOMAIN srv => \E i \in DOMAIN rows : rows[i] = srv[p]
  /\ \A i \in DOMAIN rows : rows[i].id = p => p \in DOMAIN srv

\* The list runs ahead of the server, or the server of the list.
Pending(c) == c.kind = "patch" \/ (c.stage = "ok" /\ c.kind \in {"put", "add", "delete"})

NonePending(t, p) ==
  \A s \in CallSlots : call[t][s] # NoCall /\ call[t][s].id = p => ~Pending(call[t][s])

\* What a call knows of its product is so.
Right(rows, srv, c) ==
  /\ c.kind \in {"patch", "put"} => c.id \in DOMAIN srv /\ \E i \in DOMAIN rows : rows[i].id = c.id
  /\ c.kind = "patch" /\ c.stage # "ok" => c.before = srv[c.id]
  /\ c.kind \in {"patch", "put", "add"} /\ c.stage = "ok" =>
       c.id \in DOMAIN srv /\ c.answer[1] = srv[c.id]
  /\ c.kind = "delete" /\ c.stage = "ok" => c.id \notin DOMAIN srv

ListAgrees(t) ==
  \A p \in Products \ doubt[t] : NonePending(t, p) => Same(list[t], server, p)

CallsAgree(t) ==
  \A s \in CallSlots :
    call[t][s] # NoCall /\ call[t][s].kind # "load" /\ call[t][s].id \notin doubt[t] =>
      Right(list[t], server, call[t][s])

LoadAgrees(t) ==
  \A s \in CallSlots :
    call[t][s] # NoCall /\ call[t][s].kind = "load" /\ call[t][s].stage = "ok" =>
      call[t][s].answer = Listed

DialogAgrees(t) ==
  dialog[t] # NoDialog /\ dialog[t].id \notin doubt[t] => dialog[t].id \in DOMAIN server

Agree(t) == ListAgrees(t) /\ CallsAgree(t) /\ LoadAgrees(t) /\ DialogAgrees(t)

\* Where nothing is pending, a row of the list is the server's.
LEMMA OwnRow ==
  ASSUME NEW rows \in Seq(Rows), Once(rows), TypedServer, NEW i \in DOMAIN rows,
         Same(rows, server, rows[i].id)
  PROVE  rows[i].id \in DOMAIN server /\ server[rows[i].id] = rows[i]
<1>1. rows[i].id \in DOMAIN server
  BY DEF Same
<1>2. PICK j \in DOMAIN rows : rows[j] = server[rows[i].id]
  BY <1>1 DEF Same
<1>3. rows[j].id = rows[i].id
  BY <1>1, <1>2 DEF TypedServer
<1>4. i = j
  BY <1>3 DEF Once
<1> QED BY <1>1, <1>2, <1>4

\* A list that keeps the rows of a product, and gets no other, agrees as before.
LEMMA SameThrough ==
  ASSUME NEW rows, NEW new, TypedServer, NEW p, Same(rows, server, p),
         \A i \in DOMAIN rows : rows[i].id = p => \E k \in DOMAIN new : new[k] = rows[i],
         \A k \in DOMAIN new : new[k].id = p => \E i \in DOMAIN rows : rows[i].id = p
  PROVE  Same(new, server, p)
<1>1. ASSUME p \in DOMAIN server PROVE \E k \in DOMAIN new : new[k] = server[p]
  <2>1. PICK i \in DOMAIN rows : rows[i] = server[p]
    BY <1>1 DEF Same
  <2>2. rows[i].id = p
    BY <1>1, <2>1 DEF TypedServer
  <2> QED BY <2>1, <2>2
<1>2. \A k \in DOMAIN new : new[k].id = p => p \in DOMAIN server
  BY DEF Same
<1> QED BY <1>1, <1>2 DEF Same

\* The page the server answers agrees with it on the products that are on it.
LEMMA ListedAgrees == ASSUME TypedServer, NEW p, p \notin Unlisted PROVE Same(Listed, server, p)
<1>1. /\ \A k \in DOMAIN Listed : \E q \in DOMAIN server : Listed[k] = server[q]
      /\ \A q \in DOMAIN server \ Unlisted : \E k \in DOMAIN Listed : Listed[k] = server[q]
  BY ListedRows
<1>2. p \in DOMAIN server => \E k \in DOMAIN Listed : Listed[k] = server[p]
  BY <1>1
<1>3. \A k \in DOMAIN Listed : Listed[k].id = p => p \in DOMAIN server
  BY <1>1 DEF TypedServer
<1> QED BY <1>2, <1>3 DEF Same

\* While the rows stay, so does the page.
LEMMA PageStays == ASSUME server' = server PROVE Listed' = Listed
BY DEF Listed, OnPage

\* Ageing does not change whether a call is pending,
LEMMA AgedPending == ASSUME NEW c, NEW d, NEW kept, Ages(c, d, kept) PROVE Pending(d) <=> Pending(c)
BY DEF Ages, Pending

\* nor whether it is right, while the list keeps its product.
LEMMA AgedRight ==
  ASSUME NEW rows, NEW new, NEW srv, NEW c, NEW d, NEW kept, Ages(c, d, kept), Right(rows, srv, c),
         \A i \in DOMAIN rows : rows[i].id = c.id => \E k \in DOMAIN new : new[k].id = c.id
  PROVE  Right(new, srv, d)
BY DEF Ages, Right

\* Calls that age, but for the one in slot s, leave agreed what was.
LEMMA AgedAgree ==
  ASSUME NEW t, NEW s, NEW kept, Agree(t), server' = server, doubt'[t] = doubt[t],
         \A z \in CallSlots \ {s} : Stays(t, z, kept),
         \A z \in CallSlots \ {s} : call[t][z] # NoCall => \A i \in DOMAIN list[t] :
           list[t][i].id = call[t][z].id => \E k \in DOMAIN list'[t] : list'[t][k].id = call[t][z].id,
         s \in CallSlots /\ call'[t][s] # NoCall /\ call'[t][s].kind # "load"
           /\ call'[t][s].id \notin doubt[t] => Right(list'[t], server, call'[t][s]),
         s \in CallSlots /\ call'[t][s] # NoCall => call'[t][s].stage = "sent"
  PROVE  /\ CallsAgree(t)' /\ LoadAgrees(t)'
         /\ \A p : NonePending(t, p)'
                   /\ (s \in CallSlots /\ call[t][s] # NoCall /\ call[t][s].id = p => ~Pending(call[t][s]))
                   => NonePending(t, p)
<1>1. ASSUME NEW z \in CallSlots, call'[t][z] # NoCall, z # s
      PROVE  call[t][z] # NoCall /\ Ages(call[t][z], call'[t][z], kept)
  BY <1>1, OldCall
<1>2. CallsAgree(t)'
  <2> SUFFICES ASSUME NEW z \in CallSlots, call'[t][z] # NoCall, call'[t][z].kind # "load",
                      call'[t][z].id \notin doubt[t]
               PROVE  Right(list'[t], server, call'[t][z])
    BY DEF CallsAgree
  <2>1. CASE z = s
    BY <2>1
  <2>2. CASE z # s
    <3>1. call[t][z] # NoCall /\ Ages(call[t][z], call'[t][z], kept)
      BY <1>1, <2>2
    <3>2. Right(list[t], server, call[t][z])
      BY <3>1 DEF Agree, CallsAgree, Ages
    <3> QED BY <2>2, <3>1, <3>2, AgedRight
  <2> QED BY <2>1, <2>2
<1>3. LoadAgrees(t)'
  BY <1>1, PageStays DEF Agree, LoadAgrees, Ages
<1>4. ASSUME NEW p, NonePending(t, p)',
             s \in CallSlots /\ call[t][s] # NoCall /\ call[t][s].id = p => ~Pending(call[t][s])
      PROVE  NonePending(t, p)
  <2> SUFFICES ASSUME NEW z \in CallSlots, call[t][z] # NoCall, call[t][z].id = p, z # s
               PROVE  ~Pending(call[t][z])
    BY <1>4 DEF NonePending
  <2>1. Ages(call[t][z], call'[t][z], kept)
    BY DEF Stays
  <2>2. call'[t][z] # NoCall /\ call'[t][z].id = p
    BY <2>1, NothingAssumption DEF Ages
  <2>3. ~Pending(call'[t][z])
    BY <1>4, <2>2 DEF NonePending
  <2> QED BY <2>1, <2>3, AgedPending
<1> QED BY <1>2, <1>3, <1>4

\* What a new call leaves agreed.
LEMMA BeginsAgree ==
  ASSUME NEW t, NEW s, NEW kept, Agree(t), Begins(t, s, kept), server' = server, doubt' = doubt,
         DOMAIN list'[t] = DOMAIN list[t],
         \A j \in DOMAIN list[t] : list'[t][j].id = list[t][j].id,
         call'[t][s].kind # "load" /\ call'[t][s].id \notin doubt[t] =>
           Right(list'[t], server, call'[t][s])
  PROVE  /\ CallsAgree(t)' /\ LoadAgrees(t)'
         /\ \A p : NonePending(t, p)' => NonePending(t, p)
<1>1. /\ \A z \in CallSlots \ {s} : Stays(t, z, kept)
      /\ call[t][s] = NoCall /\ call'[t][s].stage = "sent"
  BY DEF Begins
<1>2. \A z \in CallSlots \ {s} : call[t][z] # NoCall => \A i \in DOMAIN list[t] :
        list[t][i].id = call[t][z].id => \E k \in DOMAIN list'[t] : list'[t][k].id = call[t][z].id
  OBVIOUS
<1> QED BY <1>1, <1>2, AgedAgree

\* What an ending call leaves agreed.
LEMMA EndsAgree ==
  ASSUME NEW t, NEW s, NEW kept, Agree(t), Exclusive(t), Ends(t, s, kept),
         server' = server, doubt'[t] = doubt[t],
         \A i \in DOMAIN list[t] : list[t][i].id # call[t][s].id =>
           \E k \in DOMAIN list'[t] : list'[t][k].id = list[t][i].id
  PROVE  /\ CallsAgree(t)' /\ LoadAgrees(t)'
         /\ \A p : NonePending(t, p)' /\ (p # call[t][s].id \/ ~Pending(call[t][s])) => NonePending(t, p)
<1>1. /\ \A z \in CallSlots \ {s} : Stays(t, z, kept)
      /\ call'[t][s] = NoCall /\ s \in CallSlots /\ call[t][s] # NoCall
  BY DEF Ends
<1>2. ASSUME NEW z \in CallSlots \ {s}, call[t][z] # NoCall, NEW i \in DOMAIN list[t],
             list[t][i].id = call[t][z].id
      PROVE  \E k \in DOMAIN list'[t] : list'[t][k].id = call[t][z].id
  <2>1. call[t][z].id # call[t][s].id
    BY <1>1, <1>2 DEF Exclusive
  <2> QED BY <1>2, <2>1
<1> QED BY <1>1, <1>2, AgedAgree

-----------------------------------------------------------------------------
(* What the admin does, and agreement                                      *)

\* A tap keeps the agreement: the row it remembers is the server's.
LEMMA TapAgree ==
  ASSUME Orderly, StockTyped, NEW t \in Tabs, Tab(t), Agree(t),
         NEW i \in DOMAIN list[t], NEW up \in BOOLEAN, Tap(t, i, up)
  PROVE  Agree(t)'
<1> DEFINE id == list[t][i].id
<1>1. /\ UNCHANGED <<server, dialog, fresh, doubt>>
      /\ error[t] = "none" /\ dialog[t] = NoDialog /\ i \notin busy[t]
      /\ Quiet(t, list[t][i].id, {"put"})
      /\ \E s \in CallSlots :
           /\ Begins(t, s, DOMAIN list[t])
           /\ call'[t][s].kind = "patch"
           /\ call'[t][s].id = list[t][i].id
           /\ call'[t][s].row \in Rows /\ call'[t][s].row.id = list[t][i].id
           /\ call'[t][s].before = list[t][i]
           /\ call'[t][s].index = i /\ call'[t][s].tile = i
           /\ list'[t] = [list[t] EXCEPT ![i] = call'[t][s].row]
  BY TapEffect
<1>2. PICK s \in CallSlots :
           /\ Begins(t, s, DOMAIN list[t])
           /\ call'[t][s].kind = "patch" /\ call'[t][s].id = id
           /\ call'[t][s].row.id = id
           /\ call'[t][s].before = list[t][i]
           /\ list'[t] = [list[t] EXCEPT ![i] = call'[t][s].row]
  BY <1>1
<1>3. list[t] \in Seq(Rows) /\ Once(list[t]) /\ list[t][i] \in Rows /\ id \in Products /\ TypedServer
  BY RowIds DEF StockTyped, Tab, Drawn
<1>4. /\ DOMAIN list'[t] = DOMAIN list[t]
      /\ \A j \in DOMAIN list[t] : list'[t][j].id = list[t][j].id
      /\ \A j \in DOMAIN list[t] : j # i => list'[t][j] = list[t][j]
  BY <1>2, <1>3
<1>5. NonePending(t, id)
  BY <1>1, FreeToTap DEF NonePending
<1>6. call'[t][s].id \notin doubt[t] => Right(list'[t], server, call'[t][s])
  <2> SUFFICES ASSUME id \notin doubt[t] PROVE Right(list'[t], server, call'[t][s])
    BY <1>2
  <2>1. id \in DOMAIN server /\ server[id] = list[t][i]
    BY <1>3, <1>5, OwnRow DEF Agree, ListAgrees
  <2> QED BY <1>2, <1>4, <2>1 DEF Right, Begins
<1>7. /\ CallsAgree(t)' /\ LoadAgrees(t)'
      /\ \A p : NonePending(t, p)' => NonePending(t, p)
  BY <1>1, <1>2, <1>4, <1>6, BeginsAgree
<1>8. ListAgrees(t)'
  <2> SUFFICES ASSUME NEW p \in Products \ doubt[t], NonePending(t, p)'
               PROVE  Same(list'[t], server, p)
    BY <1>1 DEF ListAgrees
  <2>1. p # id
    BY <1>2, NothingAssumption DEF NonePending, Pending, Begins
  <2>2. Same(list[t], server, p)
    BY <1>7 DEF Agree, ListAgrees
  <2>3. \A j \in DOMAIN list[t] : list[t][j].id = p => \E k \in DOMAIN list'[t] : list'[t][k] = list[t][j]
    BY <1>4, <2>1
  <2> QED BY <1>3, <1>4, <2>2, <2>3, SameThrough
<1>9. DialogAgrees(t)'
  BY <1>1 DEF DialogAgrees
<1> QED BY <1>7, <1>8, <1>9 DEF Agree

\* Calls that start, while the list stays: whatever agreed still agrees.
LEMMA StartAgree ==
  ASSUME NEW t, NEW s, NEW kept, Agree(t), Begins(t, s, kept),
         server' = server, doubt' = doubt, list'[t] = list[t],
         dialog'[t] = NoDialog \/ dialog'[t] = dialog[t],
         call'[t][s].kind # "load" /\ call'[t][s].id \notin doubt[t] =>
           Right(list[t], server, call'[t][s])
  PROVE  Agree(t)'
<1>1. /\ CallsAgree(t)' /\ LoadAgrees(t)'
      /\ \A p : NonePending(t, p)' => NonePending(t, p)
  BY BeginsAgree
<1>2. ListAgrees(t)'
  BY <1>1 DEF Agree, ListAgrees
<1>3. DialogAgrees(t)'
  BY DEF Agree, DialogAgrees
<1> QED BY <1>1, <1>2, <1>3 DEF Agree

\* A save is of a product that is listed and there.
LEMMA SaveAgree ==
  ASSUME StockTyped, NEW t \in Tabs, Tab(t), Agree(t), SaveEdit(t)
  PROVE  Agree(t)'
<1> DEFINE id == dialog[t].id
<1>1. /\ dialog[t] # NoDialog /\ dialog'[t] = NoDialog
      /\ UNCHANGED <<server, fresh, doubt>>
      /\ list'[t] = list[t]
      /\ \E s \in CallSlots :
           /\ Begins(t, s, DOMAIN list[t])
           /\ call'[t][s].kind = "put"
           /\ call'[t][s].id = dialog[t].id
           /\ call'[t][s].row \in Rows /\ call'[t][s].row.id = dialog[t].id
           /\ call'[t][s].tile = 0
  BY SaveEffect
<1>2. PICK s \in CallSlots :
           /\ Begins(t, s, DOMAIN list[t])
           /\ call'[t][s].kind = "put" /\ call'[t][s].id = id
  BY <1>1
<1>3. id \in Products /\ TypedServer
  BY <1>1, RowIds DEF StockTyped
<1>4. NonePending(t, id)
  BY <1>1 DEF NonePending, Tab, Edited
<1>5. ASSUME id \notin doubt[t] PROVE Right(list[t], server, call'[t][s])
  <2>1. id \in DOMAIN server
    BY <1>1, <1>5 DEF Agree, DialogAgrees
  <2>2. PICK i \in DOMAIN list[t] : list[t][i] = server[id]
    BY <1>3, <1>4, <1>5, <2>1 DEF Agree, ListAgrees, Same
  <2>3. \E j \in DOMAIN list[t] : list[t][j].id = id
    BY <1>3, <2>1, <2>2 DEF TypedServer
  <2> QED BY <1>2, <2>1, <2>3 DEF Right, Begins
<1> QED BY <1>1, <1>2, <1>5, StartAgree

\* An addition changes nothing before it is answered.
LEMMA AddAgree ==
  ASSUME StockTyped, NEW t \in Tabs, Tab(t), Agree(t), NEW p \in Products,
         NEW stock \in InitialStocks \ {Unknown}, Add(t, p, stock)
  PROVE  Agree(t)'
<1>1. /\ UNCHANGED <<server, dialog, doubt>> /\ list'[t] = list[t]
      /\ \E s \in CallSlots : Begins(t, s, DOMAIN list[t]) /\ call'[t][s].kind = "add"
  BY AddEffect
<1>2. PICK s \in CallSlots : Begins(t, s, DOMAIN list[t]) /\ call'[t][s].kind = "add"
  BY <1>1
<1>3. Right(list[t], server, call'[t][s])
  BY <1>2 DEF Right, Begins
<1> QED BY <1>1, <1>2, <1>3, StartAgree

\* Nor does a delete.
LEMMA DeleteAgree ==
  ASSUME StockTyped, NEW t \in Tabs, Tab(t), Agree(t), NEW i \in DOMAIN list[t], Delete(t, i)
  PROVE  Agree(t)'
<1>1. /\ UNCHANGED <<server, dialog, fresh, doubt>> /\ list'[t] = list[t]
      /\ \E s \in CallSlots : Begins(t, s, DOMAIN list[t]) /\ call'[t][s].kind = "delete"
  BY DeleteEffect
<1>2. PICK s \in CallSlots : Begins(t, s, DOMAIN list[t]) /\ call'[t][s].kind = "delete"
  BY <1>1
<1>3. Right(list[t], server, call'[t][s])
  BY <1>2 DEF Right, Begins
<1> QED BY <1>1, <1>2, <1>3, StartAgree

\* Nor does a reload.
LEMMA ReloadAgree ==
  ASSUME StockTyped, NEW t \in Tabs, Tab(t), Agree(t), Reload(t)
  PROVE  Agree(t)'
<1>1. /\ UNCHANGED <<server, list, dialog, fresh, doubt>>
      /\ \E s \in CallSlots :
           Begins(t, s, {}) /\ call'[t][s].kind = "load" /\ call'[t][s].tile = 0
  BY ReloadEffect
<1>2. PICK s \in CallSlots : Begins(t, s, {}) /\ call'[t][s].kind = "load"
  BY <1>1
<1> QED BY <1>1, <1>2, StartAgree

\* Nor does a tile that scrolls away.
LEMMA ScrollAgree ==
  ASSUME StockTyped, NEW t \in Tabs, Agree(t), NEW i, Scroll(t, i)
  PROVE  Agree(t)'
<1>1. /\ UNCHANGED <<server, list, error, dialog, fresh, doubt>>
      /\ \A s \in CallSlots : Stays(t, s, Nat \ {i})
  BY ScrollEffect
<1>2. ASSUME NEW z \in CallSlots, call'[t][z] # NoCall
      PROVE  call[t][z] # NoCall /\ Ages(call[t][z], call'[t][z], Nat \ {i})
  BY <1>1, <1>2, OldCall
<1>3. CallsAgree(t)'
  BY <1>1, <1>2 DEF Agree, CallsAgree, Ages, Right
<1>4. LoadAgrees(t)'
  BY <1>1, <1>2, PageStays DEF Agree, LoadAgrees, Ages
<1>5. ASSUME NEW p, NonePending(t, p)' PROVE NonePending(t, p)
  <2> SUFFICES ASSUME NEW z \in CallSlots, call[t][z] # NoCall, call[t][z].id = p
               PROVE  ~Pending(call[t][z])
    BY DEF NonePending
  <2>1. Ages(call[t][z], call'[t][z], Nat \ {i})
    BY <1>1 DEF Stays
  <2>2. call'[t][z] # NoCall /\ call'[t][z].id = p
    BY <2>1, NothingAssumption DEF Ages
  <2>3. ~Pending(call'[t][z])
    BY <1>5, <2>2 DEF NonePending
  <2> QED BY <2>1, <2>3, AgedPending
<1>6. ListAgrees(t)' /\ DialogAgrees(t)'
  BY <1>1, <1>5 DEF Agree, ListAgrees, DialogAgrees
<1> QED BY <1>3, <1>4, <1>6 DEF Agree

\* The dialog opens on a product that is there, as no call on it is in flight.
LEMMA OpenAgree ==
  ASSUME Orderly, StockTyped, NEW t \in Tabs, Tab(t), Agree(t),
         NEW i \in DOMAIN list[t], OpenEdit(t, i)
  PROVE  Agree(t)'
<1> DEFINE id == list[t][i].id
<1>1. /\ UNCHANGED <<server, list, error, busy, call, fresh, doubt>>
      /\ error[t] = "none" /\ Quiet(t, list[t][i].id, {"patch", "put"})
      /\ dialog'[t].id = list[t][i].id
  BY OpenEffect
<1>2. list[t] \in Seq(Rows) /\ Once(list[t]) /\ id \in Products /\ TypedServer
  BY RowIds DEF StockTyped, Tab, Drawn
<1>3. NonePending(t, id)
  <2>1. Quiet(t, list[t][i].id, {"put"})
    BY <1>1 DEF Quiet, WaitsFor
  <2> QED BY <1>1, <2>1, FreeToTap DEF NonePending
<1>4. DialogAgrees(t)'
  <2> SUFFICES ASSUME id \notin doubt[t] PROVE id \in DOMAIN server
    BY <1>1 DEF DialogAgrees
  <2> QED BY <1>2, <1>3, OwnRow DEF Agree, ListAgrees
<1>5. ListAgrees(t)' /\ CallsAgree(t)'
  BY <1>1 DEF Agree, ListAgrees, CallsAgree, NonePending
<1>6. LoadAgrees(t)'
  BY <1>1, PageStays DEF Agree, LoadAgrees
<1> QED BY <1>4, <1>5, <1>6 DEF Agree

\* Closing the dialog forgets what it would have saved.
LEMMA CancelAgree ==
  ASSUME StockTyped, NEW t \in Tabs, Agree(t), CancelEdit(t)
  PROVE  Agree(t)'
<1>1. /\ UNCHANGED <<server, list, error, busy, call, fresh, doubt>>
      /\ dialog'[t] = NoDialog
  BY CancelEffect
<1>2. ListAgrees(t)' /\ CallsAgree(t)'
  BY <1>1 DEF Agree, ListAgrees, CallsAgree, NonePending
<1>3. LoadAgrees(t)' /\ DialogAgrees(t)'
  BY <1>1, PageStays DEF Agree, LoadAgrees, DialogAgrees
<1> QED BY <1>2, <1>3 DEF Agree

-----------------------------------------------------------------------------
(* What becomes of a call, and agreement                                   *)

\* A call that failed unserved left the server as it was.
LEMMA RefuseAgree ==
  ASSUME StockTyped, NEW t \in Tabs, Tab(t), Agree(t), NEW s \in CallSlots, Refuse(t, s)
  PROVE  Agree(t)'
<1> DEFINE c == call[t][s]
           d == call'[t][s]
<1>1. /\ UNCHANGED <<server, list, error, busy, dialog, fresh, doubt>>
      /\ c \in Calls /\ c # NoCall /\ c.stage = "sent"
      /\ Answered(c, d) /\ d.stage = "failed"
      /\ \A z \in CallSlots \ {s} : call'[t][z] = call[t][z]
  BY RefuseEffect DEF Tab
<1>2. d # NoCall /\ d.kind = c.kind /\ d.id = c.id /\ d.before = c.before
  BY <1>1, NothingAssumption DEF Answered
<1>3. Pending(d) <=> Pending(c)
  BY <1>1, <1>2 DEF Pending
<1>4. \A p : NonePending(t, p)' => NonePending(t, p)
  BY <1>1, <1>2, <1>3 DEF NonePending
<1>5. ListAgrees(t)'
  BY <1>1, <1>4 DEF Agree, ListAgrees
<1>6. CallsAgree(t)'
  <2> SUFFICES ASSUME NEW z \in CallSlots, call'[t][z] # NoCall, call'[t][z].kind # "load",
                      call'[t][z].id \notin doubt[t]
               PROVE  Right(list[t], server, call'[t][z])
    BY <1>1 DEF CallsAgree
  <2>1. CASE z # s
    BY <1>1, <2>1 DEF Agree, CallsAgree
  <2>2. CASE z = s
    <3>1. Right(list[t], server, c)
      BY <1>1, <1>2, <2>2 DEF Agree, CallsAgree
    <3> QED BY <1>1, <1>2, <2>2, <3>1 DEF Right
  <2> QED BY <2>1, <2>2
<1>7. LoadAgrees(t)'
  BY <1>1, PageStays DEF Agree, LoadAgrees
<1>8. DialogAgrees(t)'
  BY <1>1 DEF Agree, DialogAgrees
<1> QED BY <1>5, <1>6, <1>7, <1>8 DEF Agree

\* What a call stores changes its own product only.
LEMMA ServedServer ==
  ASSUME TypedServer, NEW c \in Calls, Shape(c),
         \/ server' = server
         \/ Found(c) /\ server' = Stored(c)
  PROVE  /\ TypedServer'
         /\ \A p \in Products : c.kind = "load" \/ p # c.id =>
              /\ p \in DOMAIN server' <=> p \in DOMAIN server
              /\ p \in DOMAIN server => server'[p] = server[p]
         /\ c.kind = "load" => server' = server
<1>1. CASE server' = server
  BY <1>1 DEF TypedServer
<1>2. CASE Found(c) /\ server' = Stored(c)
  <2>1. /\ DOMAIN Stored(c) \subseteq Products
        /\ \A p \in DOMAIN Stored(c) : Stored(c)[p] \in Rows /\ Stored(c)[p].id = p
        /\ \A p \in Products : c.kind = "load" \/ p # c.id =>
             /\ p \in DOMAIN Stored(c) <=> p \in DOMAIN server
             /\ p \in DOMAIN server => Stored(c)[p] = server[p]
    BY <1>2, StoredEffect
  <2>2. c.kind = "load" => server' = server
    BY <1>2, StoredKinds
  <2> QED BY <1>2, <2>1, <2>2 DEF TypedServer
<1> QED BY <1>1, <1>2

\* A product the server did not touch is right for whom it was right.
LEMMA SameElsewhere ==
  ASSUME NEW rows, NEW p, p \in DOMAIN server' <=> p \in DOMAIN server,
         p \in DOMAIN server => server'[p] = server[p], Same(rows, server, p)
  PROVE  Same(rows, server', p)
BY DEF Same

\* So is a call about another product.
LEMMA RightElsewhere ==
  ASSUME NEW rows, NEW c, c.id \in DOMAIN server' <=> c.id \in DOMAIN server,
         c.id \in DOMAIN server => server'[c.id] = server[c.id], Right(rows, server, c)
  PROVE  Right(rows, server', c)
BY DEF Right

\* Serving a call: its product is pending, answered or in doubt.
LEMMA ServeAgree ==
  ASSUME StockTyped, NEW t \in Tabs, Tab(t), Agree(t), NEW s \in CallSlots, Serve(t, s)
  PROVE  Agree(t)'
<1> DEFINE c == call[t][s]
           d == call'[t][s]
<1>1. /\ UNCHANGED <<list, error, busy, dialog, fresh>>
      /\ c \in Calls /\ c # NoCall /\ c.stage = "sent"
      /\ Answered(c, d)
      /\ \A z \in CallSlots \ {s} : call'[t][z] = call[t][z]
      /\ \/ server' = server
         \/ Found(c) /\ server' = Stored(c)
      /\ \/ /\ d.stage = "ok" /\ doubt' = doubt
            /\ Found(c) /\ server' = Stored(c)
            /\ c.kind = "load" => d.answer = Listed
            /\ c.kind \in {"patch", "put", "add"} => d.answer[1] = server'[c.id]
         \/ d.stage = "failed" /\ doubt' = doubt /\ server' = server /\ ~Found(c)
         \/ d.stage = "failed" /\ doubt'[t] = doubt[t] \cup {c.id}
  BY ServeEffect DEF Tab
<1>2. d # NoCall /\ d.kind = c.kind /\ d.id = c.id /\ d.before = c.before /\ d.row = c.row
  BY <1>1, NothingAssumption DEF Answered
<1>3. Shape(c) /\ TypedServer
  BY <1>1 DEF Tab, Shaped, StockTyped, Agree
<1>4. /\ TypedServer'
      /\ \A p \in Products : c.kind = "load" \/ p # c.id =>
           /\ p \in DOMAIN server' <=> p \in DOMAIN server
           /\ p \in DOMAIN server => server'[p] = server[p]
      /\ c.kind = "load" => server' = server
  BY <1>1, <1>3, ServedServer
<1>5. doubt[t] \subseteq doubt'[t]
  BY <1>1
<1>6. c.kind \in {"patch", "put", "add", "delete", "load"}
  BY <1>1 DEF Calls, Kinds
<1>7. \A z \in CallSlots \ {s} : call[t][z] # NoCall =>
        c.kind # "load" /\ call[t][z].id # c.id /\ call[t][z].kind # "load"
  BY <1>1 DEF Tab, Exclusive, Alone
<1> HIDE DEF c, d
<1>8. CallsAgree(t)'
  <2> SUFFICES ASSUME NEW z \in CallSlots, call'[t][z] # NoCall, call'[t][z].kind # "load",
                      call'[t][z].id \notin doubt'[t]
               PROVE  Right(list[t], server', call'[t][z])
    BY <1>1 DEF CallsAgree
  <2>1. CASE z # s
    <3>1. call'[t][z] = call[t][z] /\ call[t][z].id # c.id
      BY <1>1, <1>7, <2>1
    <3>2. Right(list[t], server, call[t][z])
      BY <1>5, <3>1 DEF Agree, CallsAgree
    <3>3. call[t][z].id \in Products
      BY <3>1 DEF Tab, Shaped, Shape
    <3> QED BY <1>4, <3>1, <3>2, <3>3, RightElsewhere
  <2>2. CASE z = s
    <3>1. c.kind # "load" /\ c.id \notin doubt'[t] /\ c.id \notin doubt[t]
      BY <1>2, <1>5, <2>2 DEF d
    <3>2. Right(list[t], server, c)
      BY <1>1, <3>1 DEF c, Agree, CallsAgree
    <3>3. CASE d.stage = "ok"
      <4>1. /\ Found(c) /\ server' = Stored(c)
            /\ c.kind \in {"patch", "put", "add"} => d.answer[1] = server'[c.id]
        BY <1>1, <3>3
      <4>2. /\ c.kind \in {"patch", "put", "add"} => c.id \in DOMAIN server'
            /\ c.kind = "delete" => c.id \notin DOMAIN server'
        BY <1>1, <1>3, <4>1, StoredEffect
      <4>3. Right(list[t], server', d)
        BY <1>2, <3>2, <3>3, <4>1, <4>2 DEF Right
      <4> QED BY <2>2, <4>3 DEF d
    <3>4. CASE d.stage = "failed" /\ server' = server
      <4>1. Right(list[t], server', d)
        BY <1>1, <1>2, <3>2, <3>4 DEF Right
      <4> QED BY <2>2, <4>1 DEF d
    <3> QED BY <1>1, <3>1, <3>3, <3>4
  <2> QED BY <2>1, <2>2
<1>9. LoadAgrees(t)'
  <2> SUFFICES ASSUME NEW z \in CallSlots, call'[t][z] # NoCall, call'[t][z].kind = "load",
                      call'[t][z].stage = "ok"
               PROVE  call'[t][z].answer = Listed'
    BY DEF LoadAgrees
  <2>1. z = s
    BY <1>1, <1>7
  <2>2. c.kind = "load" /\ server' = server /\ d.answer = Listed
    BY <1>1, <1>2, <1>4, <2>1 DEF d
  <2> QED BY <2>1, <2>2, PageStays DEF d
<1>10. DialogAgrees(t)'
  <2> SUFFICES ASSUME dialog[t] # NoDialog, dialog[t].id \notin doubt'[t]
               PROVE  dialog[t].id \in DOMAIN server'
    BY <1>1 DEF DialogAgrees
  <2>1. dialog[t].id \in DOMAIN server
    BY <1>5 DEF Agree, DialogAgrees
  <2>2. dialog[t].id # c.id /\ dialog[t].id \in Products
    BY <1>1, <2>1, <1>3 DEF c, Tab, Edited, TypedServer
  <2> QED BY <1>4, <2>1, <2>2
<1>11. ListAgrees(t)'
  <2> SUFFICES ASSUME NEW p \in Products, p \notin doubt'[t], NonePending(t, p)'
               PROVE  Same(list[t], server', p)
    BY <1>1 DEF ListAgrees
  <2>1. p \notin doubt[t]
    BY <1>5
  <2>2. CASE c.kind = "load" \/ p # c.id
    <3>1. NonePending(t, p)
      <4> SUFFICES ASSUME NEW z \in CallSlots, call[t][z] # NoCall, call[t][z].id = p
                   PROVE  ~Pending(call[t][z])
        BY DEF NonePending
      <4>1. CASE z # s
        BY <1>1, <4>1 DEF NonePending
      <4>2. CASE z = s
        BY <1>1, <2>2, <4>2 DEF Pending, c
      <4> QED BY <4>1, <4>2
    <3>2. Same(list[t], server, p)
      BY <2>1, <3>1 DEF Agree, ListAgrees
    <3> QED BY <1>4, <2>2, <3>2, SameElsewhere
  <2>3. CASE c.kind # "load" /\ p = c.id
    <3>1. ~Pending(d)
      BY <1>2, <2>3 DEF NonePending, d
    <3>2. c.kind \in {"put", "add", "delete"} /\ d.stage # "ok"
      BY <1>2, <1>6, <2>3, <3>1 DEF Pending
    <3>3. server' = server
      BY <1>1, <2>3, <3>2
    <3>4. NonePending(t, p)
      <4> SUFFICES ASSUME NEW z \in CallSlots, call[t][z] # NoCall, call[t][z].id = p
                   PROVE  ~Pending(call[t][z])
        BY DEF NonePending
      <4>1. z = s
        BY <1>7, <2>3
      <4> QED BY <1>1, <3>2, <4>1 DEF Pending, c
    <3>5. Same(list[t], server, p)
      BY <2>1, <3>4 DEF Agree, ListAgrees
    <3> QED BY <3>3, <3>5
  <2> QED BY <2>2, <2>3
<1> QED BY <1>8, <1>9, <1>10, <1>11 DEF Agree

\* An answered tap, edit, addition or delete brings its product's row to what the
\* server has, and leaves every other.
LEMMA RowAgree ==
  ASSUME StockTyped, NEW t \in Tabs, Tab(t), Agree(t), NEW s \in CallSlots, Succeed(t, s),
         call[t][s].kind # "load"
  PROVE  Agree(t)'
<1> DEFINE c == call[t][s]
           kept == IF error'[t] = "shown" THEN {} ELSE DOMAIN list'[t]
<1>1. /\ UNCHANGED <<server, dialog, fresh>>
      /\ c \in Calls /\ c # NoCall /\ c.stage = "ok" /\ c.kind # "load"
      /\ AppliedTo(list[t], c, list'[t])
      /\ Ends(t, s, kept)
      /\ doubt'[t] = doubt[t]
  BY SucceedEffect
<1>2. TypedServer /\ Exclusive(t) /\ Shape(c)
  BY <1>1 DEF StockTyped, Tab, Shaped
<1>3. c.kind \in {"patch", "put", "add", "delete"}
  BY <1>1 DEF Calls, Kinds
<1>4. c.id \notin doubt[t] => Right(list[t], server, c)
  BY <1>1 DEF Agree, CallsAgree
<1> HIDE DEF kept
<1>5. /\ \A i \in DOMAIN list[t] : list[t][i].id # c.id => \E k \in DOMAIN list'[t] : list'[t][k] = list[t][i]
      /\ \A k \in DOMAIN list'[t] : list'[t][k].id # c.id => \E i \in DOMAIN list[t] : list'[t][k] = list[t][i]
  <2>1. CASE c.kind \in {"patch", "put"}
    BY <1>1, <1>2, <2>1 DEF AppliedTo, Shape
  <2>2. CASE c.kind = "add"
    BY <1>1, <1>2, <2>2 DEF AppliedTo, Shape
  <2>3. CASE c.kind = "delete"
    BY <1>1, <2>3 DEF AppliedTo
  <2> QED BY <1>3, <2>1, <2>2, <2>3
<1>6. /\ CallsAgree(t)' /\ LoadAgrees(t)'
      /\ \A p : NonePending(t, p)' /\ (p # c.id \/ ~Pending(c)) => NonePending(t, p)
  <2>1. \A i \in DOMAIN list[t] : list[t][i].id # c.id =>
          \E k \in DOMAIN list'[t] : list'[t][k].id = list[t][i].id
    BY <1>5
  <2> QED BY <1>1, <1>2, <2>1, EndsAgree
<1>7. ASSUME c.id \notin doubt[t] PROVE Same(list'[t], server, c.id)
  <2>1. CASE c.kind \in {"patch", "put"}
    <3>1. PICK j \in DOMAIN list[t] : list[t][j].id = c.id
      BY <1>4, <1>7, <2>1 DEF Right
    <3>2. list'[t][j] = server[c.id] /\ j \in DOMAIN list'[t] /\ c.id \in DOMAIN server
      BY <1>1, <1>4, <1>7, <2>1, <3>1 DEF Right, AppliedTo
    <3> QED BY <3>2 DEF Same
  <2>2. CASE c.kind = "add"
    <3>1. c.id \in DOMAIN server /\ c.answer[1] = server[c.id]
      BY <1>1, <1>4, <1>7, <2>2 DEF Right
    <3>2. \E k \in DOMAIN list'[t] : list'[t][k] = c.answer[1]
      BY <1>1, <2>2 DEF AppliedTo
    <3> QED BY <3>1, <3>2 DEF Same
  <2>3. CASE c.kind = "delete"
    <3>1. c.id \notin DOMAIN server
      BY <1>1, <1>4, <1>7, <2>3 DEF Right
    <3>2. \A k \in DOMAIN list'[t] : list'[t][k].id # c.id
      BY <1>1, <2>3 DEF AppliedTo
    <3> QED BY <3>1, <3>2 DEF Same
  <2> QED BY <1>3, <2>1, <2>2, <2>3
<1> HIDE DEF c
<1>8. ListAgrees(t)'
  <2> SUFFICES ASSUME NEW p \in Products \ doubt[t], NonePending(t, p)'
               PROVE  Same(list'[t], server, p)
    BY <1>1 DEF ListAgrees
  <2>1. CASE p = c.id
    BY <1>7, <2>1
  <2>2. CASE p # c.id
    <3>1. Same(list[t], server, p)
      BY <1>6, <2>2 DEF Agree, ListAgrees
    <3>2. \A i \in DOMAIN list[t] : list[t][i].id = p => \E k \in DOMAIN list'[t] : list'[t][k] = list[t][i]
      BY <1>5, <2>2
    <3>3. \A k \in DOMAIN list'[t] : list'[t][k].id = p => \E i \in DOMAIN list[t] : list[t][i].id = p
      BY <1>5, <2>2
    <3> QED BY <1>2, <3>1, <3>2, <3>3, SameThrough
  <2> QED BY <2>1, <2>2
<1>9. DialogAgrees(t)'
  BY <1>1 DEF Agree, DialogAgrees
<1> QED BY <1>6, <1>8, <1>9 DEF Agree

\* A load is alone: when it is answered, nothing is pending.
LEMMA LoadAgree ==
  ASSUME StockTyped, NEW t \in Tabs, Tab(t), Agree(t), NEW s \in CallSlots, Succeed(t, s),
         call[t][s].kind = "load"
  PROVE  Agree(t)'
<1> DEFINE c == call[t][s]
<1>1. /\ UNCHANGED <<server, dialog, fresh>>
      /\ c \in Calls /\ c # NoCall /\ c.stage = "ok" /\ c.kind = "load"
      /\ AppliedTo(list[t], c, list'[t])
      /\ Ends(t, s, IF error'[t] = "shown" THEN {} ELSE DOMAIN list'[t])
      /\ doubt'[t] = Unlisted
  BY SucceedEffect
<1>2. TypedServer
  BY DEF StockTyped
<1>3. \A z \in CallSlots \ {s} : call[t][z] = NoCall
  BY <1>1 DEF Tab, Exclusive, Alone
<1>4. \A z \in CallSlots : call'[t][z] = NoCall
  BY <1>1, <1>3 DEF Ends, Stays
<1>5. CallsAgree(t)' /\ LoadAgrees(t)'
  BY <1>4 DEF CallsAgree, LoadAgrees
<1>6. dialog[t] = NoDialog
  BY <1>1 DEF Tab, Edited, Alone
<1>7. DialogAgrees(t)'
  BY <1>1, <1>6 DEF DialogAgrees
<1>8. list'[t] = Listed
  BY <1>1 DEF AppliedTo, Agree, LoadAgrees
<1>9. ListAgrees(t)'
  BY <1>1, <1>2, <1>8, ListedAgrees DEF ListAgrees
<1> QED BY <1>5, <1>7, <1>9 DEF Agree

\* The catch puts back the row the server has.
LEMMA FailTapAgree ==
  ASSUME Orderly, StockTyped, NEW t \in Tabs, Tab(t), Agree(t), NEW s \in CallSlots, FailTap(t, s)
  PROVE  Agree(t)'
<1> DEFINE c == call[t][s]
<1>1. /\ UNCHANGED <<server, dialog, fresh, doubt>>
      /\ c \in Calls /\ c # NoCall /\ c.kind = "patch" /\ c.stage = "failed"
      /\ Ends(t, s, {})
      /\ DOMAIN list'[t] = DOMAIN list[t]
      /\ \A j \in DOMAIN list[t] : list'[t][j].id = list[t][j].id
      /\ \A j \in DOMAIN list[t] : list'[t][j] =
           IF list[t][j].id = c.id THEN c.before ELSE list[t][j]
  BY FailTapEffect
<1>2. c.id \notin doubt[t] => /\ c.id \in DOMAIN server /\ c.before = server[c.id]
                              /\ \E i \in DOMAIN list[t] : list[t][i].id = c.id
  BY <1>1 DEF Agree, CallsAgree, Right
<1>3. TypedServer /\ Exclusive(t)
  BY DEF StockTyped, Tab
<1>4. /\ CallsAgree(t)' /\ LoadAgrees(t)'
      /\ \A p : NonePending(t, p)' /\ (p # c.id \/ ~Pending(c)) => NonePending(t, p)
  <2>1. \A i \in DOMAIN list[t] : list[t][i].id # c.id =>
          \E k \in DOMAIN list'[t] : list'[t][k].id = list[t][i].id
    BY <1>1
  <2> QED BY <1>1, <1>3, <2>1, EndsAgree
<1> HIDE DEF c
<1>5. ListAgrees(t)'
  <2> SUFFICES ASSUME NEW p \in Products \ doubt[t], NonePending(t, p)'
               PROVE  Same(list'[t], server, p)
    BY <1>1 DEF ListAgrees
  <2>1. CASE p = c.id
    BY <1>1, <1>2, <2>1 DEF Same
  <2>2. CASE p # c.id
    <3>1. Same(list[t], server, p)
      BY <1>4, <2>2 DEF Agree, ListAgrees
    <3>2. \A i \in DOMAIN list[t] : list[t][i].id = p => \E k \in DOMAIN list'[t] : list'[t][k] = list[t][i]
      BY <1>1, <2>2
    <3> QED BY <1>1, <1>3, <3>1, <3>2, SameThrough
  <2> QED BY <2>1, <2>2
<1>6. DialogAgrees(t)'
  BY <1>1 DEF Agree, DialogAgrees
<1> QED BY <1>4, <1>5, <1>6 DEF Agree

\* A failed edit, addition, delete or reload left the server as it was, or in
\* doubt.
LEMMA FailOtherAgree ==
  ASSUME StockTyped, NEW t \in Tabs, Tab(t), Agree(t), NEW s \in CallSlots, FailOther(t, s)
  PROVE  Agree(t)'
<1> DEFINE c == call[t][s]
<1>1. /\ UNCHANGED <<server, dialog, fresh, doubt>>
      /\ c # NoCall /\ c.kind # "patch" /\ c.stage = "failed"
      /\ list'[t] = list[t]
      /\ Ends(t, s, {})
  BY FailOtherEffect
<1>2. ~Pending(c)
  BY <1>1 DEF Pending
<1>3. Exclusive(t)
  BY DEF Tab
<1>4. /\ CallsAgree(t)' /\ LoadAgrees(t)'
      /\ \A p : NonePending(t, p)' /\ (p # c.id \/ ~Pending(c)) => NonePending(t, p)
  BY <1>1, <1>3, EndsAgree
<1>5. ListAgrees(t)'
  BY <1>1, <1>2, <1>4 DEF Agree, ListAgrees
<1>6. DialogAgrees(t)'
  BY <1>1 DEF Agree, DialogAgrees
<1> QED BY <1>4, <1>5, <1>6 DEF Agree

-----------------------------------------------------------------------------
(* The invariant of one tab                                                *)

\* Every step of the tab keeps the agreement.
LEMMA AgreeStep ==
  ASSUME Orderly, StockTyped, NEW t \in Tabs, Tab(t), Agree(t), TabStep(t)
  PROVE  Agree(t)'
<1>1. ASSUME NEW i \in DOMAIN list[t], NEW up \in BOOLEAN, Tap(t, i, up) PROVE Agree(t)'
  BY <1>1, TapAgree
<1>2. ASSUME NEW i \in DOMAIN list[t], OpenEdit(t, i) PROVE Agree(t)'
  BY <1>2, OpenAgree
<1>3. ASSUME NEW i \in DOMAIN list[t], Delete(t, i) PROVE Agree(t)'
  BY <1>3, DeleteAgree
<1>4. ASSUME NEW i \in DOMAIN list[t], Scroll(t, i) PROVE Agree(t)'
  BY <1>4, ScrollAgree
<1>5. ASSUME NEW p \in Products, NEW stock \in InitialStocks \ {Unknown}, Add(t, p, stock)
      PROVE  Agree(t)'
  BY <1>5, AddAgree
<1>6. ASSUME CancelEdit(t) \/ SaveEdit(t) \/ Reload(t) PROVE Agree(t)'
  BY <1>6, CancelAgree, SaveAgree, ReloadAgree
<1>7. ASSUME NEW s \in CallSlots, Serve(t, s) \/ Refuse(t, s) PROVE Agree(t)'
  BY <1>7, ServeAgree, RefuseAgree
<1>8. ASSUME NEW s \in CallSlots, Succeed(t, s) PROVE Agree(t)'
  BY <1>8, RowAgree, LoadAgree
<1>9. ASSUME NEW s \in CallSlots, FailTap(t, s) \/ FailOther(t, s) PROVE Agree(t)'
  BY <1>9, FailTapAgree, FailOtherAgree
<1> QED BY <1>1, <1>2, <1>3, <1>4, <1>5, <1>6, <1>7, <1>8, <1>9 DEF TabStep

\* The list starts as the server's first page.
LEMMA AgreeInit ==
  ASSUME NEW t \in Tabs, StockInit
  PROVE  Agree(t)
<1>1. TypedServer
  BY StockSyncAssumption DEF StockInit, TypedServer
<1>2. /\ list[t] = Listed /\ dialog[t] = NoDialog /\ doubt[t] = Unlisted
      /\ \A s \in CallSlots : call[t][s] = NoCall
  BY DEF StockInit
<1>3. ListAgrees(t)
  BY <1>1, <1>2, ListedAgrees DEF ListAgrees
<1> QED BY <1>2, <1>3 DEF Agree, CallsAgree, LoadAgrees, DialogAgrees

AllAgree == \A t \in Tabs : Agree(t)

\* With one tab, every step is its own.
LEMMA AllAgreeStep ==
  ASSUME Orderly, OneTab, StockInv, AllAgree, [StockNext]_stockVars
  PROVE  AllAgree'
<1>1. CASE UNCHANGED stockVars
  <2>1. UNCHANGED <<server, list, dialog, call, doubt>>
    BY <1>1 DEF stockVars
  <2> QED BY <2>1, PageStays DEF AllAgree, Agree, ListAgrees, NonePending, CallsAgree, LoadAgrees,
                               DialogAgrees
<1>2. CASE StockNext
  <2>1. PICK t \in Tabs : TabStep(t)
    BY <1>2 DEF StockNext, TabStep
  <2>2. Agree(t)'
    BY <2>1, AgreeStep DEF StockInv, TabInv, AllAgree
  <2>3. \A u \in Tabs : u = t
    BY DEF OneTab
  <2> QED BY <2>2, <2>3 DEF AllAgree
<1> QED BY <1>1, <1>2

\* So list and server agree in every reachable state.
LEMMA OneTabInvariant ==
  ASSUME Orderly, OneTab
  PROVE  StockSpec => [](StockInv /\ AllAgree)
<1>1. StockInit => StockInv /\ AllAgree
  BY StockInvInit, AgreeInit DEF AllAgree
<1>2. StockInv /\ AllAgree /\ [StockNext]_stockVars => (StockInv /\ AllAgree)'
  BY AllAgreeStep, StockInvStep
<1> QED BY <1>1, <1>2, PTL DEF StockSpec

\* SettledShowsServer holds in every reachable state of one copy of the app:
\* whatever was tapped, edited, added, deleted, refused or reverted, and in
\* whichever order the answers came, a list at rest has the server's rows and no
\* others, but for the products a lost answer or a full page left in doubt.
THEOREM SettledIsServer ==
  ASSUME Orderly, OneTab
  PROVE  StockSpec => []SettledShowsServer
<1>1. StockInv /\ AllAgree => SettledShowsServer
  <2> SUFFICES ASSUME StockInv, AllAgree, NEW t \in Tabs, InFlight(t) = {}
               PROVE  {r \in Range(list[t]) : r.id \notin doubt[t]}
                        = {server[p] : p \in DOMAIN server \ doubt[t]}
    BY DEF SettledShowsServer
  <2>1. list[t] \in Seq(Rows) /\ Once(list[t]) /\ TypedServer
    BY DEF StockInv, StockTyped, TabInv, Tab, Drawn
  <2>2. \A p \in Products \ doubt[t] : Same(list[t], server, p)
    BY DEF AllAgree, Agree, ListAgrees, NonePending, InFlight
  <2>3. ASSUME NEW i \in DOMAIN list[t], list[t][i].id \notin doubt[t]
        PROVE  list[t][i].id \in DOMAIN server /\ server[list[t][i].id] = list[t][i]
    <3>1. list[t][i].id \in Products \ doubt[t]
      BY <2>1, <2>3, RowIds
    <3> QED BY <2>1, <2>2, <3>1, OwnRow
  <2>4. ASSUME NEW p \in DOMAIN server \ doubt[t]
        PROVE  \E i \in DOMAIN list[t] : list[t][i] = server[p]
    BY <2>1, <2>2 DEF Same, TypedServer
  <2>5. Range(list[t]) = {list[t][i] : i \in DOMAIN list[t]}
    BY DEF Range
  <2>6. \A p \in DOMAIN server : server[p].id = p
    BY <2>1 DEF TypedServer
  <2> QED BY <2>3, <2>4, <2>5, <2>6
<1> QED BY <1>1, OneTabInvariant, PTL

-----------------------------------------------------------------------------
(***************************************************************************)
(* The session                                                             *)
(* For every number of tokens, nonces and writes in flight.                *)
(***************************************************************************)
USE NoneAssumption

-----------------------------------------------------------------------------
(* The server's part                                                       *)

ServerTyped ==
  /\ offered \cup gone \subseteq Nonces /\ signed \subseteq Nonces
  /\ live \cup ended \subseteq Tokens

\* What the app may rely on: what was offered or granted stays so.
LEMMA ServerStep ==
  ASSUME TypeOK, live \cap ended = {}, Next
  PROVE  /\ ServerTyped' /\ (live \cap ended = {})'
         /\ offered \cup gone \subseteq (offered \cup gone)'
         /\ live \cup ended \subseteq (live \cup ended)'
         /\ ended \subseteq ended'
         /\ \A t \in ended : t \notin live'
<1> DEFINE Sound == /\ ServerTyped' /\ (live \cap ended = {})'
                    /\ offered \cup gone \subseteq (offered \cup gone)'
                    /\ live \cup ended \subseteq (live \cup ended)'
                    /\ ended \subseteq ended'
                    /\ \A t \in ended : t \notin live'
<1>0. ServerTyped /\ live \cap ended = {}
  BY DEF TypeOK, ServerTyped
<1>1. CASE UNCHANGED serverVars
  BY <1>0, <1>1 DEF ServerTyped, serverVars
<1>2. ASSUME NEW n \in Nonces, TakeChallenge(n) PROVE Sound
  BY <1>0, <1>2 DEF ServerTyped, TakeChallenge, Server!Offer
<1>3. CASE SignChallenge
  <2>1. signed' = signed \cup {signIn.nonce} /\ signIn.nonce \in offered \cup gone
        /\ UNCHANGED <<offered, gone, live, ended>>
    BY <1>3 DEF SignChallenge, Server!Sign
  <2>. QED  BY <1>0, <2>1 DEF ServerTyped
<1>4. ASSUME NEW t \in Tokens, Verified(t) PROVE Sound
  <2>1. /\ signIn.nonce \in offered /\ t \notin live \cup ended
        /\ offered' = offered \ {signIn.nonce} /\ gone' = gone \cup {signIn.nonce}
        /\ live' = live \cup {t} /\ UNCHANGED <<signed, ended>>
    BY <1>4 DEF Verified, Server!Grant
  <2>. QED  BY <1>0, <2>1 DEF ServerTyped
<1>5. CASE Lapse
  <2>1. PICK T \in SUBSET Tokens : Server!Lapse({}, T, {})
    BY <1>5 DEF Lapse
  <2>. QED  BY <1>0, <2>1 DEF ServerTyped, Server!Lapse
<1>6. \/ UNCHANGED serverVars
      \/ \E n \in Nonces : TakeChallenge(n)
      \/ SignChallenge
      \/ \E t \in Tokens : Verified(t)
      \/ Lapse
  BY DEF Next, OpenGate, CheckStored, Leave, Redirect, Relaunch, StartSignIn, PersistToken,
         FinishSignIn, FailSignIn, StartWrite, ServeWrite, EndWrite, ForgetToken, ReportExpiry
<1>. QED  BY <1>1, <1>2, <1>3, <1>4, <1>5, <1>6

-----------------------------------------------------------------------------
(* Type correctness                                                        *)

\* A sign-in keeps its type as the server's sets grow.
LEMMA SignInKept ==
  ASSUME signIn \in SignInState, offered \cup gone \subseteq (offered \cup gone)',
         live \cup ended \subseteq (live \cup ended)'
  PROVE  /\ signIn' = signIn => signIn' \in SignInState'
         /\ signIn' = Unmounted => signIn' \in SignInState' /\ (signIn' # Idle => ~signIn'.mounted)
  BY DEF SignInState, Unmounted, Idle

\* So does a table of writes.
LEMMA WriteKept ==
  ASSUME write \in [Slots -> WriteState], live \cup ended \subseteq (live \cup ended)',
         write' = write
  PROVE  write' \in [Slots -> WriteState']
  BY DEF WriteState

\* A refused write raises one of the two flags, or none.
LEMMA ReportersTyped ==
  \A kind \in DOMAIN Reporters : Reporters[kind] \subseteq {"admin", "content"}
  BY DEF Reporters

\* No step takes the app or the server out of its type.
LEMMA TypeStep == TypeOK /\ live \cap ended = {} /\ [Next]_vars => TypeOK'
<1> SUFFICES ASSUME TypeOK, live \cap ended = {}, [Next]_vars PROVE TypeOK'
  OBVIOUS
<1> USE DEF serverVars
<1>0. CASE UNCHANGED vars
  BY <1>0 DEF vars, TypeOK, SignInState, WriteState
<1>n. CASE Next
  <2>s. /\ ServerTyped'
        /\ offered \cup gone \subseteq (offered \cup gone)'
        /\ live \cup ended \subseteq (live \cup ended)'
    BY <1>n, ServerStep
  <2> USE <2>s, SignInKept, WriteKept
  <2>1. CASE OpenGate
    BY <2>1 DEF OpenGate, TypeOK, ServerTyped
  <2>2. CASE CheckStored
    BY <2>2 DEF CheckStored, EnterShell, TypeOK, ServerTyped
  <2>3. CASE Leave
    BY <2>3 DEF Leave, TypeOK, ServerTyped
  <2>4. CASE Redirect
    BY <2>4 DEF Redirect, TypeOK, ServerTyped
  <2>5. CASE Relaunch
    BY <2>5 DEF Relaunch, TypeOK, ServerTyped, SignInState, WriteState
  <2>6. CASE StartSignIn
    BY <2>6 DEF StartSignIn, TypeOK, ServerTyped, SignInState, Idle
  <2>7. CASE SignChallenge
    BY <2>7 DEF SignChallenge, TypeOK, ServerTyped, SignInState, Idle
  <2>8. CASE PersistToken
    BY <2>8 DEF PersistToken, TypeOK, ServerTyped, SignInState, Idle
  <2>9. CASE FinishSignIn
    BY <2>9 DEF FinishSignIn, EnterShell, TypeOK, ServerTyped, SignInState
  <2>10. CASE FailSignIn
    BY <2>10 DEF FailSignIn, TypeOK, ServerTyped, SignInState
  <2>11. ASSUME NEW n \in Nonces, TakeChallenge(n) PROVE TypeOK'
    BY <2>11 DEF TakeChallenge, Server!Offer, TypeOK, ServerTyped, SignInState, Idle
  <2>12. ASSUME NEW t \in Tokens, Verified(t) PROVE TypeOK'
    BY <2>12 DEF Verified, Server!Grant, TypeOK, ServerTyped, SignInState, Idle
  <2>13. ASSUME NEW s \in Slots, NEW kind \in DOMAIN Reporters, StartWrite(s, kind) PROVE TypeOK'
    BY <2>13 DEF StartWrite, TypeOK, ServerTyped, WriteState
  <2>14. ASSUME NEW s \in Slots, ServeWrite(s) PROVE TypeOK'
    BY <2>14 DEF ServeWrite, TypeOK, ServerTyped, WriteState, Idle
  <2>15. ASSUME NEW s \in Slots, EndWrite(s) PROVE TypeOK'
    BY <2>15 DEF EndWrite, TypeOK, ServerTyped, WriteState
  <2>16. ASSUME NEW s \in Slots, ForgetToken(s) PROVE TypeOK'
    BY <2>16 DEF ForgetToken, TypeOK, ServerTyped, WriteState, Idle
  <2>17. ASSUME NEW s \in Slots, ReportExpiry(s) PROVE TypeOK'
    <3>1. write[s].kind \in DOMAIN Reporters
      BY <2>17 DEF ReportExpiry, TypeOK, WriteState, Idle
    <3>2. flagged' \subseteq {"admin", "content"}
      BY <2>17, <3>1, ReportersTyped DEF ReportExpiry, TypeOK
    <3>3. refused' \in BOOLEAN
      BY <2>17 DEF ReportExpiry, TypeOK
    <3>4. write' \in [Slots -> WriteState']
      BY <2>17 DEF ReportExpiry, TypeOK, WriteState
    <3>. QED  BY <2>17, <3>2, <3>3, <3>4 DEF ReportExpiry, TypeOK, ServerTyped
  <2>18. CASE Lapse
    BY <2>18 DEF Lapse, clientVars, TypeOK, ServerTyped
  <2>. QED
    BY <1>n, <2>1, <2>2, <2>3, <2>4, <2>5, <2>6, <2>7, <2>8, <2>9, <2>10, <2>11, <2>12, <2>13,
       <2>14, <2>15, <2>16, <2>17, <2>18 DEF Next
<1>. QED  BY <1>0, <1>n

-----------------------------------------------------------------------------
(* The inductive invariant                                                 *)

\* An app just started has stored, sent and been refused nothing.
LEMMA InitIInv == Init => IInv
<1> SUFFICES ASSUME Init PROVE IInv
  OBVIOUS
<1>1. signIn \in SignInState /\ write \in [Slots -> WriteState]
  BY DEF Init, SignInState, WriteState
<1>2. TypeOK
  BY <1>1 DEF Init, Server!Init, TypeOK
<1>3. RefusedHaveEnded /\ GrantIsFresh
  BY DEF Init, Server!Init, RefusedHaveEnded, GrantIsFresh, Idle
<1>4. DeadTokenNotResent /\ NoGateLoop
  BY DEF Init, DeadTokenNotResent, NoGateLoop
<1>. QED  BY <1>2, <1>3, <1>4 DEF IInv

\* A 401 is about a token that ended: the server says so when it serves the
\* write, and takes nothing back later.
LEMMA RefusedStep == IInv /\ [Next]_vars => RefusedHaveEnded'
<1> SUFFICES ASSUME IInv, [Next]_vars PROVE RefusedHaveEnded'
  OBVIOUS
<1> USE DEF IInv, RefusedHaveEnded
<1>0. CASE UNCHANGED vars
  BY <1>0 DEF vars
<1>n. CASE Next
  <2>s. /\ (live \cap ended = {})' /\ ended \subseteq ended'
        /\ \A t \in ended : t \notin live'
    BY <1>n, ServerStep
  <2>t. \A s \in Slots : write[s].step \in {"refused", "expired"} => write[s].token \notin live'
    <3> SUFFICES ASSUME NEW s \in Slots, write[s].step \in {"refused", "expired"}
                 PROVE  write[s].token \notin live'
      OBVIOUS
    <3>1. write[s].token \in ended \cup {None}
      BY DEF TypeOK, WriteState, Idle
    <3>2. None \notin live'
      BY <1>n, ServerStep DEF ServerTyped
    <3>. QED  BY <3>1, <3>2, <2>s
  <2>1. ASSUME NEW s \in Slots, ForgetToken(s) PROVE RefusedHaveEnded'
    <3>1. write[s].token \in ended \cup {None}
      BY <2>1 DEF ForgetToken, TypeOK, WriteState, Idle
    <3>2. write' = [write EXCEPT ![s] = [write[s] EXCEPT !.step = "expired"]]
      BY <2>1 DEF ForgetToken
    <3>3. \A r \in Slots : write'[r].step \in {"refused", "expired"} =>
             write[r].step \in {"refused", "expired"} /\ write'[r].token = write[r].token
      BY <2>1, <3>2 DEF ForgetToken, TypeOK, WriteState, Idle
    <3>. QED  BY <2>1, <2>s, <2>t, <3>1, <3>3 DEF ForgetToken
  <2>2. ASSUME NEW s \in Slots, ServeWrite(s) PROVE RefusedHaveEnded'
    <3>1. write' = [write EXCEPT ![s] = [write[s] EXCEPT
                      !.step = IF write[s].token \in live THEN "done" ELSE "refused"]]
      BY <2>2 DEF ServeWrite
    <3>2. \A r \in Slots : write'[r].step \in {"refused", "expired"} => write'[r].token \notin live
      BY <2>2, <3>1 DEF ServeWrite, TypeOK, WriteState, Idle
    <3>. QED  BY <2>2, <2>s, <3>2 DEF ServeWrite, serverVars
  <2>3. ASSUME NEW s \in Slots, NEW kind \in DOMAIN Reporters, StartWrite(s, kind)
        PROVE RefusedHaveEnded'
    BY <2>3, <2>s, <2>t DEF StartWrite, TypeOK
  <2>4. ASSUME NEW s \in Slots, EndWrite(s) \/ ReportExpiry(s) PROVE RefusedHaveEnded'
    BY <2>4, <2>s, <2>t DEF EndWrite, ReportExpiry, TypeOK, Idle
  <2>5. CASE Relaunch
    BY <2>5, <2>s DEF Relaunch, TypeOK, Idle
  <2>6. CASE UNCHANGED <<write, forgotten>>
    BY <2>6, <2>s, <2>t
  <2>. QED
    BY <1>n, <2>1, <2>2, <2>3, <2>4, <2>5, <2>6
    DEF Next, OpenGate, CheckStored, Leave, Redirect, StartSignIn, SignChallenge, PersistToken,
        FinishSignIn, FailSignIn, TakeChallenge, Verified, Lapse, clientVars
<1>. QED  BY <1>0, <1>n

\* A token just granted is new to the app: everything stored, sent or
\* forgotten before was granted before.
LEMMA FreshStep == IInv /\ [Next]_vars => GrantIsFresh'
<1> SUFFICES ASSUME IInv, [Next]_vars PROVE GrantIsFresh'
  OBVIOUS
<1> USE DEF IInv, GrantIsFresh
<1>0. CASE UNCHANGED vars
  BY <1>0 DEF vars
<1>1. ASSUME NEW t \in Tokens, Verified(t) PROVE GrantIsFresh'
  <2>1. t \notin live \cup ended
    BY <1>1 DEF Verified, Server!Grant
  <2>2. \A s \in Slots : write[s] # Idle => write[s].token # t
    BY <2>1 DEF TypeOK, WriteState
  <2>. QED  BY <1>1, <2>1, <2>2 DEF Verified, TypeOK, RefusedHaveEnded
<1>2. ASSUME NEW s \in Slots, ForgetToken(s) PROVE GrantIsFresh'
  <2>1. write' = [write EXCEPT ![s] = [write[s] EXCEPT !.step = "expired"]] /\ write[s] # Idle
    BY <1>2 DEF ForgetToken, Idle
  <2>2. \A r \in Slots : write'[r] # Idle => write[r] # Idle /\ write'[r].token = write[r].token
    BY <2>1 DEF TypeOK, WriteState
  <2>3. signIn.step = "granted" => signIn.token # None
    BY DEF TypeOK, SignInState, Idle
  <2>. QED  BY <1>2, <2>1, <2>2, <2>3 DEF ForgetToken
<1>3. ASSUME NEW s \in Slots, ServeWrite(s) PROVE GrantIsFresh'
  <2>1. write' = [write EXCEPT ![s] = [write[s] EXCEPT
                    !.step = IF write[s].token \in live THEN "done" ELSE "refused"]] /\ write[s] # Idle
    BY <1>3 DEF ServeWrite, Idle
  <2>2. \A r \in Slots : write'[r] # Idle => write[r] # Idle /\ write'[r].token = write[r].token
    BY <2>1 DEF TypeOK, WriteState
  <2>. QED  BY <1>3, <2>2 DEF ServeWrite
<1>4. ASSUME NEW s \in Slots, NEW kind \in DOMAIN Reporters, StartWrite(s, kind) PROVE GrantIsFresh'
  <2>1. write' = [write EXCEPT ![s] = [step |-> "sent", kind |-> kind, token |-> stored]]
    BY <1>4 DEF StartWrite
  <2>2. ASSUME NEW r \in Slots
        PROVE  write'[r].token = stored \/ write'[r] = write[r]
    <3>1. CASE r = s
      BY <2>1, <3>1 DEF TypeOK
    <3>2. CASE r # s
      BY <2>1, <3>2 DEF TypeOK
    <3>. QED  BY <3>1, <3>2
  <2>3. UNCHANGED <<stored, forgotten, signIn>>
    BY <1>4 DEF StartWrite
  <2>. QED  BY <2>2, <2>3
<1>5. ASSUME NEW s \in Slots, EndWrite(s) \/ ReportExpiry(s) PROVE GrantIsFresh'
  BY <1>5 DEF EndWrite, ReportExpiry, TypeOK
<1>6. CASE UNCHANGED <<stored, write, forgotten, signIn>>
  BY <1>6
<1>7. CASE signIn'.step # "granted"
  BY <1>7
<1>8. CASE UNCHANGED <<stored, write, forgotten>> /\ signIn' = Unmounted
  BY <1>8 DEF Unmounted, TypeOK, SignInState, Idle
<1>9. CASE Relaunch \/ StartSignIn \/ PersistToken \/ FinishSignIn \/ FailSignIn \/ SignChallenge
            \/ \E n \in Nonces : TakeChallenge(n)
  BY <1>7, <1>9 DEF Relaunch, StartSignIn, PersistToken, FinishSignIn, FailSignIn, SignChallenge,
                    TakeChallenge, TypeOK, SignInState, Idle
<1>. QED
  BY <1>0, <1>1, <1>2, <1>3, <1>4, <1>5, <1>6, <1>8, <1>9
  DEF Next, OpenGate, CheckStored, Leave, Redirect, Lapse, clientVars

\* What a step stores was not refused: nothing, or a token just granted.
LEMMA StoredStep == IInv /\ [Next]_vars => DeadTokenNotResent'
<1> SUFFICES ASSUME IInv, [Next]_vars PROVE DeadTokenNotResent'
  OBVIOUS
<1> USE DEF IInv, DeadTokenNotResent
<1>1. CASE PersistToken
  BY <1>1 DEF PersistToken, GrantIsFresh
<1>2. ASSUME NEW s \in Slots, ForgetToken(s) PROVE DeadTokenNotResent'
  <2>1. None \notin forgotten
    BY DEF TypeOK
  <2>. QED  BY <1>2, <2>1 DEF ForgetToken
<1>3. CASE UNCHANGED <<stored, forgotten>>
  BY <1>3
<1>. QED
  BY <1>1, <1>2, <1>3
  DEF Next, vars, OpenGate, CheckStored, Leave, Redirect, Relaunch, StartSignIn, SignChallenge,
      FinishSignIn, FailSignIn, TakeChallenge, Verified, StartWrite, ServeWrite, EndWrite,
      ReportExpiry, Lapse, clientVars

\* A flag in an open shell was set since it opened.
LEMMA LoopStep == IInv /\ [Next]_vars => NoGateLoop'
<1> SUFFICES ASSUME IInv, [Next]_vars PROVE NoGateLoop'
  OBVIOUS
<1> USE DEF IInv, NoGateLoop
<1>1. CASE CheckStored \/ FinishSignIn
  BY <1>1 DEF CheckStored, FinishSignIn, EnterShell
<1>2. ASSUME NEW s \in Slots, ReportExpiry(s) PROVE NoGateLoop'
  BY <1>2 DEF ReportExpiry
<1>3. ASSUME NEW s \in Slots, NEW kind \in DOMAIN Reporters, StartWrite(s, kind) PROVE NoGateLoop'
  BY <1>3 DEF StartWrite
<1>4. CASE OpenGate \/ Leave \/ Redirect \/ Relaunch
  BY <1>4 DEF OpenGate, Leave, Redirect, Relaunch
<1>5. CASE UNCHANGED <<screen, flagged, refused>>
  BY <1>5
<1>. QED
  BY <1>1, <1>2, <1>3, <1>4, <1>5
  DEF Next, vars, StartSignIn, SignChallenge, PersistToken, FailSignIn, TakeChallenge, Verified,
      ServeWrite, EndWrite, ForgetToken, Lapse, clientVars

\* The parts of IInv carry each other through every step.
LEMMA Inductive == IInv /\ [Next]_vars => IInv'
<1> SUFFICES ASSUME IInv, [Next]_vars PROVE IInv'
  OBVIOUS
<1>1. TypeOK'
  BY TypeStep DEF IInv, RefusedHaveEnded
<1>. QED
  BY <1>1, RefusedStep, FreshStep, StoredStep, LoopStep DEF IInv

-----------------------------------------------------------------------------
(* The theorems                                                            *)

\* IInv holds in every reachable state.
THEOREM Invariance == Spec => []IInv
  BY InitIInv, Inductive, PTL DEF Spec

\* The app and the server keep their types, and the app only ever holds or
\* sends tokens the server granted.
THEOREM TypeCorrect == Spec => []TypeOK
<1>1. IInv => TypeOK
  BY DEF IInv
<1>. QED  BY <1>1, Invariance, PTL

\* A token that came back with a 401 is never stored, and so never sent, again
\* (detectAdminSessionExpiry against sign-ins, late answers and relaunches).
THEOREM DeadStaysDead == Spec => []DeadTokenNotResent
<1>1. IInv => DeadTokenNotResent
  BY DEF IInv
<1>. QED  BY <1>1, Invariance, PTL

\* A freshly opened shell is not sent back by a flag of an earlier one
\* (AdminShell.initState).
THEOREM LoopFree == Spec => []NoGateLoop
<1>1. IInv => NoGateLoop
  BY DEF IInv
<1>. QED  BY <1>1, Invariance, PTL

\* A live token is replaced by a newer one, or dropped by the late 401 of a
\* write that did not carry it, and in no other way.
THEOREM GoodKept == Spec => GoodTokenKept
<1> DEFINE Kept == stored' # stored /\ stored \in live =>
                     \/ signIn.step = "granted" /\ stored' = signIn.token
                     \/ \E s \in Slots : write[s].step = "refused" /\ write[s].token # stored
<1>1. IInv /\ [Next]_vars => [Kept]_vars
  <2> SUFFICES ASSUME IInv, Next PROVE Kept
    OBVIOUS
  <2>1. CASE PersistToken
    BY <2>1 DEF PersistToken
  <2>2. ASSUME NEW s \in Slots, ForgetToken(s) PROVE Kept
    BY <2>2 DEF ForgetToken, IInv, RefusedHaveEnded
  <2>3. CASE UNCHANGED stored
    BY <2>3
  <2>. QED
    BY <2>1, <2>2, <2>3
    DEF Next, OpenGate, CheckStored, Leave, Redirect, Relaunch, StartSignIn, SignChallenge,
        FinishSignIn, FailSignIn, TakeChallenge, Verified, StartWrite, ServeWrite, EndWrite,
        ReportExpiry, Lapse, clientVars
<1>. QED  BY <1>1, Invariance, PTL DEF Spec, GoodTokenKept

=============================================================================
