--------------------------- MODULE FromaSequences ---------------------------
(***************************************************************************)
(* What the list operations of the specifications do to a sequence without *)
(* repetition: the lemmas behind the proofs about the components.          *)
(*                                                                         *)
(* The library's induction theorems are out of the provers' reach.  Least  *)
(* stands in for them: a set of numbers up to N that is not empty has a    *)
(* least element, so the first counterexample can be looked at.            *)
(*                                                                         *)
(* Lists in the order of a time, and the arithmetic of the wrapping times  *)
(* that the code compares, come at the end.                                *)
(***************************************************************************)
EXTENDS Integers, SequencesExt, FromaWithout, TLAPS, SequenceTheorems,
        FiniteSetTheorems, WellFoundedInduction

(* The elements of a sequence are its entries.                              *)
LEMMA EntriesOf ==
  ASSUME NEW S, NEW s \in Seq(S)
  PROVE  /\ ToSet(s) = {s[n] : n \in 1 .. Len(s)} /\ ToSet(s) \subseteq S
         /\ DOMAIN s = 1 .. Len(s) /\ Len(s) \in Nat
BY DEF ToSet

(* Only the empty sequence has none.                                        *)
LEMMA NoEntries ==
  ASSUME NEW S, NEW s \in Seq(S)
  PROVE  s = <<>> <=> ToSet(s) = {}
<1>1. ASSUME s # <<>> PROVE s[1] \in ToSet(s)
  <2>1. Len(s) \in Nat \ {0}
    BY <1>1, EmptySeq
  <2> QED
    BY <2>1, EntriesOf
<1> QED
  BY <1>1 DEF ToSet

(* The place of an element is one.                                          *)
LEMMA PlaceOf ==
  ASSUME NEW S, NEW s \in Seq(S), NEW x \in ToSet(s)
  PROVE  LET n == CHOOSE n \in DOMAIN s : s[n] = x
         IN  n \in 1 .. Len(s) /\ s[n] = x
BY DEF ToSet

(* Deleting entry n moves the later ones up.                                *)
LEMMA RemoveEntries ==
  ASSUME NEW S, NEW s \in Seq(S), NEW n \in 1 .. Len(s)
  PROVE  /\ RemoveAt(s, n) \in Seq(S)
         /\ Len(RemoveAt(s, n)) = Len(s) - 1
         /\ \A m \in 1 .. Len(s) - 1 :
              RemoveAt(s, n)[m] = IF m < n THEN s[m] ELSE s[m + 1]
<1> DEFINE a == SubSeq(s, 1, n - 1)
           b == SubSeq(s, n + 1, Len(s))
<1>1. /\ a \in Seq(S) /\ Len(a) = n - 1
      /\ \A i \in 1 .. n - 1 : a[i] = s[i]
  <2>1. \A i \in 1 .. n - 1 : s[i] \in S
    OBVIOUS
  <2> QED
    BY <2>1, SubSeqProperties
<1>2. /\ b \in Seq(S) /\ Len(b) = Len(s) - n
      /\ \A i \in 1 .. Len(s) - n : b[i] = s[n + i]
  <2>1. \A i \in n + 1 .. Len(s) : s[i] \in S
    OBVIOUS
  <2> QED
    BY <2>1, SubSeqProperties
<1>3. RemoveAt(s, n) = a \o b
  BY DEF RemoveAt
<1> HIDE DEF a, b
<1>4. /\ a \o b \in Seq(S) /\ Len(a \o b) = Len(s) - 1
      /\ \A m \in 1 .. Len(s) - 1 :
           (a \o b)[m] = IF m <= n - 1 THEN a[m] ELSE b[m - (n - 1)]
  BY <1>1, <1>2, ConcatProperties
<1>5. ASSUME NEW m \in 1 .. Len(s) - 1
      PROVE  RemoveAt(s, n)[m] = IF m < n THEN s[m] ELSE s[m + 1]
  BY <1>1, <1>2, <1>3, <1>4
<1> QED
  BY <1>3, <1>4, <1>5

(* Inserting x behind the first n entries moves the later ones down.        *)
LEMMA InsertEntries ==
  ASSUME NEW S, NEW s \in Seq(S), NEW n \in 0 .. Len(s), NEW x \in S
  PROVE  /\ InsertAt(s, n + 1, x) \in Seq(S)
         /\ Len(InsertAt(s, n + 1, x)) = Len(s) + 1
         /\ \A m \in 1 .. Len(s) + 1 :
              InsertAt(s, n + 1, x)[m] = IF m <= n THEN s[m]
                                         ELSE IF m = n + 1 THEN x
                                         ELSE s[m - 1]
<1> DEFINE a == SubSeq(s, 1, n)
           b == SubSeq(s, n + 1, Len(s))
           c == a \o <<x>>
<1>1. /\ a \in Seq(S) /\ Len(a) = n
      /\ \A i \in 1 .. n : a[i] = s[i]
  <2>1. \A i \in 1 .. n : s[i] \in S
    OBVIOUS
  <2> QED
    BY <2>1, SubSeqProperties
<1>2. /\ b \in Seq(S) /\ Len(b) = Len(s) - n
      /\ \A i \in 1 .. Len(s) - n : b[i] = s[n + i]
  <2>1. \A i \in n + 1 .. Len(s) : s[i] \in S
    OBVIOUS
  <2> QED
    BY <2>1, SubSeqProperties
<1>3. InsertAt(s, n + 1, x) = c \o b
  <2>1. (n + 1) - 1 = n
    OBVIOUS
  <2> QED
    BY <2>1, Zenon DEF InsertAt
<1>4. <<x>> \in Seq(S) /\ Len(<<x>>) = 1 /\ <<x>>[1] = x
  OBVIOUS
<1> HIDE DEF a, b
<1>5. /\ c \in Seq(S) /\ Len(c) = n + 1
      /\ \A i \in 1 .. n + 1 : c[i] = IF i <= n THEN s[i] ELSE x
  <2>1. /\ c \in Seq(S) /\ Len(c) = n + 1
        /\ \A i \in 1 .. n + 1 : c[i] = IF i <= n THEN a[i] ELSE <<x>>[i - n]
    BY <1>1, <1>4, ConcatProperties
  <2> QED
    BY <1>1, <1>4, <2>1
<1> HIDE DEF c
<1>6. /\ c \o b \in Seq(S) /\ Len(c \o b) = Len(s) + 1
      /\ \A m \in 1 .. Len(s) + 1 :
           (c \o b)[m] = IF m <= n + 1 THEN c[m] ELSE b[m - (n + 1)]
  BY <1>2, <1>5, ConcatProperties
<1>7. ASSUME NEW m \in 1 .. Len(s) + 1
      PROVE  InsertAt(s, n + 1, x)[m] = IF m <= n THEN s[m]
                                        ELSE IF m = n + 1 THEN x ELSE s[m - 1]
  <2>1. CASE m <= n + 1
    BY <1>3, <1>5, <1>6, <2>1
  <2>2. CASE m > n + 1
    <3>1. m - (n + 1) \in 1 .. Len(s) - n /\ n + (m - (n + 1)) = m - 1
      BY <2>2
    <3>2. (c \o b)[m] = b[m - (n + 1)]
      <4>1. ~(m <= n + 1)
        BY <2>2
      <4> QED
        BY <1>6, <4>1, Zenon
    <3>3. b[m - (n + 1)] = s[m - 1]
      BY <1>2, <3>1
    <3>4. ~(m <= n) /\ m # n + 1
      BY <2>2
    <3> QED
      BY <1>3, <3>2, <3>3, <3>4, Zenon
  <2> QED
    BY <2>1, <2>2
<1> QED
  BY <1>3, <1>6, <1>7

(* The entry inserted is where it was put.                                  *)
LEMMA InsertedHere ==
  ASSUME NEW S, NEW s \in Seq(S), NEW n \in 0 .. Len(s), NEW x \in S
  PROVE  InsertAt(s, n + 1, x)[n + 1] = x
<1>1. n + 1 \in 1 .. Len(s) + 1 /\ ~(n + 1 <= n)
  OBVIOUS
<1> DEFINE r == InsertAt(s, n + 1, x)
<1>2. \A m \in 1 .. Len(s) + 1 :
        r[m] = IF m <= n THEN s[m] ELSE IF m = n + 1 THEN x ELSE s[m - 1]
  BY InsertEntries
<1> HIDE DEF r
<1>3. r[n + 1] = x
  BY <1>1, <1>2
<1> QED
  BY <1>3 DEF r

(* Deleting from a sequence without repetition leaves one, without the      *)
(* deleted element.                                                         *)
LEMMA RemoveOnce ==
  ASSUME NEW S, NEW s \in Seq(S), IsInjective(s), NEW n \in 1 .. Len(s)
  PROVE  /\ IsInjective(RemoveAt(s, n))
         /\ ToSet(RemoveAt(s, n)) = ToSet(s) \ {s[n]}
<1> DEFINE r == RemoveAt(s, n)
<1>1. /\ r \in Seq(S) /\ Len(r) = Len(s) - 1
      /\ \A m \in 1 .. Len(s) - 1 : r[m] = IF m < n THEN s[m] ELSE s[m + 1]
  BY RemoveEntries
<1> HIDE DEF r
<1>2. \A i, j \in 1 .. Len(s) : s[i] = s[j] => i = j
  BY DEF IsInjective
<1>3. ASSUME NEW i \in 1 .. Len(r), NEW j \in 1 .. Len(r), r[i] = r[j]
      PROVE  i = j
  <2>1. CASE i < n /\ j < n
    <3>1. r[j] = s[j] /\ r[i] = s[i]
      BY <1>1, <2>1
    <3>2. j \in 1 .. Len(s) /\ i \in 1 .. Len(s)
      BY <1>1
    <3> QED
      BY <1>2, <1>3, <3>1, <3>2
  <2>2. CASE i < n /\ j >= n
    <3>1. r[i] = s[i] /\ r[j] = s[j + 1] /\ i # j + 1
      BY <1>1, <2>2
    <3>2. i \in 1 .. Len(s) /\ j + 1 \in 1 .. Len(s)
      BY <1>1
    <3> QED
      BY <1>2, <1>3, <3>1, <3>2
  <2>3. CASE i >= n /\ j < n
    <3>1. r[j] = s[j] /\ r[i] = s[i + 1] /\ j # i + 1
      BY <1>1, <2>3
    <3>2. j \in 1 .. Len(s) /\ i + 1 \in 1 .. Len(s)
      BY <1>1
    <3> QED
      BY <1>2, <1>3, <3>1, <3>2
  <2>4. CASE i >= n /\ j >= n
    <3>1. r[j] = s[j + 1] /\ r[i] = s[i + 1]
      BY <1>1, <2>4
    <3>2. j + 1 \in 1 .. Len(s) /\ i + 1 \in 1 .. Len(s)
      BY <1>1
    <3>3. j + 1 = i + 1
      BY <1>2, <1>3, <3>1, <3>2
    <3> QED
      BY <3>3
  <2> QED
    BY <1>1, <2>1, <2>2, <2>3, <2>4
<1>4. IsInjective(r)
  BY <1>1, <1>3 DEF IsInjective
<1>5. ASSUME NEW y \in ToSet(s) \ {s[n]}
      PROVE  y \in ToSet(r)
  <2>1. PICK m \in 1 .. Len(s) : s[m] = y
    BY EntriesOf
  <2>2. CASE m < n
    <3>1. m \in 1 .. Len(r) /\ r[m] = y
      BY <1>1, <2>1, <2>2
    <3> QED
      BY <1>1, <3>1, EntriesOf
  <2>3. CASE m > n
    <3>1. m - 1 \in 1 .. Len(r) /\ r[m - 1] = y
      BY <1>1, <2>1, <2>3
    <3> QED
      BY <1>1, <3>1, EntriesOf
  <2> QED
    BY <2>1, <2>2, <2>3
<1>6. ASSUME NEW y \in ToSet(r)
      PROVE  y \in ToSet(s) \ {s[n]}
  <2>1. PICK m \in 1 .. Len(r) : r[m] = y
    BY <1>1, EntriesOf
  <2>2. PICK k \in 1 .. Len(s) : s[k] = y /\ k # n
    BY <1>1, <2>1
  <2> QED
    BY <1>2, <2>2, EntriesOf
<1> QED
  BY <1>4, <1>5, <1>6 DEF r

(* Inserting a new element anywhere keeps it one.                           *)
LEMMA InsertNew ==
  ASSUME NEW S, NEW s \in Seq(S), IsInjective(s), NEW n \in 0 .. Len(s),
         NEW x \in S \ ToSet(s)
  PROVE  /\ IsInjective(InsertAt(s, n + 1, x))
         /\ ToSet(InsertAt(s, n + 1, x)) = ToSet(s) \cup {x}
<1> DEFINE r == InsertAt(s, n + 1, x)
<1>1. /\ r \in Seq(S) /\ Len(r) = Len(s) + 1
      /\ \A m \in 1 .. Len(s) + 1 :
           r[m] = IF m <= n THEN s[m] ELSE IF m = n + 1 THEN x ELSE s[m - 1]
  BY InsertEntries
<1> HIDE DEF r
<1>2. \A i, j \in 1 .. Len(s) : s[i] = s[j] => i = j
  BY DEF IsInjective
<1>3. \A i \in 1 .. Len(s) : s[i] # x
  BY EntriesOf
<1> DEFINE back(m) == IF m <= n THEN m ELSE m - 1
<1>4. ASSUME NEW i \in 1 .. Len(r), NEW j \in 1 .. Len(r), r[i] = r[j]
      PROVE  i = j
  <2>1. ASSUME NEW m \in 1 .. Len(r), m # n + 1
        PROVE  r[m] = s[back(m)] /\ back(m) \in 1 .. Len(s)
    BY <1>1, <2>1
  <2>2. r[n + 1] = x /\ n + 1 \in 1 .. Len(r)
    BY <1>1
  <2>3. CASE i = n + 1
    BY <1>3, <1>4, <2>1, <2>2, <2>3
  <2>4. CASE j = n + 1
    BY <1>3, <1>4, <2>1, <2>2, <2>4
  <2>5. CASE i # n + 1 /\ j # n + 1
    <3>1. back(i) = back(j)
      BY <1>2, <1>4, <2>1, <2>5
    <3> QED
      BY <2>5, <3>1
  <2> QED
    BY <2>3, <2>4, <2>5
<1>5. IsInjective(r)
  BY <1>1, <1>4 DEF IsInjective
<1>6. ASSUME NEW y \in ToSet(s) \cup {x}
      PROVE  y \in ToSet(r)
  <2>1. CASE y = x
    <3>1. n + 1 \in 1 .. Len(r) /\ r[n + 1] = x
      BY <1>1
    <3> QED
      BY <1>1, <2>1, <3>1, EntriesOf
  <2>2. CASE y # x
    <3>1. PICK m \in 1 .. Len(s) : s[m] = y
      BY <2>2, EntriesOf
    <3>2. \E k \in 1 .. Len(r) : r[k] = y
      <4>1. CASE m <= n
        BY <1>1, <3>1, <4>1
      <4>2. CASE m > n
        <5>1. m + 1 \in 1 .. Len(r) /\ r[m + 1] = y
          BY <1>1, <3>1, <4>2
        <5> QED
          BY <5>1
      <4> QED
        BY <4>1, <4>2
    <3> QED
      BY <1>1, <3>2, EntriesOf
  <2> QED
    BY <2>1, <2>2
<1>7. ASSUME NEW y \in ToSet(r)
      PROVE  y \in ToSet(s) \cup {x}
  <2>1. PICK m \in 1 .. Len(r) : r[m] = y
    BY <1>1, EntriesOf
  <2>2. CASE m <= n
    BY <1>1, <2>1, <2>2, EntriesOf
  <2>3. CASE m = n + 1
    BY <1>1, <2>1, <2>3
  <2>4. CASE m > n + 1
    <3>1. m - 1 \in 1 .. Len(s) /\ s[m - 1] = y
      BY <1>1, <2>1, <2>4
    <3> QED
      BY <3>1, EntriesOf
  <2> QED
    BY <1>1, <2>2, <2>3, <2>4
<1> QED
  BY <1>5, <1>6, <1>7 DEF r

(* So does appending it.                                                    *)
LEMMA AppendNew ==
  ASSUME NEW S, NEW s \in Seq(S), IsInjective(s), NEW x \in S \ ToSet(s)
  PROVE  /\ Append(s, x) \in Seq(S) /\ IsInjective(Append(s, x))
         /\ ToSet(Append(s, x)) = ToSet(s) \cup {x}
<1> DEFINE r == Append(s, x)
<1>1. /\ r \in Seq(S) /\ Len(r) = Len(s) + 1 /\ r[Len(s) + 1] = x
      /\ \A m \in 1 .. Len(s) : r[m] = s[m]
  BY AppendProperties
<1> HIDE DEF r
<1>2. \A i, j \in 1 .. Len(s) : s[i] = s[j] => i = j
  BY DEF IsInjective
<1>3. \A i \in 1 .. Len(s) : s[i] # x
  BY EntriesOf
<1>4. ASSUME NEW i \in 1 .. Len(r), NEW j \in 1 .. Len(r), r[i] = r[j]
      PROVE  i = j
  BY <1>1, <1>2, <1>3, <1>4
<1>5. IsInjective(r)
  BY <1>1, <1>4 DEF IsInjective
<1>6. ToSet(r) = ToSet(s) \cup {x}
  <2>1. ToSet(r) = {r[m] : m \in 1 .. Len(r)}
    BY <1>1, EntriesOf
  <2>2. ToSet(s) = {s[m] : m \in 1 .. Len(s)}
    BY EntriesOf
  <2>3. 1 .. Len(r) = 1 .. Len(s) \cup {Len(s) + 1}
    BY <1>1
  <2> QED
    BY <1>1, <2>1, <2>2, <2>3
<1> QED
  BY <1>1, <1>5, <1>6, Zenon DEF r

(* The tail of a sequence without repetition is one, without the head.      *)
LEMMA TailOnce ==
  ASSUME NEW S, NEW s \in Seq(S), IsInjective(s), s # <<>>
  PROVE  /\ Tail(s) \in Seq(S) /\ IsInjective(Tail(s))
         /\ Head(s) \in ToSet(s)
         /\ ToSet(Tail(s)) = ToSet(s) \ {Head(s)}
<1> DEFINE r == Tail(s)
<1>1. /\ r \in Seq(S) /\ Len(r) = Len(s) - 1
      /\ \A m \in 1 .. Len(r) : r[m] = s[m + 1]
  BY HeadTailProperties
<1>2. Head(s) = s[1] /\ 1 \in 1 .. Len(s)
  BY EmptySeq
<1> HIDE DEF r
<1>3. \A i, j \in 1 .. Len(s) : s[i] = s[j] => i = j
  BY DEF IsInjective
<1>4. ASSUME NEW i \in 1 .. Len(r), NEW j \in 1 .. Len(r), r[i] = r[j]
      PROVE  i = j
  BY <1>1, <1>3, <1>4
<1>5. IsInjective(r)
  BY <1>1, <1>4 DEF IsInjective
<1>6. Head(s) \in ToSet(s)
  BY <1>2, EntriesOf
<1>7. ASSUME NEW y \in ToSet(r)
      PROVE  y \in ToSet(s) \ {Head(s)}
  <2>1. PICK m \in 1 .. Len(r) : r[m] = y
    BY <1>1, EntriesOf
  <2>2. m + 1 \in 1 .. Len(s) /\ s[m + 1] = y /\ m + 1 # 1
    BY <1>1, <2>1
  <2>3. s[m + 1] # s[1]
    BY <1>2, <1>3, <2>2
  <2> QED
    BY <1>2, <2>2, <2>3, EntriesOf
<1>8. ASSUME NEW y \in ToSet(s) \ {Head(s)}
      PROVE  y \in ToSet(r)
  <2>1. PICK m \in 1 .. Len(s) : s[m] = y
    BY EntriesOf
  <2>2. m # 1
    BY <1>2, <2>1
  <2>3. m - 1 \in 1 .. Len(r) /\ r[m - 1] = y
    BY <1>1, <2>1, <2>2
  <2> QED
    BY <1>1, <2>3, EntriesOf
<1> QED
  BY <1>1, <1>5, <1>6, <1>7, <1>8 DEF r

(* A rotation keeps the elements and repeats none.                          *)
LEMMA RotateOnce ==
  ASSUME NEW S, NEW s \in Seq(S), IsInjective(s), s # <<>>
  PROVE  /\ Append(Tail(s), Head(s)) \in Seq(S)
         /\ IsInjective(Append(Tail(s), Head(s)))
         /\ ToSet(Append(Tail(s), Head(s))) = ToSet(s)
<1>1. /\ Tail(s) \in Seq(S) /\ IsInjective(Tail(s)) /\ Head(s) \in ToSet(s)
      /\ ToSet(Tail(s)) = ToSet(s) \ {Head(s)}
  BY TailOnce
<1>2. Head(s) \in S \ ToSet(Tail(s))
  BY <1>1, EntriesOf
<1>3. ToSet(Tail(s)) \cup {Head(s)} = ToSet(s)
  BY <1>1
<1>4. \A t \in Seq(S) : \A x \in S \ ToSet(t) : IsInjective(t) =>
        /\ Append(t, x) \in Seq(S) /\ IsInjective(Append(t, x))
        /\ ToSet(Append(t, x)) = ToSet(t) \cup {x}
  BY AppendNew
<1> QED
  BY <1>1, <1>2, <1>3, <1>4, Zenon
-----------------------------------------------------------------------------
(* Induction up to N: there is no descending chain of the sets 1 .. n.      *)
LEMMA Least ==
  ASSUME NEW N \in Nat, NEW B, B \subseteq 0 .. N, B # {}
  PROVE  \E m \in B : \A n \in B : m <= n
<1> DEFINE S == 1 .. N
           T == {1 .. n : n \in B}
           R == StrictSubsetOrdering(S)
<1>1. IsWellFoundedOn(R, FiniteSubsetsOf(S))
  BY FS_StrictSubsetOrderingWellFounded
<1>2. T \subseteq FiniteSubsetsOf(S) /\ T # {}
  <2>1. \A n \in B : 1 .. n \subseteq S /\ IsFiniteSet(1 .. n)
    BY FS_Interval
  <2> QED
    BY <2>1 DEF FiniteSubsetsOf
<1> HIDE DEF T, R
<1>3. \E x \in T : \A y \in T : <<y, x>> \notin R
  BY <1>1, <1>2, WFMin
<1>4. PICK m \in B : \A y \in T : <<y, 1 .. m>> \notin R
  BY <1>3 DEF T
<1>5. ASSUME NEW n \in B, n < m PROVE FALSE
  <2>1. 1 .. n \in T
    BY DEF T
  <2>2. 1 .. n \subseteq 1 .. m /\ m \notin 1 .. n /\ m \in 1 .. m /\ 1 .. m \subseteq S
    BY <1>5
  <2>3. <<1 .. n, 1 .. m>> \in R
    BY <2>2 DEF R, StrictSubsetOrdering
  <2> QED
    BY <1>4, <2>1, <2>3
<1> QED
  BY <1>5

(* The first n elements of s, without those in T, by the first n - 1.       *)
Kept(s, T, keep, n) ==
  IF n = 0 THEN <<>>
  ELSE IF s[n] \in T THEN keep[n - 1] ELSE Append(keep[n - 1], s[n])

(* The recursion of Without has a solution, which Without is the end of.    *)
LEMMA WithoutSolved ==
  ASSUME NEW S, NEW s \in Seq(S), NEW T
  PROVE  \E keep : /\ keep = [n \in 0 .. Len(s) |-> Kept(s, T, keep, n)]
                   /\ Without(s, T) = keep[Len(s)]
<1> DEFINE Solves(keep, m) == keep = [n \in 0 .. m |-> Kept(s, T, keep, n)]
           B == {m \in 0 .. Len(s) : ~\E keep : Solves(keep, m)}
<1>1. ASSUME B # {} PROVE FALSE
  <2>1. PICK m \in B : \A n \in B : m <= n
    <3>1. B \subseteq 0 .. Len(s) /\ Len(s) \in Nat
      OBVIOUS
    <3> QED
      BY <1>1, <3>1, Least, Zenon
  <2>2. m # 0
    <3>1. Solves([n \in 0 .. 0 |-> <<>>], 0)
      BY DEF Kept
    <3> QED
      BY <3>1
  <2>3. PICK keep : Solves(keep, m - 1)
    BY <2>1, <2>2
  <2> DEFINE more == [n \in 0 .. m |-> IF n < m THEN keep[n] ELSE Kept(s, T, keep, m)]
  <2>4. ASSUME NEW n \in 0 .. m PROVE more[n] = Kept(s, T, more, n)
    <3>1. n > 0 => more[n - 1] = keep[n - 1]
      OBVIOUS
    <3>2. n < m => keep[n] = Kept(s, T, keep, n)
      BY <2>3
    <3> QED
      BY <3>1, <3>2 DEF Kept
  <2>5. Solves(more, m)
    BY <2>4
  <2> QED
    BY <2>1, <2>5
<1>2. Len(s) \in 0 .. Len(s)
  OBVIOUS
<1>3. \E keep : Solves(keep, Len(s))
  BY <1>1, <1>2
<1>4. Without(s, T) = (CHOOSE keep : Solves(keep, Len(s)))[Len(s)]
  BY DEF Without, Kept
<1> HIDE DEF Solves
<1>5. Solves(CHOOSE keep : Solves(keep, Len(s)), Len(s))
  BY <1>3
<1> QED
  BY <1>4, <1>5 DEF Solves

(* What keep[m] is: the elements up to entry m that are not in T, in order. *)
KeepsUpTo(S, s, T, r, m) ==
  /\ r \in Seq(S)
  /\ \A i \in 1 .. m : s[i] \in T \/ \E j \in 1 .. Len(r) : r[j] = s[i]
  /\ \A j \in 1 .. Len(r) : r[j] \notin T
  /\ \E f \in [1 .. Len(r) -> 1 .. m] :
       /\ \A i, j \in 1 .. Len(r) : i < j => f[i] < f[j]
       /\ \A i \in 1 .. Len(r) : r[i] = s[f[i]]

LEMMA KeepsNone ==
  ASSUME NEW S, NEW s, NEW T
  PROVE  KeepsUpTo(S, s, T, <<>>, 0)
<1> DEFINE r == <<>>
           f == [i \in 1 .. 0 |-> 0]
<1>1. r \in Seq(S) /\ Len(r) = 0
  OBVIOUS
<1>2. f \in [1 .. 0 -> 1 .. 0] /\ \A i : i \notin 1 .. 0
  OBVIOUS
<1> HIDE DEF r, f
<1>3. f \in [1 .. Len(r) -> 1 .. 0] /\ \A i : i \notin 1 .. Len(r)
  BY <1>1, <1>2, Zenon
<1>4. KeepsUpTo(S, s, T, r, 0)
  BY <1>1, <1>2, <1>3, Zenon DEF KeepsUpTo
<1> QED
  BY <1>4 DEF r

LEMMA KeepsMore ==
  ASSUME NEW S, NEW s \in Seq(S), NEW T, NEW m \in 1 .. Len(s), NEW r,
         KeepsUpTo(S, s, T, r, m - 1)
  PROVE  KeepsUpTo(S, s, T, IF s[m] \in T THEN r ELSE Append(r, s[m]), m)
<1>1. PICK f \in [1 .. Len(r) -> 1 .. m - 1] :
             /\ \A i, j \in 1 .. Len(r) : i < j => f[i] < f[j]
             /\ \A i \in 1 .. Len(r) : r[i] = s[f[i]]
  BY DEF KeepsUpTo
<1>2. /\ r \in Seq(S) /\ Len(r) \in Nat
      /\ \A i \in 1 .. m - 1 : s[i] \in T \/ \E j \in 1 .. Len(r) : r[j] = s[i]
      /\ \A j \in 1 .. Len(r) : r[j] \notin T
  BY DEF KeepsUpTo
<1>3. CASE s[m] \in T
  <2>1. f \in [1 .. Len(r) -> 1 .. m]
    OBVIOUS
  <2>2. \A i \in 1 .. m : s[i] \in T \/ \E j \in 1 .. Len(r) : r[j] = s[i]
    BY <1>2, <1>3
  <2>3. KeepsUpTo(S, s, T, r, m)
    BY <1>1, <1>2, <2>1, <2>2 DEF KeepsUpTo
  <2> QED
    BY <1>3, <2>3
<1>4. CASE s[m] \notin T
  <2> DEFINE q == Append(r, s[m])
             g == [j \in 1 .. Len(q) |-> IF j <= Len(r) THEN f[j] ELSE m]
  <2>1. /\ q \in Seq(S) /\ Len(q) = Len(r) + 1 /\ q[Len(r) + 1] = s[m]
        /\ \A j \in 1 .. Len(r) : q[j] = r[j]
    BY <1>2, AppendProperties
  <2> HIDE DEF q
  <2>2. g \in [1 .. Len(q) -> 1 .. m]
    BY <1>2, <2>1
  <2>3. ASSUME NEW i \in 1 .. Len(q), NEW j \in 1 .. Len(q), i < j
        PROVE  g[i] < g[j]
    <3>1. i \in 1 .. Len(r) /\ i <= Len(r)
      BY <1>2, <2>1, <2>3
    <3>2. g[i] = f[i] /\ f[i] \in 1 .. m - 1
      BY <3>1
    <3>3. CASE j <= Len(r)
      <4>1. j \in 1 .. Len(r) /\ g[j] = f[j]
        BY <1>2, <3>3
      <4>2. f[i] < f[j]
        BY <1>1, <2>3, <3>1, <4>1
      <4> QED
        BY <3>2, <4>1, <4>2
    <3>4. CASE ~(j <= Len(r))
      <4>1. g[j] = m
        BY <3>4
      <4> QED
        BY <3>2, <4>1
    <3> QED
      BY <3>3, <3>4
  <2>4. \A i \in 1 .. Len(q) : q[i] = s[g[i]]
    BY <1>1, <1>2, <2>1
  <2>5. \A i \in 1 .. m : s[i] \in T \/ \E j \in 1 .. Len(q) : q[j] = s[i]
    <3>1. ASSUME NEW i \in 1 .. m - 1, s[i] \notin T
          PROVE  \E j \in 1 .. Len(q) : q[j] = s[i]
      <4>1. PICK j \in 1 .. Len(r) : r[j] = s[i]
        BY <1>2, <3>1
      <4>2. j \in 1 .. Len(q) /\ q[j] = s[i]
        BY <1>2, <2>1, <4>1
      <4> QED
        BY <4>2
    <3>2. Len(r) + 1 \in 1 .. Len(q)
      BY <1>2, <2>1
    <3> QED
      BY <2>1, <3>1, <3>2
  <2>6. ASSUME NEW j \in 1 .. Len(q) PROVE q[j] \notin T
    <3>1. j \in 1 .. Len(r) \/ j = Len(r) + 1
      BY <1>2, <2>1
    <3> QED
      BY <1>2, <1>4, <2>1, <3>1
  <2> HIDE DEF g
  <2>7. KeepsUpTo(S, s, T, q, m)
    BY <2>1, <2>2, <2>3, <2>4, <2>5, <2>6 DEF KeepsUpTo
  <2> QED
    BY <1>4, <2>7 DEF q
<1> QED
  BY <1>3, <1>4

(* Without keeps the other elements, in their order.                        *)
LEMMA WithoutEntries ==
  ASSUME NEW S, NEW s \in Seq(S), NEW T
  PROVE  /\ Without(s, T) \in Seq(S)
         /\ ToSet(Without(s, T)) = ToSet(s) \ T
         /\ \E f \in [1 .. Len(Without(s, T)) -> 1 .. Len(s)] :
              /\ \A i, j \in 1 .. Len(Without(s, T)) : i < j => f[i] < f[j]
              /\ \A i \in 1 .. Len(Without(s, T)) : Without(s, T)[i] = s[f[i]]
<1>1. PICK keep : /\ keep = [n \in 0 .. Len(s) |-> Kept(s, T, keep, n)]
                  /\ Without(s, T) = keep[Len(s)]
  BY WithoutSolved
<1> DEFINE B == {m \in 0 .. Len(s) : ~KeepsUpTo(S, s, T, keep[m], m)}
<1>2. ASSUME B # {} PROVE FALSE
  <2>1. PICK m \in B : \A n \in B : m <= n
    <3>1. B \subseteq 0 .. Len(s) /\ Len(s) \in Nat
      OBVIOUS
    <3> QED
      BY <1>2, <3>1, Least, Zenon
  <2>2. keep[m] = Kept(s, T, keep, m)
    BY <1>1, <2>1
  <2>3. CASE m = 0
    BY <2>1, <2>2, <2>3, KeepsNone DEF Kept
  <2>4. CASE m # 0
    <3>1. m \in 1 .. Len(s) /\ m - 1 \in 0 .. Len(s) /\ ~(m <= m - 1)
      BY <2>1, <2>4
    <3>2. KeepsUpTo(S, s, T, keep[m - 1], m - 1)
      BY <2>1, <3>1
    <3>3. keep[m] = IF s[m] \in T THEN keep[m - 1] ELSE Append(keep[m - 1], s[m])
      BY <2>2, <2>4 DEF Kept
    <3> QED
      BY <2>1, <3>1, <3>2, <3>3, KeepsMore
  <2> QED
    BY <2>3, <2>4
<1>3. KeepsUpTo(S, s, T, Without(s, T), Len(s))
  <2>1. Len(s) \in 0 .. Len(s)
    OBVIOUS
  <2> QED
    BY <1>1, <1>2, <2>1
<1> DEFINE r == Without(s, T)
<1> HIDE DEF r, B
<1>4. /\ r \in Seq(S)
      /\ \A i \in 1 .. Len(s) : s[i] \in T \/ \E j \in 1 .. Len(r) : r[j] = s[i]
      /\ \A j \in 1 .. Len(r) : r[j] \notin T
      /\ \E f \in [1 .. Len(r) -> 1 .. Len(s)] :
           /\ \A i, j \in 1 .. Len(r) : i < j => f[i] < f[j]
           /\ \A i \in 1 .. Len(r) : r[i] = s[f[i]]
  BY <1>3 DEF KeepsUpTo, r
<1>5. ToSet(r) = {r[i] : i \in 1 .. Len(r)} /\ ToSet(s) = {s[i] : i \in 1 .. Len(s)}
  BY <1>4, EntriesOf
<1>6. ToSet(r) = ToSet(s) \ T
  <2>1. ASSUME NEW x \in ToSet(r) PROVE x \in ToSet(s) \ T
    BY <1>4, <1>5
  <2>2. ASSUME NEW x \in ToSet(s) \ T PROVE x \in ToSet(r)
    BY <1>4, <1>5
  <2> QED
    BY <2>1, <2>2
<1> QED
  BY <1>4, <1>6 DEF r

(* Without repeats nothing that s does not repeat.                          *)
LEMMA WithoutOnce ==
  ASSUME NEW S, NEW s \in Seq(S), IsInjective(s), NEW T
  PROVE  /\ Without(s, T) \in Seq(S) /\ IsInjective(Without(s, T))
         /\ ToSet(Without(s, T)) = ToSet(s) \ T
<1> DEFINE r == Without(s, T)
<1>1. /\ r \in Seq(S) /\ ToSet(r) = ToSet(s) \ T
      /\ \E f \in [1 .. Len(r) -> 1 .. Len(s)] :
           /\ \A i, j \in 1 .. Len(r) : i < j => f[i] < f[j]
           /\ \A i \in 1 .. Len(r) : r[i] = s[f[i]]
  BY WithoutEntries
<1> HIDE DEF r
<1>2. PICK f \in [1 .. Len(r) -> 1 .. Len(s)] :
             /\ \A i, j \in 1 .. Len(r) : i < j => f[i] < f[j]
             /\ \A i \in 1 .. Len(r) : r[i] = s[f[i]]
  BY <1>1
<1>3. \A i, j \in 1 .. Len(s) : s[i] = s[j] => i = j
  BY DEF IsInjective
<1>4. ASSUME NEW i \in 1 .. Len(r), NEW j \in 1 .. Len(r), r[i] = r[j]
      PROVE  i = j
  <2>1. f[i] = f[j]
    BY <1>2, <1>3, <1>4
  <2>2. ~(i < j) /\ ~(j < i)
    BY <1>2, <2>1
  <2> QED
    BY <2>2
<1>5. IsInjective(r)
  BY <1>1, <1>4 DEF IsInjective
<1> QED
  BY <1>1, <1>5 DEF r

-----------------------------------------------------------------------------
(* Cutting a sequence without repetition behind its first n entries gives   *)
(* two that have no element in common, and the first has n.                 *)
LEMMA SplitOnce ==
  ASSUME NEW S, NEW s \in Seq(S), IsInjective(s), NEW n \in 0 .. Len(s)
  PROVE  LET a == SubSeq(s, 1, n)
             b == SubSeq(s, n + 1, Len(s))
         IN  /\ a \in Seq(S) /\ IsInjective(a)
             /\ b \in Seq(S) /\ IsInjective(b)
             /\ ToSet(a) \cap ToSet(b) = {}
             /\ ToSet(a) \cup ToSet(b) = ToSet(s)
             /\ IsFiniteSet(ToSet(a)) /\ Cardinality(ToSet(a)) = n
             /\ b # <<>> => n < Len(s)
<1> DEFINE a == SubSeq(s, 1, n)
           b == SubSeq(s, n + 1, Len(s))
<1>1. /\ a \in Seq(S) /\ Len(a) = n
      /\ \A i \in 1 .. n : a[i] = s[i]
  <2>1. \A i \in 1 .. n : s[i] \in S
    OBVIOUS
  <2> QED
    BY <2>1, SubSeqProperties
<1>2. /\ b \in Seq(S) /\ Len(b) = Len(s) - n
      /\ \A i \in 1 .. Len(s) - n : b[i] = s[n + i]
  <2>1. \A i \in n + 1 .. Len(s) : s[i] \in S
    OBVIOUS
  <2> QED
    BY <2>1, SubSeqProperties
<1> HIDE DEF a, b
<1>3. \A i, j \in 1 .. Len(s) : s[i] = s[j] => i = j
  BY DEF IsInjective
<1>4. IsInjective(a)
  <2>1. \A i, j \in 1 .. n : a[i] = a[j] => i = j
    BY <1>1, <1>3
  <2> QED
    BY <1>1, <2>1 DEF IsInjective
<1>5. IsInjective(b)
  <2>1. \A i, j \in 1 .. Len(s) - n : b[i] = b[j] => i = j
    BY <1>2, <1>3
  <2> QED
    BY <1>2, <2>1 DEF IsInjective
<1>6. /\ ToSet(a) = {a[i] : i \in 1 .. n}
      /\ ToSet(b) = {b[i] : i \in 1 .. Len(s) - n}
      /\ ToSet(s) = {s[i] : i \in 1 .. Len(s)}
  BY <1>1, <1>2, EntriesOf, Zenon
<1>7. ToSet(a) \cap ToSet(b) = {}
  <2>1. ASSUME NEW i \in 1 .. n, NEW j \in 1 .. Len(s) - n PROVE a[i] # b[j]
    <3>1. i \in 1 .. Len(s) /\ n + j \in 1 .. Len(s) /\ i # n + j
      OBVIOUS
    <3> QED
      BY <1>1, <1>2, <1>3, <3>1
  <2> QED
    BY <1>6, <2>1
<1>8. ToSet(a) \cup ToSet(b) = ToSet(s)
  <2>1. \A i \in 1 .. n : i \in 1 .. Len(s)
    OBVIOUS
  <2>2. \A j \in 1 .. Len(s) - n : n + j \in 1 .. Len(s)
    OBVIOUS
  <2>3. ASSUME NEW i \in 1 .. Len(s) PROVE s[i] \in ToSet(a) \cup ToSet(b)
    <3>1. CASE i <= n
      BY <1>1, <1>6, <3>1
    <3>2. CASE i > n
      <4>1. i - n \in 1 .. Len(s) - n /\ n + (i - n) = i
        BY <3>2
      <4> QED
        BY <1>2, <1>6, <4>1
    <3> QED
      BY <3>1, <3>2
  <2>4. ASSUME NEW x \in ToSet(a) PROVE x \in ToSet(s)
    BY <1>1, <1>6, <2>1
  <2>5. ASSUME NEW x \in ToSet(b) PROVE x \in ToSet(s)
    BY <1>2, <1>6, <2>2
  <2>6. ASSUME NEW x \in ToSet(s) PROVE x \in ToSet(a) \cup ToSet(b)
    BY <1>6, <2>3
  <2> QED
    BY <2>4, <2>5, <2>6
<1>9. IsFiniteSet(ToSet(a)) /\ Cardinality(ToSet(a)) = n
  <2>1. a \in [1 .. n -> ToSet(a)] /\ \A x \in ToSet(a) : \E i \in 1 .. n : a[i] = x
    BY <1>1, <1>6
  <2>2. \A i, j \in 1 .. n : a[i] = a[j] => i = j
    BY <1>1, <1>3
  <2>3. a \in Bijection(1 .. n, ToSet(a))
    BY <2>1, <2>2 DEF Bijection, Injection, Surjection, IsInjective
  <2>4. IsFiniteSet(1 .. n) /\ Cardinality(1 .. n) = n
    BY FS_Interval
  <2> QED
    BY <2>3, <2>4, FS_Bijection DEF ExistsBijection
<1>10. b # <<>> => n < Len(s)
  BY <1>2, EmptySeq
<1> QED
  BY <1>1, <1>2, <1>4, <1>5, <1>7, <1>8, <1>9, <1>10 DEF a, b

(* Two sequences without repetition that have no element in common.         *)
LEMMA ConcatOnce ==
  ASSUME NEW S, NEW a \in Seq(S), NEW b \in Seq(S),
         IsInjective(a), IsInjective(b), ToSet(a) \cap ToSet(b) = {}
  PROVE  /\ a \o b \in Seq(S) /\ IsInjective(a \o b)
         /\ ToSet(a \o b) = ToSet(a) \cup ToSet(b)
<1> DEFINE r == a \o b
<1>1. /\ r \in Seq(S) /\ Len(r) = Len(a) + Len(b)
      /\ \A i \in 1 .. Len(a) + Len(b) :
           r[i] = IF i <= Len(a) THEN a[i] ELSE b[i - Len(a)]
  BY ConcatProperties
<1> HIDE DEF r
<1>2. /\ \A i, j \in 1 .. Len(a) : a[i] = a[j] => i = j
      /\ \A i, j \in 1 .. Len(b) : b[i] = b[j] => i = j
  BY DEF IsInjective
<1>3. /\ ToSet(a) = {a[i] : i \in 1 .. Len(a)}
      /\ ToSet(b) = {b[i] : i \in 1 .. Len(b)}
      /\ ToSet(r) = {r[i] : i \in 1 .. Len(r)}
  <2>1. ToSet(a) = {a[i] : i \in 1 .. Len(a)}
    BY EntriesOf
  <2>2. ToSet(b) = {b[i] : i \in 1 .. Len(b)}
    BY EntriesOf
  <2>3. r \in Seq(S)
    BY <1>1
  <2>4. ToSet(r) = {r[i] : i \in 1 .. Len(r)}
    BY <2>3, EntriesOf
  <2> QED
    BY <2>1, <2>2, <2>4
<1>4. ASSUME NEW i \in 1 .. Len(a), NEW j \in 1 .. Len(b) PROVE a[i] # b[j]
  BY <1>3
<1>5. ASSUME NEW i \in 1 .. Len(r)
      PROVE  \/ i \in 1 .. Len(a) /\ r[i] = a[i]
             \/ i > Len(a) /\ i - Len(a) \in 1 .. Len(b) /\ r[i] = b[i - Len(a)]
  BY <1>1
<1>6. IsInjective(r)
  <2>1. ASSUME NEW i \in 1 .. Len(r), NEW j \in 1 .. Len(r), r[i] = r[j]
        PROVE  i = j
    <3>1. CASE i \in 1 .. Len(a) /\ r[i] = a[i]
      BY <1>2, <1>4, <1>5, <2>1, <3>1
    <3>2. CASE i > Len(a) /\ i - Len(a) \in 1 .. Len(b) /\ r[i] = b[i - Len(a)]
      <4>1. j > Len(a) /\ j - Len(a) \in 1 .. Len(b) /\ r[j] = b[j - Len(a)]
        BY <1>4, <1>5, <2>1, <3>2
      <4>2. i - Len(a) = j - Len(a)
        BY <1>2, <2>1, <3>2, <4>1
      <4> QED
        BY <4>2
    <3> QED
      BY <1>5, <3>1, <3>2
  <2> QED
    BY <1>1, <2>1 DEF IsInjective
<1>7. ToSet(r) = ToSet(a) \cup ToSet(b)
  <2>1. ASSUME NEW x \in ToSet(r) PROVE x \in ToSet(a) \cup ToSet(b)
    BY <1>3, <1>5
  <2>2. ASSUME NEW i \in 1 .. Len(a) PROVE a[i] \in ToSet(r)
    <3>1. i \in 1 .. Len(r) /\ r[i] = a[i]
      BY <1>1
    <3> QED
      BY <1>3, <3>1
  <2>3. ASSUME NEW j \in 1 .. Len(b) PROVE b[j] \in ToSet(r)
    <3>1. /\ Len(a) \in Nat /\ Len(b) \in Nat
          /\ Len(a) + j \in 1 .. Len(a) + Len(b)
          /\ ~(Len(a) + j <= Len(a)) /\ (Len(a) + j) - Len(a) = j
      OBVIOUS
    <3>2. r[Len(a) + j] = b[j]
      BY <1>1, <3>1
    <3> QED
      BY <1>1, <1>3, <3>1, <3>2
  <2>4. ToSet(a) \subseteq ToSet(r)
    BY <1>3, <2>2
  <2>5. ToSet(b) \subseteq ToSet(r)
    BY <1>3, <2>3
  <2> QED
    BY <2>1, <2>4, <2>5, Zenon
<1> QED
  BY <1>1, <1>6, <1>7 DEF r

(* A walk down the first entries with some property ends at one that has it *)
(* not, or at the end.                                                      *)
LEMMA WalkEnds ==
  ASSUME NEW N \in Nat, NEW P
  PROVE  \E n \in 0 .. N : (\A m \in 1 .. n : m \in P) /\ (n < N => n + 1 \notin P)
<1> DEFINE B == {n \in 0 .. N : n < N => n + 1 \notin P}
<1>1. B \subseteq 0 .. N /\ N \in B
  OBVIOUS
<1>2. PICK n \in B : \A k \in B : n <= k
  BY <1>1, Least, Zenon
<1>3. ASSUME NEW m \in 1 .. n, m \notin P PROVE FALSE
  <2>1. m - 1 \in B
    BY <1>1, <1>3
  <2> QED
    BY <1>2, <2>1
<1> QED
  BY <1>2, <1>3

(* There is a place for v behind the first entries that are not greater.    *)
LEMMA SortedPlace ==
  ASSUME NEW N \in Nat, NEW f, \A m \in 1 .. N : f[m] \in Int, NEW v \in Int
  PROVE  \E n \in 0 .. N : /\ \A m \in 1 .. n : f[m] <= v
                           /\ n < N => f[n + 1] > v
<1> DEFINE P == {k \in 1 .. N : f[k] <= v}
<1>1. \A k \in 1 .. N : k \in P <=> f[k] <= v
  OBVIOUS
<1> HIDE DEF P
<1>2. PICK n \in 0 .. N : (\A m \in 1 .. n : m \in P) /\ (n < N => n + 1 \notin P)
  BY WalkEnds
<1>3. ASSUME NEW m \in 1 .. n PROVE f[m] <= v
  <2>1. m \in 1 .. N /\ m \in P
    BY <1>2
  <2> QED
    BY <1>1, <2>1
<1>4. ASSUME n < N PROVE f[n + 1] > v
  <2>1. n + 1 \in 1 .. N
    BY <1>4
  <2>2. n + 1 \notin P
    BY <1>2, <1>4
  <2>3. f[n + 1] \in Int /\ ~(f[n + 1] <= v)
    BY <1>1, <2>1, <2>2
  <2> QED
    BY <2>3
<1> QED
  BY <1>3, <1>4

-----------------------------------------------------------------------------
(* Lists in the order of a value that each item has, such as a time.        *)

OrderedBy(s, f) == \A i, j \in 1 .. Len(s) : i <= j => f[s[i]] <= f[s[j]]
PlaceOfTime(s, f, v, k) ==
  k \in 0 .. Len(s) /\ (\A m \in 1 .. k : f[s[m]] <= v) /\ (k < Len(s) => f[s[k + 1]] > v)

(* There is a place behind the entries that are not later, ...              *)
LEMMA PlaceExists ==
  ASSUME NEW S, NEW s \in Seq(S), NEW f, \A x \in S : f[x] \in Int, NEW v \in Int
  PROVE  \E k \in 0 .. Len(s) : PlaceOfTime(s, f, v, k)
<1> DEFINE g == [m \in 1 .. Len(s) |-> f[s[m]]]
<1>1. Len(s) \in Nat /\ \A m \in 1 .. Len(s) : s[m] \in S
  BY EntriesOf
<1>2. \A m \in 1 .. Len(s) : g[m] = f[s[m]] /\ g[m] \in Int
  BY <1>1
<1> HIDE DEF g
<1>3. \E k \in 0 .. Len(s) : /\ \A m \in 1 .. k : g[m] <= v
                             /\ k < Len(s) => g[k + 1] > v
  <2> DEFINE N == Len(s)
  <2> HIDE DEF N
  <2>1. N \in Nat /\ \A m \in 1 .. N : g[m] \in Int
    BY <1>1, <1>2 DEF N
  <2>2. \E k \in 0 .. N : /\ \A m \in 1 .. k : g[m] <= v
                          /\ k < N => g[k + 1] > v
    BY <2>1, SortedPlace
  <2> QED
    BY <2>2 DEF N
<1>4. ASSUME NEW k \in 0 .. Len(s), \A m \in 1 .. k : g[m] <= v,
             k < Len(s) => g[k + 1] > v
      PROVE  PlaceOfTime(s, f, v, k)
  <2>1. \A m \in 1 .. k : m \in 1 .. Len(s) /\ g[m] = f[s[m]]
    BY <1>1, <1>2
  <2>2. \A m \in 1 .. k : f[s[m]] <= v
    BY <1>4, <2>1
  <2>3. k < Len(s) => f[s[k + 1]] > v
    BY <1>1, <1>2, <1>4
  <2> QED
    BY <2>2, <2>3 DEF PlaceOfTime
<1> QED
  BY <1>3, <1>4

(* ... and a list into which an item is inserted there stays in order.      *)
LEMMA InsertInOrder ==
  ASSUME NEW S, NEW s \in Seq(S), NEW x \in S \ ToSet(s), NEW v \in Nat, NEW k,
         NEW f \in [S -> Nat], OrderedBy(s, f), PlaceOfTime(s, f, v, k)
  PROVE  OrderedBy(InsertAt(s, k + 1, x), [f EXCEPT ![x] = v])
<1> DEFINE r == InsertAt(s, k + 1, x)
           g == [f EXCEPT ![x] = v]
<1>0. /\ k \in 0 .. Len(s)
      /\ \A i, j \in 1 .. Len(s) : i <= j => f[s[i]] <= f[s[j]]
      /\ \A m \in 1 .. k : f[s[m]] <= v
      /\ k < Len(s) => f[s[k + 1]] > v
      /\ \A c \in S : g[c] = IF c = x THEN v ELSE f[c]
  BY DEF OrderedBy, PlaceOfTime
<1>1. /\ Len(r) = Len(s) + 1 /\ Len(s) \in Nat
      /\ \A m \in 1 .. Len(s) + 1 :
           r[m] = IF m <= k THEN s[m] ELSE IF m = k + 1 THEN x ELSE s[m - 1]
  <2>1. x \in S /\ Len(s) \in Nat /\ k \in 0 .. Len(s)
    BY DEF PlaceOfTime
  <2> QED
    BY <2>1, InsertEntries
<1> HIDE DEF r, g
<1>2. \A m \in 1 .. Len(s) : s[m] \in S /\ s[m] # x
  BY EntriesOf
<1>3. \A m \in 1 .. Len(s) : f[s[m]] \in Nat /\ g[s[m]] = f[s[m]]
  BY <1>0, <1>2
<1>4. \A m \in k + 1 .. Len(s) : v <= f[s[m]]
  <2> TAKE m \in k + 1 .. Len(s)
  <2>1. k + 1 \in 1 .. Len(s) /\ m \in 1 .. Len(s) /\ k < Len(s) /\ k + 1 <= m
    BY <1>0, <1>1
  <2>2. f[s[k + 1]] <= f[s[m]] /\ f[s[k + 1]] > v
    BY <1>0, <2>1
  <2> QED
    BY <1>0, <1>3, <2>1, <2>2
<1>5. \A m \in 1 .. Len(r) :
        \/ m <= k /\ m \in 1 .. Len(s) /\ g[r[m]] = f[s[m]]
        \/ m = k + 1 /\ g[r[m]] = v
        \/ m > k + 1 /\ m - 1 \in k + 1 .. Len(s) /\ g[r[m]] = f[s[m - 1]]
  <2> TAKE m \in 1 .. Len(r)
  <2>1. CASE m <= k
    <3>1. m \in 1 .. Len(s) + 1 /\ m \in 1 .. Len(s)
      BY <1>0, <1>1, <2>1
    <3>2. r[m] = s[m] /\ g[s[m]] = f[s[m]]
      BY <1>0, <1>1, <1>3, <2>1, <3>1
    <3> QED
      BY <2>1, <3>1, <3>2
  <2>2. CASE m = k + 1
    BY <1>0, <1>1, <2>2
  <2>3. CASE m > k + 1
    <3>1. m - 1 \in k + 1 .. Len(s) /\ m - 1 \in 1 .. Len(s) /\ r[m] = s[m - 1]
      BY <1>0, <1>1, <2>3
    <3> QED
      BY <1>0, <1>3, <2>3, <3>1
  <2> QED
    BY <1>0, <1>1, <2>1, <2>2, <2>3
<1>6. ASSUME NEW i \in 1 .. Len(r), NEW j \in 1 .. Len(r), i <= j
      PROVE  g[r[i]] <= g[r[j]]
  <2>1. CASE j <= k
    <3>1. i \in 1 .. Len(s) /\ j \in 1 .. Len(s) /\ i <= k
      BY <1>0, <1>1, <1>6, <2>1
    <3>2. g[r[i]] = f[s[i]] /\ g[r[j]] = f[s[j]]
      BY <1>0, <1>5, <2>1, <3>1
    <3> QED
      BY <1>0, <1>6, <3>1, <3>2
  <2>2. CASE j = k + 1 /\ i <= k
    BY <1>0, <1>5, <2>2
  <2>3. CASE j = k + 1 /\ i = k + 1
    BY <1>0, <1>5, <2>3
  <2>4. CASE j > k + 1 /\ i <= k
    <3>1. j - 1 \in k + 1 .. Len(s) /\ g[r[j]] = f[s[j - 1]] /\ g[r[i]] = f[s[i]]
          /\ i \in 1 .. Len(s) /\ j - 1 \in 1 .. Len(s)
      BY <1>0, <1>1, <1>5, <2>4
    <3>2. i \in 1 .. k
      BY <2>4
    <3>3. f[s[i]] <= v
      BY <1>0, <3>2
    <3>4. v <= f[s[j - 1]]
      BY <1>4, <3>1
    <3>5. f[s[i]] \in Nat /\ f[s[j - 1]] \in Nat
      BY <1>3, <3>1
    <3> QED
      BY <3>1, <3>3, <3>4, <3>5
  <2>5. CASE j > k + 1 /\ i = k + 1
    <3>1. j - 1 \in k + 1 .. Len(s) /\ g[r[j]] = f[s[j - 1]] /\ g[r[i]] = v
      <4>1. j \in Nat /\ i \in Nat /\ k \in Nat
        BY <1>0, <1>1
      <4>2. ~(j <= k) /\ j # k + 1 /\ ~(i <= k) /\ ~(i > k + 1)
        BY <2>5, <4>1
      <4> QED
        BY <1>5, <4>2
    <3> QED
      BY <1>4, <3>1
  <2>6. CASE j > k + 1 /\ i > k + 1
    <3>1. /\ j - 1 \in 1 .. Len(s) /\ i - 1 \in 1 .. Len(s) /\ i - 1 <= j - 1
          /\ g[r[i]] = f[s[i - 1]] /\ g[r[j]] = f[s[j - 1]]
      <4>1. j \in Nat /\ i \in Nat /\ k \in Nat
        BY <1>0, <1>1
      <4>2. ~(j <= k) /\ j # k + 1 /\ ~(i <= k) /\ i # k + 1
        BY <2>6, <4>1
      <4>3. g[r[i]] = f[s[i - 1]] /\ g[r[j]] = f[s[j - 1]]
        BY <1>5, <4>2
      <4> QED
        BY <1>0, <1>1, <1>6, <2>6, <4>3
    <3> QED
      BY <1>0, <3>1
  <2> QED
    BY <1>0, <1>1, <1>6, <2>1, <2>2, <2>3, <2>4, <2>5, <2>6
<1> QED
  BY <1>6 DEF OrderedBy, r, g

(* A list that items leave stays in order.                                  *)
LEMMA WithoutInOrder ==
  ASSUME NEW S, NEW s \in Seq(S), NEW f \in [S -> Nat], OrderedBy(s, f), NEW T
  PROVE  OrderedBy(Without(s, T), f)
<1> DEFINE r == Without(s, T)
<1>1. /\ r \in Seq(S) /\ ToSet(r) = ToSet(s) \ T
      /\ \E h \in [1 .. Len(r) -> 1 .. Len(s)] :
           /\ \A i, j \in 1 .. Len(r) : i < j => h[i] < h[j]
           /\ \A i \in 1 .. Len(r) : r[i] = s[h[i]]
  BY WithoutEntries, SMTT(30)
<1> HIDE DEF r
<1>2. PICK h \in [1 .. Len(r) -> 1 .. Len(s)] :
           /\ \A i, j \in 1 .. Len(r) : i < j => h[i] < h[j]
           /\ \A i \in 1 .. Len(r) : r[i] = s[h[i]]
  BY <1>1
<1>3. Len(r) \in Nat /\ Len(s) \in Nat
  BY <1>1
<1>4. ASSUME NEW i \in 1 .. Len(r), NEW j \in 1 .. Len(r), i <= j
      PROVE  f[r[i]] <= f[r[j]]
  <2>1. h[i] \in 1 .. Len(s) /\ h[j] \in 1 .. Len(s)
    BY <1>2
  <2>2. h[i] <= h[j]
    <3>1. CASE i = j
      BY <1>3, <2>1, <3>1
    <3>2. CASE i < j
      BY <1>2, <1>3, <2>1, <3>2
    <3> QED
      BY <1>3, <1>4, <3>1, <3>2
  <2>3. f[s[h[i]]] <= f[s[h[j]]]
    BY <2>1, <2>2 DEF OrderedBy
  <2> QED
    BY <1>2, <2>3
<1> QED
  BY <1>4 DEF OrderedBy, r

(* The head of a list in order has the least value.                         *)
LEMMA HeadLeast ==
  ASSUME NEW S, NEW s \in Seq(S), NEW f, OrderedBy(s, f), s # <<>>
  PROVE  /\ Head(s) \in ToSet(s) /\ Head(s) \in S
         /\ \A x \in ToSet(s) : f[Head(s)] <= f[x]
<1>1. Len(s) \in Nat /\ Len(s) > 0 /\ Head(s) = s[1] /\ s[1] \in S
  OBVIOUS
<1>2. ToSet(s) = {s[n] : n \in 1 .. Len(s)}
  BY EntriesOf
<1>3. \A n \in 1 .. Len(s) : f[s[1]] <= f[s[n]]
  BY <1>1 DEF OrderedBy
<1> QED
  BY <1>1, <1>2, <1>3

(* What is left of a list behind its first n entries stays in order.        *)
LEMMA RestInOrder ==
  ASSUME NEW S, NEW s \in Seq(S), NEW f, OrderedBy(s, f), NEW n \in 0 .. Len(s)
  PROVE  OrderedBy(SubSeq(s, n + 1, Len(s)), f)
<1> DEFINE r == SubSeq(s, n + 1, Len(s))
<1>1. \A i \in n + 1 .. Len(s) : s[i] \in S
  OBVIOUS
<1>2. Len(r) = Len(s) - n /\ \A i \in 1 .. Len(s) - n : r[i] = s[n + i]
  BY <1>1, SubSeqProperties
<1> HIDE DEF r
<1>3. ASSUME NEW i \in 1 .. Len(r), NEW j \in 1 .. Len(r), i <= j
      PROVE  f[r[i]] <= f[r[j]]
  <2>1. n + i \in 1 .. Len(s) /\ n + j \in 1 .. Len(s) /\ n + i <= n + j
    BY <1>2, <1>3
  <2>2. r[i] = s[n + i] /\ r[j] = s[n + j]
    BY <1>2
  <2> QED
    BY <2>1, <2>2 DEF OrderedBy
<1> QED
  BY <1>3 DEF OrderedBy, r

LEMMA TailOrdered ==
  ASSUME NEW S, NEW s \in Seq(S), NEW f, OrderedBy(s, f), s # <<>>
  PROVE  OrderedBy(Tail(s), f)
<1>1. /\ Len(Tail(s)) = Len(s) - 1
      /\ \A i \in 1 .. Len(s) - 1 : Tail(s)[i] = s[i + 1]
  BY HeadTailProperties
<1>2. ASSUME NEW i \in 1 .. Len(Tail(s)), NEW j \in 1 .. Len(Tail(s)), i <= j
      PROVE  f[Tail(s)[i]] <= f[Tail(s)[j]]
  <2>1. i + 1 \in 1 .. Len(s) /\ j + 1 \in 1 .. Len(s) /\ i + 1 <= j + 1
    BY <1>1, <1>2
  <2>2. Tail(s)[i] = s[i + 1] /\ Tail(s)[j] = s[j + 1]
    BY <1>1
  <2> QED
    BY <2>1, <2>2 DEF OrderedBy
<1> QED
  BY <1>2 DEF OrderedBy

(* The order is one of the entries only.                                    *)
LEMMA SameOrder ==
  ASSUME NEW S, NEW s \in Seq(S), NEW f, NEW g, \A x \in ToSet(s) : g[x] = f[x],
         OrderedBy(s, f)
  PROVE  OrderedBy(s, g)
<1>1. \A i \in 1 .. Len(s) : s[i] \in ToSet(s)
  BY EntriesOf
<1> QED
  BY <1>1 DEF OrderedBy

-----------------------------------------------------------------------------
(* What is left of a number that only a remainder is kept of.               *)

LEMMA Division ==
  ASSUME NEW n \in Nat \ {0}, NEW x \in Int
  PROVE  /\ x = n * (x \div n) + (x % n)
         /\ x \div n \in Int
         /\ x % n \in 0 .. n - 1
<1>1. x = n * (x \div n) + (x % n)
  OBVIOUS
<1>2. x \div n \in Int /\ x % n \in 0 .. n - 1
  OBVIOUS
<1> QED
  BY <1>1, <1>2

LEMMA Remainder ==
  ASSUME NEW n \in Nat \ {0}, NEW q \in Int, NEW r \in 0 .. n - 1
  PROVE  (n * q + r) % n = r /\ (n * q + r) \div n = q
<1> DEFINE x == n * q + r
           p == x \div n
           s == x % n
<1>1. x \in Int
  <2>1. n * q \in Int
    OBVIOUS
  <2> DEFINE m == n * q
  <2> HIDE DEF m
  <2>2. m + r \in Int
    BY <2>1 DEF m
  <2> QED
    BY <2>2 DEF m
<1>2. x = n * p + s /\ p \in Int /\ s \in 0 .. n - 1
  <2> HIDE DEF x
  <2> QED
    BY <1>1, Division
<1>3. n * p + s = n * q + r
  BY <1>2
<1> HIDE DEF x, p, s
<1>4. ~(p > q)
  <2>1. SUFFICES ASSUME p > q PROVE FALSE
    OBVIOUS
  <2>2. n * p >= n * q + n
    BY <1>2, <2>1
  <2> QED
    BY <1>2, <1>3, <2>2
<1>5. ~(q > p)
  <2>1. SUFFICES ASSUME q > p PROVE FALSE
    OBVIOUS
  <2>2. n * q >= n * p + n
    BY <1>2, <2>1
  <2> QED
    BY <1>2, <1>3, <2>2
<1>6. p = q
  BY <1>2, <1>4, <1>5
<1>7. s = r
  BY <1>2, <1>3, <1>6
<1> QED
  BY <1>6, <1>7 DEF p, s, x

(* The cycle of n that c is in begins at b: the cycle before it, this one   *)
(* and the next.                                                            *)
LEMMA CycleOf ==
  ASSUME NEW n \in Nat \ {0}, NEW c \in Nat
  PROVE  LET b == c - (c % n)
         IN  /\ b \in Nat /\ b <= c /\ c < b + n /\ c % n \in 0 .. n - 1
             /\ \A x \in Nat : b - n <= x /\ x < b =>
                  x % n = x - b + n /\ x \div n = (c \div n) - 1
             /\ \A x \in Nat : b <= x /\ x < b + n =>
                  x % n = x - b /\ x \div n = c \div n
             /\ \A x \in Nat : b + n <= x /\ x < b + 2 * n =>
                  x % n = x - b - n /\ x \div n = (c \div n) + 1
<1> DEFINE q == c \div n
           r == c % n
           b == c - r
<1>1. c = n * q + r /\ q \in Int /\ r \in 0 .. n - 1
  BY Division
<1> HIDE DEF q, r
<1>2. b = n * q
  BY <1>1
<1>3. b \in Int /\ b <= c /\ c < b + n /\ b + r = c
  BY <1>1
<1>4. b \in Nat
  <2>1. CASE q < 0
    <3>1. n * q <= 0 - n
      BY <1>1, <2>1
    <3> QED
      BY <1>1, <1>2, <1>3, <3>1
  <2>2. CASE q >= 0
    <3>1. n * q >= 0
      BY <2>2, <1>1
    <3> QED
      BY <1>2, <1>3, <3>1
  <2> QED
    BY <1>1, <2>1, <2>2
<1>5. b - n = n * (q - 1) /\ b + n = n * (q + 1)
  BY <1>1, <1>2
<1> HIDE DEF b
<1>6. ASSUME NEW x \in Nat, NEW k \in Int, NEW d \in Int, d = n * k, d <= x, x < d + n
      PROVE  x % n = x - d /\ x \div n = k
  <2>1. x - d \in 0 .. n - 1 /\ x = d + (x - d)
    BY <1>6
  <2> DEFINE e == x - d
  <2> HIDE DEF e
  <2>2. (n * k + e) % n = e /\ (n * k + e) \div n = k
    BY <2>1, Remainder DEF e
  <2> QED
    BY <1>6, <2>1, <2>2 DEF e
<1>7. ASSUME NEW x \in Nat, b - n <= x, x < b PROVE x % n = x - b + n /\ x \div n = q - 1
  <2>1. b - n \in Int /\ q - 1 \in Int /\ x < (b - n) + n
    BY <1>1, <1>3, <1>7
  <2>2. x % n = x - (b - n) /\ x \div n = q - 1
    BY <1>5, <1>6, <1>7, <2>1
  <2> QED
    BY <1>3, <2>2
<1>8. ASSUME NEW x \in Nat, b <= x, x < b + n PROVE x % n = x - b /\ x \div n = q
  BY <1>1, <1>2, <1>3, <1>6, <1>8
<1>9. ASSUME NEW x \in Nat, b + n <= x, x < b + 2 * n PROVE x % n = x - b - n /\ x \div n = q + 1
  <2>1. b + n \in Int /\ q + 1 \in Int /\ x < (b + n) + n
    BY <1>1, <1>3, <1>9
  <2>2. x % n = x - (b + n) /\ x \div n = q + 1
    BY <1>5, <1>6, <1>9, <2>1
  <2> QED
    BY <1>3, <2>2
<1> QED
  BY <1>1, <1>3, <1>4, <1>7, <1>8, <1>9 DEF q, r, b
=============================================================================
