------------------------- MODULE FromaListBootProofs -------------------------
(***************************************************************************)
(* Proofs about FromaList, FromaListSpec and FromaBoot, which share no     *)
(* variable.                                                               *)
(*                                                                         *)
(* The lists, for any number of items and lists: the pointers implement    *)
(* the sequences, an item is never on two lists, and a sorted list is      *)
(* always in order, so its head has the least value.                       *)
(*                                                                         *)
(* The start of the two cores, for any tasks: what they hand over to the   *)
(* scheduler is a state that FromaSched begins in.                         *)
(***************************************************************************)
EXTENDS FromaList, FromaBoot, FromaSequences

-----------------------------------------------------------------------------
(* What the sequences of FromaListSpec promise.                             *)

(* FromaListSpec uses the same operators on sequences.                      *)
LEMMA SameOperators ==
  /\ \A s : Promise!ToSet(s) = ToSet(s)
  /\ \A s : Promise!IsInjective(s) <=> IsInjective(s)
  /\ \A s, n : Promise!RemoveAt(s, n) = RemoveAt(s, n)
  /\ \A s, n, x : Promise!InsertAt(s, n, x) = InsertAt(s, n, x)
BY DEF Promise!ToSet, ToSet, Promise!IsInjective, IsInjective, Promise!RemoveAt,
   RemoveAt, Promise!InsertAt, InsertAt

ListInv == Promise!TypeOK /\ Promise!OneList /\ Promise!InOrder

(* A removal, a walk and a head change one list as the lemmas on sequences  *)
(* say; every other list stays.                                             *)
LEMMA TakenFacts ==
  ASSUME Promise!TypeOK, Promise!OneList, NEW l \in Promise!Lists, NEW i \in ToSet(Sequences[l])
  PROVE  LET r == RemoveAt(Sequences[l], Promise!Place(Sequences[l], i)) IN
         /\ r \in Seq(Items) /\ IsInjective(r) /\ ToSet(r) = ToSet(Sequences[l]) \ {i}
<1>1. Sequences[l] \in Seq(Items) /\ IsInjective(Sequences[l])
  BY SameOperators DEF Promise!TypeOK, Promise!OneList
<1>2. Promise!Place(Sequences[l], i) \in 1 .. Len(Sequences[l]) /\ Sequences[l][Promise!Place(Sequences[l], i)] = i
  BY <1>1, PlaceOf DEF Promise!Place
<1> DEFINE s == Sequences[l]
           n == Promise!Place(Sequences[l], i)
<1> HIDE DEF s, n
<1>3. s \in Seq(Items) /\ IsInjective(s) /\ n \in 1 .. Len(s) /\ s[n] = i
  BY <1>1, <1>2 DEF s, n
<1>4. /\ RemoveAt(s, n) \in Seq(Items) /\ IsInjective(RemoveAt(s, n))
      /\ ToSet(RemoveAt(s, n)) = ToSet(s) \ {i}
  BY <1>3, RemoveEntries, RemoveOnce
<1> QED
  BY <1>4 DEF s, n

(* The initial lists are empty.                                             *)
LEMMA ListInit == Promise!Init => ListInv
<1> SUFFICES ASSUME Promise!Init PROVE ListInv
  OBVIOUS
<1>1. \A l \in Promise!Lists : Sequences[l] = <<>> /\ Sequences[l] \in Seq(Items) /\ DOMAIN Sequences[l] = {}
  BY DEF Promise!Init
<1>2. Promise!TypeOK
  BY <1>1 DEF Promise!Init, Promise!TypeOK
<1>3. Promise!OneList /\ Promise!InOrder
  BY SameOperators, <1>1 DEF Promise!OneList, Promise!InOrder, IsInjective, ToSet, Promise!Lists
<1> QED
  BY <1>2, <1>3 DEF ListInv

(* When one list changes to a sequence without repetition, and gains no     *)
(* item that another list holds, no item is on two lists.                   *)
LEMMA OneListStep ==
  ASSUME Promise!TypeOK, Promise!OneList, NEW l \in Promise!Lists, NEW r \in Seq(Items),
         IsInjective(r), Sequences' = [Sequences EXCEPT ![l] = r],
         \A i \in ToSet(r) : Promise!On(i, l) \/ Promise!Free(i)
  PROVE  Promise!OneList' /\ Sequences' \in [Promise!Lists -> Seq(Items)]
<1>1. Sequences'[l] = r /\ \A m \in Promise!Lists \ {l} : Sequences'[m] = Sequences[m]
  BY DEF Promise!TypeOK
<1>2. ASSUME NEW m \in Promise!Lists, NEW n \in Promise!Lists, NEW i \in ToSet(Sequences'[m]),
             i \in ToSet(Sequences'[n])
      PROVE  m = n
  <2>1. CASE m = l /\ n # l
    BY SameOperators, <1>1, <1>2, <2>1 DEF Promise!OneList, Promise!On, Promise!Free
  <2>2. CASE m # l /\ n = l
    BY SameOperators, <1>1, <1>2, <2>2 DEF Promise!OneList, Promise!On, Promise!Free
  <2>3. CASE m # l /\ n # l
    BY SameOperators, <1>1, <1>2, <2>3 DEF Promise!OneList
  <2> QED
    BY <2>1, <2>2, <2>3
<1>3. \A m, n \in Promise!Lists : ToSet(Sequences'[m]) \cap ToSet(Sequences'[n]) # {} => m = n
  BY <1>2
<1>4. \A m \in Promise!Lists : IsInjective(Sequences'[m])
  BY SameOperators, <1>1 DEF Promise!OneList
<1>5. Sequences' \in [Promise!Lists -> Seq(Items)]
  BY DEF Promise!TypeOK
<1> QED
  BY SameOperators, <1>3, <1>4, <1>5 DEF Promise!OneList

(* A walk through all the lists gives each of them another turn at most.    *)
LEMMA TurnStep ==
  ASSUME Promise!TypeOK, Promise!OneList, Promise!GoneThrough
  PROVE  Promise!OneList' /\ Sequences' \in [Promise!Lists -> Seq(Items)]
<1>1. ASSUME NEW l \in Promise!Lists
      PROVE  /\ Sequences'[l] \in Seq(Items) /\ IsInjective(Sequences'[l])
             /\ ToSet(Sequences'[l]) = ToSet(Sequences[l])
  <2>1. Sequences[l] \in Seq(Items) /\ IsInjective(Sequences[l])
    BY SameOperators DEF Promise!TypeOK, Promise!OneList
  <2>2. CASE Sequences'[l] = Sequences[l]
    BY <2>1, <2>2
  <2>3. CASE Sequences[l] # <<>> /\ Sequences'[l] = Append(Tail(Sequences[l]), Head(Sequences[l]))
    BY <2>1, <2>3, RotateOnce
  <2> QED
    BY <2>2, <2>3 DEF Promise!GoneThrough, Promise!Rotated
<1>2. Promise!OneList'
  BY SameOperators, <1>1 DEF Promise!OneList
<1>3. Sequences' \in [Promise!Lists -> Seq(Items)]
  BY <1>1 DEF Promise!GoneThrough
<1> QED
  BY <1>2, <1>3

(* When the values stay, a list that changes must stay in order; unsorted   *)
(* lists have none to keep.                                                 *)
Ordered(s) == \A m, n \in 1 .. Len(s) : m <= n => xItemValue[s[m]] <= xItemValue[s[n]]

LEMMA InOrderStep ==
  ASSUME Promise!TypeOK, Promise!InOrder, NEW l \in Promise!Lists, NEW r \in Seq(Items),
         Sequences' = [Sequences EXCEPT ![l] = r], xItemValue' = xItemValue,
         l \in Sorted => Ordered(r)
  PROVE  Promise!InOrder'
<1>1. Sequences'[l] = r /\ \A m \in Promise!Lists \ {l} : Sequences'[m] = Sequences[m]
  BY DEF Promise!TypeOK
<1>2. DOMAIN r = 1 .. Len(r)
  OBVIOUS
<1>3. ASSUME NEW k \in Sorted, NEW m \in DOMAIN Sequences'[k], NEW n \in DOMAIN Sequences'[k],
             m <= n
      PROVE  xItemValue'[Sequences'[k][m]] <= xItemValue'[Sequences'[k][n]]
  <2>1. CASE k = l
    BY <1>1, <1>2, <1>3, <2>1 DEF Ordered
  <2>2. CASE k # l
    <3>1. Sequences'[k] = Sequences[k]
      BY <1>1, <2>2 DEF Promise!Lists
    <3> QED
      BY <1>3, <3>1 DEF Promise!InOrder
  <2> QED
    BY <2>1, <2>2
<1> QED
  BY <1>3 DEF Promise!InOrder

(* What is in order and loses an entry stays in order.                      *)
LEMMA OrderedRemove ==
  ASSUME xItemValue \in [Items -> Promise!Values], DelayAssumption, NEW s \in Seq(Items),
         Ordered(s), NEW n \in 1 .. Len(s)
  PROVE  Ordered(RemoveAt(s, n))
<1> DEFINE r == RemoveAt(s, n)
<1>1. /\ Len(r) = Len(s) - 1
      /\ \A m \in 1 .. Len(s) - 1 : r[m] = IF m < n THEN s[m] ELSE s[m + 1]
  BY RemoveEntries
<1> HIDE DEF r
<1>2. ASSUME NEW i \in 1 .. Len(r), NEW j \in 1 .. Len(r), i <= j
      PROVE  xItemValue[r[i]] <= xItemValue[r[j]]
  <2> DEFINE a == IF i < n THEN i ELSE i + 1
             b == IF j < n THEN j ELSE j + 1
  <2>1. r[i] = s[a] /\ r[j] = s[b]
    BY <1>1
  <2>2. a \in 1 .. Len(s) /\ b \in 1 .. Len(s) /\ a <= b
    BY <1>1, <1>2
  <2> HIDE DEF a, b
  <2> QED
    BY <2>1, <2>2 DEF Ordered
<1> QED
  BY <1>2 DEF Ordered, r

(* What is in order and takes a value where vListInsert puts it stays so.   *)
LEMMA OrderedInsert ==
  ASSUME xItemValue \in [Items -> Promise!Values], DelayAssumption, NEW s \in Seq(Items),
         Ordered(s), NEW x \in Items, NEW n \in 0 .. Len(s),
         Promise!Before(s, xItemValue[x], n)
  PROVE  Ordered(InsertAt(s, n + 1, x))
<1> DEFINE r == InsertAt(s, n + 1, x)
           v(m) == xItemValue[r[m]]
<1>1. /\ Len(r) = Len(s) + 1
      /\ \A m \in 1 .. Len(s) + 1 :
           r[m] = IF m <= n THEN s[m] ELSE IF m = n + 1 THEN x ELSE s[m - 1]
  BY InsertEntries
<1> HIDE DEF r
<1>2. \A m \in 1 .. Len(s) : xItemValue[s[m]] \in Int
  BY DEF Promise!Values, DelayAssumption
<1>3. xItemValue[x] \in Int
  BY DEF Promise!Values, DelayAssumption
<1>4. \A m \in 1 .. Len(s) : m <= n => xItemValue[s[m]] <= xItemValue[x]
  BY DEF Promise!Before
<1>5. \A m \in 1 .. Len(s) : m > n => xItemValue[x] <= xItemValue[s[m]]
  <2>1. ASSUME NEW m \in 1 .. Len(s), m > n
        PROVE  xItemValue[x] <= xItemValue[s[m]]
    <3>1. n + 1 \in 1 .. Len(s) /\ n + 1 <= m
      BY <2>1
    <3>2. xItemValue[x] < xItemValue[s[n + 1]]
      BY <3>1 DEF Promise!Before
    <3>3. xItemValue[s[n + 1]] <= xItemValue[s[m]]
      BY <3>1 DEF Ordered
    <3> QED
      BY <1>2, <1>3, <3>1, <3>2, <3>3
  <2> QED
    BY <2>1
<1>6. ASSUME NEW i \in 1 .. Len(r), NEW j \in 1 .. Len(r), i <= j
      PROVE  xItemValue[r[i]] <= xItemValue[r[j]]
  <2> DEFINE back(m) == IF m <= n THEN m ELSE m - 1
  <2>1. ASSUME NEW m \in 1 .. Len(r), m # n + 1
        PROVE  r[m] = s[back(m)] /\ back(m) \in 1 .. Len(s)
    BY <1>1, <2>1
  <2>2. n + 1 \in 1 .. Len(r) /\ r[n + 1] = x
    BY <1>1
  <2>3. CASE i = n + 1 /\ j = n + 1
    BY <1>3, <2>2, <2>3
  <2>4. CASE i = n + 1 /\ j # n + 1
    <3>1. back(j) > n
      BY <1>6, <2>4
    <3> QED
      BY <1>5, <2>1, <2>2, <2>4, <3>1
  <2>5. CASE i # n + 1 /\ j = n + 1
    <3>1. back(i) <= n
      BY <1>6, <2>5
    <3> QED
      BY <1>4, <2>1, <2>2, <2>5, <3>1
  <2>6. CASE i # n + 1 /\ j # n + 1
    <3>1. back(i) <= back(j)
      BY <1>6, <2>6
    <3> HIDE DEF back
    <3> QED
      BY <2>1, <2>6, <3>1 DEF Ordered
  <2> QED
    BY <2>3, <2>4, <2>5, <2>6
<1> QED
  BY <1>6 DEF Ordered, r

(* A sorted list is in order, read as a sequence.                           *)
LEMMA SortedOrdered ==
  ASSUME Promise!TypeOK, Promise!InOrder, NEW l \in Sorted
  PROVE  Ordered(Sequences[l]) /\ Sequences[l] \in Seq(Items)
<1>1. Sequences[l] \in Seq(Items)
  BY DEF Promise!TypeOK, Promise!Lists
<1>2. DOMAIN Sequences[l] = 1 .. Len(Sequences[l])
  BY <1>1
<1> QED
  BY <1>1, <1>2 DEF Promise!InOrder, Ordered

(* Every operation keeps the invariant.                                     *)
LEMMA ListNext == ListInv /\ [Promise!Next]_(Promise!vars) => ListInv'
<1> SUFFICES ASSUME ListInv, [Promise!Next]_(Promise!vars) PROVE ListInv'
  OBVIOUS
<1> USE ItemsAssumption, UseAssumption, DelayAssumption
<1>0. Promise!TypeOK /\ Promise!OneList /\ Promise!InOrder /\ xItemValue \in [Items -> Promise!Values]
  BY DEF ListInv, Promise!TypeOK
<1>1. CASE UNCHANGED Promise!vars
  BY <1>0, <1>1 DEF Promise!vars, ListInv, Promise!TypeOK, Promise!OneList, Promise!InOrder
<1>2. ASSUME NEW i \in Items, NEW v \in Promise!Values, Promise!SetValue(i, v)
      PROVE  ListInv'
  <2>1. Promise!TypeOK' /\ Promise!OneList'
    BY <1>0, <1>2 DEF Promise!SetValue, Promise!TypeOK, Promise!OneList
  <2>2. ASSUME NEW l \in Sorted, NEW m \in DOMAIN Sequences[l]
        PROVE  xItemValue'[Sequences[l][m]] = xItemValue[Sequences[l][m]]
    <3>1. Sequences[l][m] # i
      BY SameOperators, <1>2 DEF Promise!SetValue, Promise!Free, Promise!On, ToSet, Promise!Lists
    <3> QED
      BY <1>0, <1>2, <3>1 DEF Promise!SetValue
  <2>3. Promise!InOrder'
    BY <1>0, <1>2, <2>2 DEF Promise!SetValue, Promise!InOrder
  <2> QED
    BY <2>1, <2>3 DEF ListInv
<1>3. ASSUME NEW i \in Items, NEW l \in Ready \cup Fifo, Promise!vListInsertEnd(l, i)
      PROVE  ListInv'
  <2>1. l \in Promise!Lists /\ l \notin Sorted /\ Sequences[l] \in Seq(Items)
    BY <1>0 DEF Promise!Lists, Promise!TypeOK
  <2>2. i \notin ToSet(Sequences[l])
    BY SameOperators, <1>3, <2>1 DEF Promise!vListInsertEnd, Promise!Free, Promise!On
  <2> DEFINE r == Append(Sequences[l], i)
  <2>3. r \in Seq(Items) /\ IsInjective(r) /\ ToSet(r) = ToSet(Sequences[l]) \cup {i}
    BY SameOperators, <1>0, <2>1, <2>2, AppendNew DEF Promise!OneList
  <2>4. Sequences' = [Sequences EXCEPT ![l] = r] /\ xItemValue' = xItemValue /\ got' = <<>>
    BY <1>3 DEF Promise!vListInsertEnd
  <2> HIDE DEF r
  <2>5. \A j \in ToSet(r) : Promise!On(j, l) \/ Promise!Free(j)
    BY SameOperators, <1>3, <2>3 DEF Promise!vListInsertEnd, Promise!On
  <2>6. Promise!OneList' /\ Sequences' \in [Promise!Lists -> Seq(Items)]
    BY <1>0, <2>1, <2>3, <2>4, <2>5, OneListStep
  <2>7. Promise!InOrder'
    BY <1>0, <2>1, <2>3, <2>4, InOrderStep
  <2> QED
    BY <1>0, <2>4, <2>6, <2>7 DEF ListInv, Promise!TypeOK
<1>4. ASSUME NEW i \in Items, NEW l \in Sorted, Promise!vListInsert(l, i)
      PROVE  ListInv'
  <2>1. l \in Promise!Lists /\ Sequences[l] \in Seq(Items) /\ Ordered(Sequences[l])
    BY <1>0, SortedOrdered DEF Promise!Lists
  <2>2. i \in Items \ ToSet(Sequences[l])
    BY SameOperators, <1>4, <2>1 DEF Promise!vListInsert, Promise!Free, Promise!On
  <2>3. PICK n \in 0 .. Len(Sequences[l]) :
          /\ Promise!Before(Sequences[l], xItemValue[i], n)
          /\ Sequences' = [Sequences EXCEPT ![l] = InsertAt(Sequences[l], n + 1, i)]
    BY SameOperators, <1>4 DEF Promise!vListInsert
  <2> DEFINE r == InsertAt(Sequences[l], n + 1, i)
  <2>4. r \in Seq(Items) /\ IsInjective(r) /\ ToSet(r) = ToSet(Sequences[l]) \cup {i}
    <3>1. IsInjective(Sequences[l])
      BY SameOperators, <1>0, <2>1 DEF Promise!OneList
    <3>2. r \in Seq(Items)
      BY <2>1, InsertEntries
    <3>3. IsInjective(r) /\ ToSet(r) = ToSet(Sequences[l]) \cup {i}
      BY <2>1, <2>2, <3>1, InsertNew
    <3> QED
      BY <3>2, <3>3
  <2>5. Ordered(r)
    BY <1>0, <2>1, <2>3, OrderedInsert
  <2>6. Sequences' = [Sequences EXCEPT ![l] = r] /\ xItemValue' = xItemValue /\ got' = <<>>
    BY <1>4, <2>3 DEF Promise!vListInsert
  <2> HIDE DEF r
  <2>7. \A j \in ToSet(r) : Promise!On(j, l) \/ Promise!Free(j)
    BY SameOperators, <1>4, <2>4 DEF Promise!vListInsert, Promise!On
  <2>8. Promise!OneList' /\ Sequences' \in [Promise!Lists -> Seq(Items)]
    BY <1>0, <2>1, <2>4, <2>6, <2>7, OneListStep
  <2>9. Promise!InOrder'
    BY <1>0, <2>1, <2>4, <2>5, <2>6, InOrderStep
  <2> QED
    BY <1>0, <2>6, <2>8, <2>9 DEF ListInv, Promise!TypeOK
<1>5. ASSUME NEW i \in Items, NEW l \in Promise!Lists, Promise!vListRemove(l, i)
      PROVE  ListInv'
  <2>1. i \in ToSet(Sequences[l]) /\ Sequences[l] \in Seq(Items)
    BY SameOperators, <1>0, <1>5 DEF Promise!vListRemove, Promise!On, Promise!TypeOK
  <2> DEFINE n == Promise!Place(Sequences[l], i)
             r == RemoveAt(Sequences[l], n)
  <2>2. r \in Seq(Items) /\ IsInjective(r) /\ ToSet(r) = ToSet(Sequences[l]) \ {i}
    BY <1>0, <2>1, TakenFacts
  <2>3. n \in 1 .. Len(Sequences[l])
    BY <2>1, PlaceOf DEF Promise!Place
  <2>4. Sequences' = [Sequences EXCEPT ![l] = r] /\ xItemValue' = xItemValue /\ got' = <<>>
    BY SameOperators, <1>5 DEF Promise!vListRemove, Promise!Taken
  <2> HIDE DEF n
  <2>5. l \in Sorted => Ordered(r)
    BY <1>0, <2>3, SortedOrdered, OrderedRemove
  <2> HIDE DEF r
  <2>6. \A j \in ToSet(r) : Promise!On(j, l) \/ Promise!Free(j)
    BY SameOperators, <2>2 DEF Promise!On
  <2>7. Promise!OneList' /\ Sequences' \in [Promise!Lists -> Seq(Items)]
    BY <1>0, <2>2, <2>4, <2>6, OneListStep
  <2>8. Promise!InOrder'
    BY <1>0, <2>2, <2>4, <2>5, InOrderStep
  <2> QED
    BY <1>0, <2>4, <2>7, <2>8 DEF ListInv, Promise!TypeOK
<1>6. ASSUME NEW l \in Ready, Promise!NextEntry(l)
      PROVE  ListInv'
  <2>1. l \in Promise!Lists /\ l \notin Sorted /\ Sequences[l] \in Seq(Items) /\ Sequences[l] # <<>>
    BY <1>0, <1>6 DEF Promise!Lists, Promise!TypeOK, Promise!NextEntry
  <2> DEFINE r == Append(Tail(Sequences[l]), Head(Sequences[l]))
  <2>2. r \in Seq(Items) /\ IsInjective(r) /\ ToSet(r) = ToSet(Sequences[l])
    BY SameOperators, <1>0, <2>1, RotateOnce DEF Promise!OneList
  <2>3. Sequences' = [Sequences EXCEPT ![l] = r] /\ xItemValue' = xItemValue
    BY <1>6 DEF Promise!NextEntry, Promise!Rotated
  <2>4. got' \in Seq(Items)
    <3>1. Head(Sequences[l]) \in Items
      BY <2>1, HeadTailProperties
    <3> QED
      BY <1>6, <3>1 DEF Promise!NextEntry
  <2> HIDE DEF r
  <2>5. \A j \in ToSet(r) : Promise!On(j, l) \/ Promise!Free(j)
    BY SameOperators, <2>2 DEF Promise!On
  <2>6. Promise!OneList' /\ Sequences' \in [Promise!Lists -> Seq(Items)]
    BY <1>0, <2>1, <2>2, <2>3, <2>5, OneListStep
  <2>7. Promise!InOrder'
    BY <1>0, <2>1, <2>2, <2>3, InOrderStep
  <2> QED
    BY <1>0, <2>3, <2>4, <2>6, <2>7 DEF ListInv, Promise!TypeOK
<1>7. ASSUME NEW l \in Fifo \cup Sorted, Promise!TakeHead(l)
      PROVE  ListInv'
  <2>1. l \in Promise!Lists /\ Sequences[l] \in Seq(Items) /\ Sequences[l] # <<>>
    BY <1>0, <1>7 DEF Promise!Lists, Promise!TypeOK, Promise!TakeHead
  <2> DEFINE r == Tail(Sequences[l])
  <2>2. r \in Seq(Items) /\ IsInjective(r) /\ ToSet(r) \subseteq ToSet(Sequences[l])
    BY SameOperators, <1>0, <2>1, TailOnce DEF Promise!OneList
  <2>3. Sequences' = [Sequences EXCEPT ![l] = r] /\ xItemValue' = xItemValue
    BY <1>7 DEF Promise!TakeHead
  <2>4. got' \in Seq(Items)
    <3>1. Head(Sequences[l]) \in Items
      BY <2>1, HeadTailProperties
    <3> QED
      BY <1>7, <3>1 DEF Promise!TakeHead
  <2>5. l \in Sorted => Ordered(r)
    <3>1. Len(r) = Len(Sequences[l]) - 1 /\ \A m \in 1 .. Len(r) : r[m] = Sequences[l][m + 1]
      BY <2>1, HeadTailProperties
    <3> HIDE DEF r
    <3>2. ASSUME l \in Sorted, NEW m \in 1 .. Len(r), NEW n \in 1 .. Len(r), m <= n
          PROVE  xItemValue[r[m]] <= xItemValue[r[n]]
      <4>1. m + 1 \in 1 .. Len(Sequences[l]) /\ n + 1 \in 1 .. Len(Sequences[l])
            /\ m + 1 <= n + 1
        BY <2>1, <3>1, <3>2
      <4>2. xItemValue[Sequences[l][m + 1]] <= xItemValue[Sequences[l][n + 1]]
        BY <1>0, <3>2, <4>1, SortedOrdered DEF Ordered
      <4> QED
        BY <3>1, <4>2
    <3> QED
      BY <3>2 DEF Ordered
  <2> HIDE DEF r
  <2>6. \A j \in ToSet(r) : Promise!On(j, l) \/ Promise!Free(j)
    BY SameOperators, <2>2 DEF Promise!On
  <2>7. Promise!OneList' /\ Sequences' \in [Promise!Lists -> Seq(Items)]
    BY <1>0, <2>1, <2>2, <2>3, <2>6, OneListStep
  <2>8. Promise!InOrder'
    BY <1>0, <2>1, <2>2, <2>3, <2>5, InOrderStep
  <2> QED
    BY <1>0, <2>3, <2>4, <2>7, <2>8 DEF ListInv, Promise!TypeOK
<1>8. ASSUME Promise!vTaskList \/ Promise!vTaskGetRunTimeStats
      PROVE  ListInv'
  <2>1. Promise!GoneThrough /\ xItemValue' = xItemValue
    BY <1>8 DEF Promise!vTaskList, Promise!vTaskGetRunTimeStats
  <2>2. got' \in Seq(Items)
    <3>1. CASE Promise!vTaskList
      BY <3>1 DEF Promise!vTaskList
    <3>2. CASE got' = <<>>
      BY <3>2
    <3> QED
      BY <1>8, <3>1, <3>2 DEF Promise!vTaskGetRunTimeStats
  <2>3. Promise!OneList' /\ Sequences' \in [Promise!Lists -> Seq(Items)]
    BY <1>0, <2>1, TurnStep
  <2>4. Promise!InOrder'
    <3>1. \A l \in Sorted : Sequences'[l] = Sequences[l]
      BY <2>1 DEF Promise!GoneThrough, Promise!Lists
    <3> QED
      BY <1>0, <2>1, <3>1 DEF Promise!InOrder
  <2> QED
    BY <1>0, <2>1, <2>2, <2>3, <2>4 DEF ListInv, Promise!TypeOK
<1> QED
  BY SameOperators, <1>1, <1>2, <1>3, <1>4, <1>5, <1>6, <1>7, <1>8 DEF Promise!Next

(* The lists never leave the invariant.                                     *)
LEMMA ListInvariance == Promise!Spec => []ListInv
  BY ListInit, ListNext, PTL DEF Promise!Spec

(* Whatever a caller does with the lists, an item is on at most one of      *)
(* them, and once: vListRemove finds the right list in pvContainer.         *)
THEOREM NeverTwice == Promise!Spec => []Promise!OneList
<1>1. ListInv => Promise!OneList
  BY DEF ListInv
<1> QED
  BY <1>1, ListInvariance, PTL

(* The delayed and event lists are always in order of value: the head is    *)
(* the first task to unblock, or the most important waiter.                 *)
THEOREM AlwaysInOrder == Promise!Spec => []Promise!InOrder
<1>1. ListInv => Promise!InOrder
  BY DEF ListInv
<1> QED
  BY <1>1, ListInvariance, PTL

-----------------------------------------------------------------------------
(* Rings.  The items c of list l lie between its end marker and itself.     *)

NodeAt(l, c, n) == IF n \in 1 .. Len(c) THEN c[n] ELSE l
Around(next, previous, l, c) ==
  \A n \in 0 .. Len(c) : /\ next[NodeAt(l, c, n)] = NodeAt(l, c, n + 1)
                         /\ previous[NodeAt(l, c, n + 1)] = NodeAt(l, c, n)
Linked(l, c) ==
  /\ c \in Seq(Items) /\ IsInjective(c)
  /\ Len(c) = uxNumberOfItems[l]
  /\ ToSet(c) = {i \in Items : pvContainer[i] = l}
  /\ Around(pxNext, pxPrevious, l, c)

(* pxIndex stands at place p; of a list that is read by its head only, at   *)
(* the last item.                                                           *)
Indexed(l, c, p) ==
  /\ p \in 0 .. Len(c) /\ pxIndex[l] = NodeAt(l, c, p)
  /\ l \in Fifo => p = Len(c)

Typed ==
  /\ pxNext \in [Nodes -> Nodes \cup {Null}]
  /\ pxPrevious \in [Nodes -> Nodes \cup {Null}]
  /\ pxIndex \in [Lists -> Nodes] /\ uxNumberOfItems \in [Lists -> Nat]
  /\ pvContainer \in [Items -> Lists \cup {Null}]
  /\ xItemValue \in [Items -> Values] /\ got \in Seq(Items)

(* The inductive invariant.                                                 *)
IInv ==
  /\ Typed
  /\ \A l \in Lists : /\ Linked(l, Chain(l))
                       /\ \E p \in 0 .. Len(Chain(l)) : Indexed(l, Chain(l), p)

LEMMA NodesOf ==
  ASSUME NEW l \in Lists, NEW c \in Seq(Items)
  PROVE  /\ NodeAt(l, c, 0) = l /\ NodeAt(l, c, Len(c) + 1) = l
         /\ \A n \in 1 .. Len(c) : NodeAt(l, c, n) = c[n] /\ c[n] \in Items
         /\ \A n : NodeAt(l, c, n) \in {l} \cup ToSet(c)
         /\ {l} \cup ToSet(c) \subseteq Nodes /\ l \notin Items
         /\ Len(c) \in Nat
<1>1. Len(c) \in Nat /\ \A n \in 1 .. Len(c) : c[n] \in Items /\ c[n] \in ToSet(c)
  BY EntriesOf
<1>2. ToSet(c) \subseteq Items
  BY EntriesOf
<1> QED
  BY <1>1, <1>2, ItemsAssumption DEF NodeAt, Nodes

(* No two places have the same node, but the two of the marker.             *)
LEMMA NodesApart ==
  ASSUME NEW l \in Lists, NEW c \in Seq(Items), IsInjective(c)
  PROVE  /\ \A m, n \in 0 .. Len(c) : NodeAt(l, c, m) = NodeAt(l, c, n) => m = n
         /\ \A m, n \in 0 .. Len(c) : NodeAt(l, c, m + 1) = NodeAt(l, c, n + 1) => m = n
<1>1. \A m, n \in 1 .. Len(c) : c[m] = c[n] => m = n
  BY EntriesOf DEF IsInjective
<1>2. l \notin Items /\ Len(c) \in Nat /\ \A n \in 1 .. Len(c) : c[n] \in Items
  BY NodesOf
<1> QED
  BY <1>1, <1>2 DEF NodeAt

(* An item is entered behind place p.                                       *)
LEMMA RingEntered ==
  ASSUME NEW l \in Lists, NEW c \in Seq(Items), IsInjective(c),
         NEW nx \in [Nodes -> Nodes \cup {Null}],
         NEW pv \in [Nodes -> Nodes \cup {Null}], Around(nx, pv, l, c),
         NEW i \in Items \ ToSet(c), NEW p \in 0 .. Len(c),
         NEW n, n = NodeAt(l, c, p)
  PROVE  Around([nx EXCEPT ![i] = nx[n], ![n] = i],
                [pv EXCEPT ![nx[n]] = i, ![i] = n], l, InsertAt(c, p + 1, i))
<1> DEFINE d == InsertAt(c, p + 1, i)
           at(k) == NodeAt(l, c, k)
           to(k) == NodeAt(l, d, k)
           nx2 == [nx EXCEPT ![i] = nx[n], ![n] = i]
           pv2 == [pv EXCEPT ![nx[n]] = i, ![i] = n]
<1>1. /\ d \in Seq(Items) /\ Len(d) = Len(c) + 1
      /\ \A m \in 1 .. Len(c) + 1 :
           d[m] = IF m <= p THEN c[m] ELSE IF m = p + 1 THEN i ELSE c[m - 1]
  BY InsertEntries
<1> HIDE DEF d
<1>2. Len(c) \in Nat /\ \A k : at(k) \in Nodes /\ at(k) # i
  BY NodesOf, ItemsAssumption
<1>3. \A k \in 0 .. Len(c) + 2 :
        to(k) = IF k <= p THEN at(k) ELSE IF k = p + 1 THEN i ELSE at(k - 1)
  BY <1>1, <1>2 DEF NodeAt
<1>4. \A k \in 0 .. Len(c) : nx[at(k)] = at(k + 1) /\ pv[at(k + 1)] = at(k)
  BY DEF Around
<1>5. /\ \A j, k \in 0 .. Len(c) : at(j) = at(k) => j = k
      /\ \A j, k \in 0 .. Len(c) : at(j + 1) = at(k + 1) => j = k
  BY NodesApart
<1> HIDE DEF at, to
<1>6. /\ n = at(p) /\ nx[n] = at(p + 1) /\ i \in Nodes
      /\ n \in Nodes /\ n # i /\ nx[n] \in Nodes /\ nx[n] # i
  BY <1>2, <1>4 DEF at, Nodes
<1>7. /\ nx2[i] = at(p + 1) /\ nx2[n] = i
      /\ \A x \in Nodes : x # i /\ x # n => nx2[x] = nx[x]
  BY <1>6
<1>8. /\ pv2[i] = n /\ pv2[at(p + 1)] = i
      /\ \A x \in Nodes : x # i /\ x # at(p + 1) => pv2[x] = pv[x]
  BY <1>6
<1> HIDE DEF nx2, pv2
<1>9. ASSUME NEW k \in 0 .. Len(c) + 1
      PROVE  nx2[to(k)] = to(k + 1) /\ pv2[to(k + 1)] = to(k)
  <2>1. CASE k < p
    <3>1. to(k) = at(k) /\ to(k + 1) = at(k + 1) /\ k \in 0 .. Len(c)
      BY <1>2, <1>3, <2>1
    <3>2. at(k) # n /\ at(k + 1) # at(p + 1)
      BY <1>5, <1>6, <2>1, <3>1
    <3> QED
      BY <1>2, <1>4, <1>7, <1>8, <3>1, <3>2
  <2>2. CASE k = p
    <3>1. to(k) = n /\ to(k + 1) = i
      BY <1>2, <1>3, <1>6, <2>2
    <3> QED
      BY <1>7, <1>8, <3>1
  <2>3. CASE k = p + 1
    <3>1. to(k) = i /\ to(k + 1) = at(p + 1)
      BY <1>2, <1>3, <2>3
    <3> QED
      BY <1>7, <1>8, <3>1
  <2>4. CASE k > p + 1
    <3>1. to(k) = at(k - 1) /\ to(k + 1) = at(k) /\ k - 1 \in 0 .. Len(c) /\ k - 1 + 1 = k
      BY <1>2, <1>3, <2>4
    <3>2. at(k - 1) # n /\ at(k) # at(p + 1)
      BY <1>5, <1>6, <2>4, <3>1
    <3> QED
      BY <1>2, <1>4, <1>7, <1>8, <3>1, <3>2
  <2> QED
    BY <1>2, <2>1, <2>2, <2>3, <2>4
<1>10. Around(nx2, pv2, l, d)
  BY <1>1, <1>9 DEF Around, to
<1> QED
  BY <1>10 DEF nx2, pv2, d

(* The item at place p leaves.                                              *)
LEMMA RingLeft ==
  ASSUME NEW l \in Lists, NEW c \in Seq(Items), IsInjective(c),
         NEW nx \in [Nodes -> Nodes \cup {Null}],
         NEW pv \in [Nodes -> Nodes \cup {Null}], Around(nx, pv, l, c),
         NEW p \in 1 .. Len(c), NEW i, i = c[p],
         NEW nx2, nx2 = [nx EXCEPT ![pv[i]] = nx[i]],
         NEW pv2, pv2 = [pv EXCEPT ![nx[i]] = pv[i]]
  PROVE  /\ Around(nx2, pv2, l, RemoveAt(c, p))
         /\ pv[i] = NodeAt(l, c, p - 1) /\ nx[i] = NodeAt(l, c, p + 1)
         /\ \A k \in 0 .. Len(c) :
              NodeAt(l, RemoveAt(c, p), k) = NodeAt(l, c, IF k < p THEN k ELSE k + 1)
<1> DEFINE d == RemoveAt(c, p)
           at(k) == NodeAt(l, c, k)
           to(k) == NodeAt(l, d, k)
<1>1. /\ d \in Seq(Items) /\ Len(d) = Len(c) - 1
      /\ \A m \in 1 .. Len(c) - 1 : d[m] = IF m < p THEN c[m] ELSE c[m + 1]
  BY RemoveEntries
<1> HIDE DEF d
<1>2. Len(c) \in Nat /\ \A k : at(k) \in Nodes
  BY NodesOf
<1>3. \A k \in 0 .. Len(c) : to(k) = at(IF k < p THEN k ELSE k + 1)
  BY <1>1, <1>2 DEF NodeAt
<1>4. \A k \in 0 .. Len(c) : nx[at(k)] = at(k + 1) /\ pv[at(k + 1)] = at(k)
  BY DEF Around
<1>5. /\ \A j, k \in 0 .. Len(c) : at(j) = at(k) => j = k
      /\ \A j, k \in 0 .. Len(c) : at(j + 1) = at(k + 1) => j = k
  BY NodesApart
<1>6. i = at(p)
  BY NodesOf
<1> HIDE DEF at, to
<1>7. pv[i] = at(p - 1) /\ nx[i] = at(p + 1)
  <2>1. p - 1 \in 0 .. Len(c) /\ p - 1 + 1 = p /\ p \in 0 .. Len(c)
    BY <1>2
  <2> QED
    BY <1>4, <1>6, <2>1
<1>8. /\ nx2[at(p - 1)] = at(p + 1) /\ pv2[at(p + 1)] = at(p - 1)
      /\ \A x \in Nodes : x # at(p - 1) => nx2[x] = nx[x]
      /\ \A x \in Nodes : x # at(p + 1) => pv2[x] = pv[x]
  BY <1>2, <1>7
<1>9. ASSUME NEW k \in 0 .. Len(c) - 1
      PROVE  nx2[to(k)] = to(k + 1) /\ pv2[to(k + 1)] = to(k)
  <2>1. CASE k < p - 1
    <3>1. to(k) = at(k) /\ to(k + 1) = at(k + 1) /\ k \in 0 .. Len(c)
      BY <1>2, <1>3, <2>1
    <3>2. at(k) # at(p - 1) /\ at(k + 1) # at(p + 1)
      BY <1>2, <1>5, <2>1, <3>1
    <3> QED
      BY <1>2, <1>4, <1>8, <3>1, <3>2
  <2>2. CASE k = p - 1
    <3>1. to(k) = at(p - 1) /\ to(k + 1) = at(p + 1)
      BY <1>2, <1>3, <2>2
    <3> QED
      BY <1>8, <3>1
  <2>3. CASE k >= p
    <3>1. to(k) = at(k + 1) /\ to(k + 1) = at(k + 1 + 1) /\ k + 1 \in 0 .. Len(c)
      BY <1>2, <1>3, <2>3
    <3>2. at(k + 1) # at(p - 1) /\ at(k + 1 + 1) # at(p + 1)
      BY <1>2, <1>5, <2>3, <3>1
    <3> QED
      BY <1>2, <1>4, <1>8, <3>1, <3>2
  <2> QED
    BY <1>2, <2>1, <2>2, <2>3
<1>10. Around(nx2, pv2, l, d)
  BY <1>1, <1>9 DEF Around, to
<1> QED
  BY <1>3, <1>7, <1>10 DEF d, at, to

(* A ring whose nodes keep their pointers stays as it is.                   *)
LEMMA RingElsewhere ==
  ASSUME NEW m \in Lists, NEW d \in Seq(Items), NEW nx, NEW pv, NEW nx2, NEW pv2,
         Around(nx, pv, m, d),
         \A x \in {m} \cup ToSet(d) : nx2[x] = nx[x] /\ pv2[x] = pv[x]
  PROVE  Around(nx2, pv2, m, d)
BY NodesOf DEF Around

(* An injective sequence of items is no longer than there are items.        *)
LEMMA LengthBound ==
  ASSUME NEW c \in Seq(Items), IsInjective(c)
  PROVE  Len(c) <= Cardinality(Items) /\ Cardinality(Items) \in Nat
<1> DEFINE n == Len(c)
           a == SubSeq(c, 1, n)
           b == SubSeq(c, n + 1, Len(c))
<1>1. n \in 0 .. Len(c) /\ n \in Nat
  OBVIOUS
<1>2. /\ ToSet(a) \cup ToSet(b) = ToSet(c)
      /\ Cardinality(ToSet(a)) = n /\ (b # <<>> => n < Len(c))
  BY <1>1, SplitOnce
<1>3. ToSet(a) \subseteq Items
  BY <1>2, EntriesOf
<1> HIDE DEF a
<1>4. Cardinality(ToSet(a)) <= Cardinality(Items) /\ Cardinality(Items) \in Nat
  BY <1>3, ItemsAssumption, FS_Subset, FS_CardinalityType
<1> QED
  BY <1>2, <1>4

(* Following pxNext from the marker leads round the ring.                   *)
Follows(l, f) ==
  f = [n \in 0 .. Cardinality(Items) |-> IF n = 0 THEN l ELSE pxNext[f[n - 1]]]

LEMMA Followed ==
  ASSUME NEW l \in Lists, NEW c \in Seq(Items), IsInjective(c),
         Around(pxNext, pxPrevious, l, c)
  PROVE  /\ Follows(l, Steps(l))
         /\ \A n \in 0 .. Len(c) : Steps(l)[n] = NodeAt(l, c, n)
<1> DEFINE K == Cardinality(Items)
           N == Len(c) + 1
           f == [k \in 0 .. K |-> NodeAt(l, c, k % N)]
<1>1. Len(c) \in Nat /\ N \in Nat \ {0} /\ K \in Nat /\ Len(c) <= K
  BY LengthBound
<1>a. \A k \in 0 .. K : f[k] = NodeAt(l, c, k % N)
  OBVIOUS
<1>b. f = [k \in 0 .. K |-> f[k]]
  OBVIOUS
<1>c. \A r \in 0 .. N - 1 : pxNext[NodeAt(l, c, r)] = NodeAt(l, c, r + 1)
  BY <1>1 DEF Around
<1>d. NodeAt(l, c, N) = l /\ NodeAt(l, c, 0) = l
  BY NodesOf
<1> HIDE DEF f, N, K
<1>2. ASSUME NEW k \in 1 .. K PROVE f[k] = pxNext[f[k - 1]]
  <2>1. k - 1 \in Int /\ k - 1 \in 0 .. K /\ k \in 0 .. K
    BY <1>1
  <2>2. PICK q \in Int : k - 1 = N * q + ((k - 1) % N)
    BY <1>1, <2>1, Division
  <2>3. (k - 1) % N \in 0 .. N - 1
    BY <1>1, <2>1, Division
  <2>4. PICK r \in 0 .. N - 1 : r = (k - 1) % N
    BY <2>3
  <2>5. f[k - 1] = NodeAt(l, c, r) /\ f[k] = NodeAt(l, c, k % N)
    BY <1>a, <2>1, <2>4
  <2>6. k = N * q + (r + 1)
    BY <1>1, <2>1, <2>2, <2>4
  <2>7. CASE r < N - 1
    <3>1. r + 1 \in 0 .. N - 1
      BY <1>1, <2>7
    <3>2. k % N = r + 1
      BY <1>1, <2>6, <3>1, Remainder
    <3> QED
      BY <1>c, <2>5, <3>2
  <2>8. CASE r = N - 1
    <3>1. N * (q + 1) = N * q + N
      BY <1>1
    <3>2. k = N * (q + 1) + 0 /\ q + 1 \in Int /\ 0 \in 0 .. N - 1
      BY <1>1, <2>6, <2>8, <3>1
    <3>3. k % N = 0 /\ r + 1 = N
      BY <1>1, <2>8, <3>2, Remainder
    <3> QED
      BY <1>c, <1>d, <2>5, <3>3
  <2> QED
    BY <1>1, <2>7, <2>8
<1>3. f[0] = l
  <2>1. 0 = N * 0 + 0 /\ 0 \in 0 .. N - 1 /\ 0 \in 0 .. K
    BY <1>1
  <2>2. 0 % N = 0
    BY <1>1, <2>1, Remainder
  <2> QED
    BY <1>a, <1>d, <2>1, <2>2
<1>4. Follows(l, f)
  <2>1. ASSUME NEW k \in 0 .. K PROVE f[k] = IF k = 0 THEN l ELSE pxNext[f[k - 1]]
    BY <1>1, <1>2, <1>3
  <2> QED
    BY <1>b, <2>1, Zenon DEF Follows, K
<1>5. Steps(l) = CHOOSE g : Follows(l, g)
  BY DEF Steps, Follows
<1>6. Follows(l, Steps(l))
  BY <1>4, <1>5, Zenon
<1> DEFINE B == {k \in 0 .. Len(c) : Steps(l)[k] # NodeAt(l, c, k)}
<1>7. ASSUME B # {} PROVE FALSE
  <2>1. PICK k \in B : \A j \in B : k <= j
    <3>1. B \subseteq 0 .. Len(c)
      OBVIOUS
    <3> QED
      BY <1>1, <1>7, <3>1, Least, Zenon
  <2>2. /\ k \in 0 .. K
        /\ Steps(l)[k] = IF k = 0 THEN l ELSE pxNext[Steps(l)[k - 1]]
    <3>1. k \in 0 .. K
      BY <1>1, <2>1
    <3> QED
      BY <1>6, <3>1 DEF Follows, K
  <2>3. k # 0
    BY <2>1, <2>2, NodesOf
  <2>4. k - 1 \in 0 .. Len(c) /\ k - 1 \notin B /\ k - 1 + 1 = k
    BY <1>1, <2>1, <2>3
  <2>5. pxNext[NodeAt(l, c, k - 1)] = NodeAt(l, c, k)
    BY <2>4 DEF Around
  <2> QED
    BY <2>1, <2>2, <2>3, <2>4, <2>5
<1> QED
  BY <1>6, <1>7

(* Chain is that sequence.                                                  *)
LEMMA ChainIs == \A l \in Lists : \A c : Linked(l, c) => Chain(l) = c
<1> SUFFICES ASSUME NEW l \in Lists, NEW c, Linked(l, c) PROVE Chain(l) = c
  OBVIOUS
<1>1. /\ c \in Seq(Items) /\ IsInjective(c) /\ Len(c) = uxNumberOfItems[l]
      /\ Around(pxNext, pxPrevious, l, c)
  BY DEF Linked
<1>2. \A n \in 1 .. Len(c) : Steps(l)[n] = c[n]
  BY <1>1, Followed, NodesOf
<1>3. Chain(l) = [n \in 1 .. Len(c) |-> c[n]]
  BY <1>1, <1>2 DEF Chain
<1>4. c = [n \in 1 .. Len(c) |-> c[n]]
  BY <1>1
<1> QED
  BY <1>3, <1>4

-----------------------------------------------------------------------------
(* What the operations do to the rings.                                     *)

(* Entering an item behind place p of list l.                               *)
LEMMA EnteredAt ==
  ASSUME Typed, NEW l \in Lists, NEW c, Linked(l, c), NEW p \in 0 .. Len(c),
         NEW i \in Items, pvContainer[i] = Null, Link(l, i, NodeAt(l, c, p))
  PROVE  /\ Linked(l, InsertAt(c, p + 1, i))'
         /\ \A m \in Lists \ {l} : \A d : Linked(m, d) => Linked(m, d)'
         /\ (/\ pxNext \in [Nodes -> Nodes \cup {Null}]
             /\ pxPrevious \in [Nodes -> Nodes \cup {Null}]
             /\ uxNumberOfItems \in [Lists -> Nat]
             /\ pvContainer \in [Items -> Lists \cup {Null}])'
<1> DEFINE n == NodeAt(l, c, p)
           e == InsertAt(c, p + 1, i)
<1>1. /\ c \in Seq(Items) /\ IsInjective(c) /\ Len(c) = uxNumberOfItems[l]
      /\ ToSet(c) = {j \in Items : pvContainer[j] = l}
      /\ Around(pxNext, pxPrevious, l, c)
  BY DEF Linked
<1>2. i \in Items \ ToSet(c) /\ \A m \in Lists : m # Null /\ m \notin Items
  BY <1>1, ItemsAssumption
<1>3. /\ n \in {l} \cup ToSet(c) /\ pxNext[n] = NodeAt(l, c, p + 1)
      /\ pxNext[n] \in {l} \cup ToSet(c)
  <2>1. \A k : NodeAt(l, c, k) \in {l} \cup ToSet(c)
    BY <1>1, NodesOf
  <2> QED
    BY <1>1, <2>1 DEF Around
<1>4. {l} \cup ToSet(c) \subseteq Nodes /\ i \in Nodes
  BY <1>1 DEF Nodes
<1> HIDE DEF n
<1>5. /\ pxNext' = [pxNext EXCEPT ![i] = pxNext[n], ![n] = i]
      /\ pxPrevious' = [pxPrevious EXCEPT ![pxNext[n]] = i, ![i] = n]
      /\ pvContainer' = [pvContainer EXCEPT ![i] = l]
      /\ uxNumberOfItems' = [uxNumberOfItems EXCEPT ![l] = @ + 1]
  BY DEF Link, n
<1>6. /\ pxNext' \in [Nodes -> Nodes \cup {Null}]
      /\ pxPrevious' \in [Nodes -> Nodes \cup {Null}]
  BY <1>3, <1>4, <1>5 DEF Typed
<1>7. /\ uxNumberOfItems' \in [Lists -> Nat] /\ uxNumberOfItems'[l] = uxNumberOfItems[l] + 1
      /\ \A m \in Lists \ {l} : uxNumberOfItems'[m] = uxNumberOfItems[m]
  BY <1>5 DEF Typed
<1>8. /\ pvContainer' \in [Items -> Lists \cup {Null}] /\ pvContainer'[i] = l
      /\ \A j \in Items \ {i} : pvContainer'[j] = pvContainer[j]
  BY <1>5 DEF Typed
<1>9. Linked(l, e)'
  <2>1. Around(pxNext', pxPrevious', l, e)
    <3>1. pxNext \in [Nodes -> Nodes \cup {Null}] /\ pxPrevious \in [Nodes -> Nodes \cup {Null}]
      BY DEF Typed
    <3> QED
      BY <1>1, <1>2, <1>5, <3>1, RingEntered DEF n
  <2>2. /\ e \in Seq(Items) /\ Len(e) = Len(c) + 1
        /\ IsInjective(e) /\ ToSet(e) = ToSet(c) \cup {i}
    <3>1. c \in Seq(Items) /\ IsInjective(c)
      BY <1>1
    <3>2. e \in Seq(Items) /\ Len(e) = Len(c) + 1
      BY <3>1, InsertEntries
    <3>3. IsInjective(e) /\ ToSet(e) = ToSet(c) \cup {i}
      BY <1>2, <3>1, InsertNew
    <3> QED
      BY <3>2, <3>3
  <2> HIDE DEF e
  <2>3. ToSet(c) \cup {i} = {j \in Items : pvContainer'[j] = l}
    BY <1>1, <1>8
  <2>4. Len(e) = uxNumberOfItems'[l]
    BY <1>1, <1>7, <2>2
  <2> QED
    BY <2>1, <2>2, <2>3, <2>4 DEF Linked
<1>10. ASSUME NEW m \in Lists \ {l}, NEW d, Linked(m, d) PROVE Linked(m, d)'
  <2>1. /\ d \in Seq(Items) /\ IsInjective(d) /\ Len(d) = uxNumberOfItems[m]
        /\ ToSet(d) = {j \in Items : pvContainer[j] = m}
        /\ Around(pxNext, pxPrevious, m, d)
    BY <1>10 DEF Linked
  <2>2. ASSUME NEW x \in {m} \cup ToSet(d)
        PROVE  pxNext'[x] = pxNext[x] /\ pxPrevious'[x] = pxPrevious[x]
    <3>1. x \in Nodes
      BY <2>1 DEF Nodes
    <3>2. x # i /\ x \notin {l} \cup ToSet(c)
      BY <1>1, <1>2, <2>1
    <3>3. x # n /\ x # pxNext[n]
      BY <1>3, <3>2
    <3> QED
      BY <1>3, <1>4, <1>5, <3>1, <3>2, <3>3 DEF Typed
  <2>3. Around(pxNext', pxPrevious', m, d)
    BY <2>1, <2>2, RingElsewhere
  <2>4. ToSet(d) = {j \in Items : pvContainer'[j] = m}
    BY <1>2, <1>8, <2>1
  <2> QED
    BY <1>7, <2>1, <2>3, <2>4 DEF Linked
<1> QED
  BY <1>6, <1>7, <1>8, <1>9, <1>10

(* Taking the item at place p out of list l.                                *)
LEMMA TakenOut ==
  ASSUME Typed, NEW l \in Lists, NEW c, Linked(l, c), NEW p \in 1 .. Len(c),
         NEW i, i = c[p], Unlink(i)
  PROVE  /\ i \in Items /\ pvContainer[i] = l
         /\ pxPrevious[i] = NodeAt(l, c, p - 1)
         /\ \A k \in 0 .. Len(c) :
              NodeAt(l, RemoveAt(c, p), k) = NodeAt(l, c, IF k < p THEN k ELSE k + 1)
         /\ Linked(l, RemoveAt(c, p))'
         /\ \A m \in Lists \ {l} : \A d : Linked(m, d) => Linked(m, d)'
         /\ (/\ pxNext \in [Nodes -> Nodes \cup {Null}]
             /\ pxPrevious \in [Nodes -> Nodes \cup {Null}]
             /\ uxNumberOfItems \in [Lists -> Nat]
             /\ pvContainer \in [Items -> Lists \cup {Null}])'
<1> DEFINE e == RemoveAt(c, p)
<1>1. /\ c \in Seq(Items) /\ IsInjective(c) /\ Len(c) = uxNumberOfItems[l]
      /\ ToSet(c) = {j \in Items : pvContainer[j] = l}
      /\ Around(pxNext, pxPrevious, l, c)
  BY DEF Linked
<1>2. i \in ToSet(c) /\ i \in Items /\ pvContainer[i] = l
  BY <1>1, EntriesOf
<1>3. \A m \in Lists : m # Null /\ m \notin Items
  BY ItemsAssumption
<1>t. pxNext \in [Nodes -> Nodes \cup {Null}] /\ pxPrevious \in [Nodes -> Nodes \cup {Null}]
  BY DEF Typed
<1>6. /\ pxPrevious' = [pxPrevious EXCEPT ![pxNext[i]] = pxPrevious[i]]
      /\ pxNext' = [pxNext EXCEPT ![pxPrevious[i]] = pxNext[i]]
      /\ pvContainer' = [pvContainer EXCEPT ![i] = Null]
      /\ uxNumberOfItems' = [uxNumberOfItems EXCEPT ![l] = @ - 1]
  BY <1>2 DEF Unlink
<1>4. /\ Around(pxNext', pxPrevious', l, e)
      /\ pxPrevious[i] = NodeAt(l, c, p - 1) /\ pxNext[i] = NodeAt(l, c, p + 1)
      /\ \A k \in 0 .. Len(c) : NodeAt(l, e, k) = NodeAt(l, c, IF k < p THEN k ELSE k + 1)
  <2>1. c \in Seq(Items) /\ IsInjective(c) /\ Around(pxNext, pxPrevious, l, c)
    BY <1>1
  <2> QED
    <3>1. Around(pxNext', pxPrevious', l, RemoveAt(c, p))
      BY <1>6, <1>t, <2>1, RingLeft, ZenonT(30)
    <3>2. pxPrevious[i] = NodeAt(l, c, p - 1) /\ pxNext[i] = NodeAt(l, c, p + 1)
      <4>1. p - 1 \in 0 .. Len(c) /\ p - 1 + 1 = p /\ p \in 0 .. Len(c)
        <5>1. Len(c) \in Nat
          BY <2>1
        <5> QED
          BY <5>1
      <4>2. NodeAt(l, c, p) = i
        BY DEF NodeAt
      <4> QED
        BY <2>1, <4>1, <4>2 DEF Around
    <3>3. \A k \in 0 .. Len(c) :
            NodeAt(l, RemoveAt(c, p), k) = NodeAt(l, c, IF k < p THEN k ELSE k + 1)
      BY <1>6, <1>t, <2>1, RingLeft, ZenonT(30)
    <3> QED
      BY <3>1, <3>2, <3>3
<1>5. /\ pxPrevious[i] \in {l} \cup ToSet(c) /\ pxNext[i] \in {l} \cup ToSet(c)
      /\ {l} \cup ToSet(c) \subseteq Nodes
  <2>1. \A k : NodeAt(l, c, k) \in {l} \cup ToSet(c)
    BY <1>1, NodesOf
  <2> QED
    BY <1>1, <1>4, <2>1 DEF Nodes
<1>7. /\ pxNext' \in [Nodes -> Nodes \cup {Null}]
      /\ pxPrevious' \in [Nodes -> Nodes \cup {Null}]
  BY <1>5, <1>6, <1>t
<1>8. uxNumberOfItems[l] \in Nat \ {0}
  BY <1>1, EntriesOf
<1>9. /\ uxNumberOfItems' \in [Lists -> Nat] /\ uxNumberOfItems'[l] = uxNumberOfItems[l] - 1
      /\ \A m \in Lists \ {l} : uxNumberOfItems'[m] = uxNumberOfItems[m]
  BY <1>6, <1>8 DEF Typed
<1>10. /\ pvContainer' \in [Items -> Lists \cup {Null}] /\ pvContainer'[i] = Null
       /\ \A j \in Items \ {i} : pvContainer'[j] = pvContainer[j]
  BY <1>2, <1>6 DEF Typed
<1>11. Linked(l, e)'
  <2>1. Around(pxNext', pxPrevious', l, e)
    BY <1>4
  <2>2. /\ e \in Seq(Items) /\ Len(e) = Len(c) - 1
        /\ IsInjective(e) /\ ToSet(e) = ToSet(c) \ {i}
    BY <1>1, RemoveEntries, RemoveOnce
  <2> HIDE DEF e
  <2>3. ToSet(c) \ {i} = {j \in Items : pvContainer'[j] = l}
    BY <1>1, <1>3, <1>10
  <2>4. Len(e) = uxNumberOfItems'[l]
    BY <1>1, <1>9, <2>2
  <2> QED
    BY <2>1, <2>2, <2>3, <2>4 DEF Linked
<1>12. ASSUME NEW m \in Lists \ {l}, NEW d, Linked(m, d) PROVE Linked(m, d)'
  <2>1. /\ d \in Seq(Items) /\ IsInjective(d) /\ Len(d) = uxNumberOfItems[m]
        /\ ToSet(d) = {j \in Items : pvContainer[j] = m}
        /\ Around(pxNext, pxPrevious, m, d)
    BY <1>12 DEF Linked
  <2>2. ASSUME NEW x \in {m} \cup ToSet(d)
        PROVE  pxNext'[x] = pxNext[x] /\ pxPrevious'[x] = pxPrevious[x]
    <3>1. x \in Nodes
      BY <2>1 DEF Nodes
    <3>2. x \notin {l} \cup ToSet(c)
      BY <1>1, <1>3, <2>1
    <3>3. x # pxNext[i] /\ x # pxPrevious[i]
      BY <1>5, <3>2
    <3> QED
      BY <1>6, <1>t, <3>1, <3>3
  <2>3. Around(pxNext', pxPrevious', m, d)
    BY <2>1, <2>2, RingElsewhere
  <2>4. ToSet(d) = {j \in Items : pvContainer'[j] = m}
    BY <1>2, <1>3, <1>10, <2>1
  <2> QED
    BY <1>9, <2>1, <2>3, <2>4 DEF Linked
<1> QED
  BY <1>2, <1>4, <1>7, <1>9, <1>10, <1>11, <1>12
-----------------------------------------------------------------------------
(* One lemma per operation: where the items c of its list and the place p   *)
(* of its index are afterwards.  The other lists stay as they are.          *)
Shape(l, c, p) == Linked(l, c) /\ Indexed(l, c, p)

LEMMA ShapeOf ==
  ASSUME NEW l, NEW c, NEW p, Shape(l, c, p)
  PROVE  /\ Linked(l, c) /\ Indexed(l, c, p) /\ c \in Seq(Items) /\ IsInjective(c)
         /\ Len(c) = uxNumberOfItems[l] /\ Len(c) \in Nat
         /\ ToSet(c) = {j \in Items : pvContainer[j] = l}
         /\ Around(pxNext, pxPrevious, l, c)
         /\ p \in 0 .. Len(c) /\ pxIndex[l] = NodeAt(l, c, p)
         /\ l \in Fifo => p = Len(c)
BY DEF Shape, Linked, Indexed

LEMMA InsertedEnd ==
  ASSUME Typed, NEW l \in Ready \cup Fifo, NEW i \in Items, vListInsertEnd(l, i),
         NEW c, NEW p, Shape(l, c, p)
  PROVE  /\ Typed' /\ Shape(l, InsertAt(c, p + 1, i), p + 1)'
         /\ \A m \in Lists \ {l} : \A d, q : Shape(m, d, q) => Shape(m, d, q)'
<1> DEFINE e == InsertAt(c, p + 1, i)
<1>1. /\ c \in Seq(Items) /\ IsInjective(c) /\ Len(c) \in Nat /\ Linked(l, c)
      /\ p \in 0 .. Len(c) /\ pxIndex[l] = NodeAt(l, c, p)
      /\ l \in Fifo => p = Len(c)
  BY ShapeOf
<1>2. /\ pvContainer[i] = Null /\ Link(l, i, NodeAt(l, c, p)) /\ l \in Lists
      /\ pxIndex' = [pxIndex EXCEPT ![l] = i] /\ got' = <<>> /\ xItemValue' = xItemValue
  BY <1>1 DEF vListInsertEnd, Lists
<1>3. /\ Linked(l, e)'
      /\ \A m \in Lists \ {l} : \A d : Linked(m, d) => Linked(m, d)'
      /\ (/\ pxNext \in [Nodes -> Nodes \cup {Null}]
          /\ pxPrevious \in [Nodes -> Nodes \cup {Null}]
          /\ uxNumberOfItems \in [Lists -> Nat]
          /\ pvContainer \in [Items -> Lists \cup {Null}])'
  BY <1>1, <1>2, EnteredAt
<1>e. /\ Len(e) = Len(c) + 1
      /\ \A m \in 1 .. Len(c) + 1 :
           e[m] = IF m <= p THEN c[m] ELSE IF m = p + 1 THEN i ELSE c[m - 1]
  BY <1>1, InsertEntries
<1> HIDE DEF e
<1>4. Len(e) = Len(c) + 1 /\ e[p + 1] = i /\ p + 1 \in 1 .. Len(e)
  BY <1>1, <1>e
<1>5. /\ pxIndex' \in [Lists -> Nodes] /\ pxIndex'[l] = i
      /\ \A m \in Lists \ {l} : pxIndex'[m] = pxIndex[m]
  BY <1>2 DEF Typed, Nodes
<1>6. Indexed(l, e, p + 1)'
  BY <1>1, <1>4, <1>5 DEF Indexed, NodeAt
<1>7. \A m \in Lists \ {l} : \A d, q : Indexed(m, d, q) => Indexed(m, d, q)'
  BY <1>5 DEF Indexed
<1>8. Typed'
  BY <1>2, <1>3, <1>5 DEF Typed
<1> QED
  BY <1>3, <1>6, <1>7, <1>8 DEF Shape, e

(* Where the iteration of vListInsert stops.                                *)
Stops(c, v, q) ==
  /\ q \in 0 .. Len(c)
  /\ \A m \in 1 .. q : xItemValue[c[m]] <= v
  /\ q < Len(c) => v < xItemValue[c[q + 1]]

LEMMA IteratorAt ==
  ASSUME Typed, NEW l \in Lists, NEW c, Linked(l, c), NEW v \in Values
  PROVE  \E q : Stops(c, v, q) /\ Iterator(l, v) = NodeAt(l, c, q)
<1>1. /\ c \in Seq(Items) /\ IsInjective(c) /\ Len(c) \in Nat
      /\ Around(pxNext, pxPrevious, l, c)
  BY DEF Linked
<1>2. /\ \A n \in 1 .. Len(c) : c[n] \in Items /\ xItemValue[c[n]] \in Int
      /\ \A n \in 1 .. Len(c) : xItemValue[c[n]] <= MaxDelay
      /\ l \notin Items /\ MaxDelay \in Int /\ v \in Int /\ v <= MaxDelay
  <2>1. l \notin Items /\ \A n \in 1 .. Len(c) : c[n] \in Items
    BY <1>1, NodesOf
  <2>2. \A j \in Items : xItemValue[j] \in Int /\ xItemValue[j] <= MaxDelay
    BY DelayAssumption DEF Typed, Values
  <2> QED
    BY <2>1, <2>2, DelayAssumption DEF Values
<1>3. CASE v = MaxDelay
  <2>1. Len(c) \in 0 .. Len(c) /\ NodeAt(l, c, Len(c) + 1) = l
    BY <1>1, NodesOf
  <2>2. pxPrevious[l] = NodeAt(l, c, Len(c))
    BY <1>1, <2>1 DEF Around
  <2>3. Stops(c, v, Len(c))
    BY <1>1, <1>2, <1>3 DEF Stops
  <2> QED
    BY <1>3, <2>2, <2>3 DEF Iterator
<1>4. CASE v # MaxDelay
  <2> DEFINE after == Steps(l)
             Next1(n) == Value(pxNext[after[n]])
             Ok(n) == Next1(n) > v /\ \A m \in 0 .. n - 1 : Next1(m) <= v
             K == Cardinality(Items)
  <2>1. Len(c) <= K /\ K \in Nat
    BY <1>1, LengthBound
  <2>2. /\ DOMAIN after = 0 .. K
        /\ \A n \in 0 .. Len(c) : after[n] = NodeAt(l, c, n)
    BY <1>1, Followed DEF Follows
  <2>3. \A n \in 0 .. Len(c) - 1 : Next1(n) = xItemValue[c[n + 1]]
    <3>1. \A n \in 0 .. Len(c) - 1 : pxNext[after[n]] = c[n + 1] /\ n + 1 \in 1 .. Len(c)
      BY <1>1, <2>2 DEF Around, NodeAt
    <3> QED
      BY <1>2, <3>1, ItemsAssumption DEF Value
  <2>4. Next1(Len(c)) = MaxDelay
    <3>1. pxNext[after[Len(c)]] = l
      BY <1>1, <2>2, NodesOf DEF Around
    <3> QED
      BY <3>1 DEF Value
  <2>5. Iterator(l, v) = after[CHOOSE n \in DOMAIN after : Ok(n)]
    BY <1>4 DEF Iterator
  <2> HIDE DEF after, Next1, K
  <2> DEFINE G == {n \in 0 .. Len(c) : Next1(n) > v}
  <2>6. PICK q \in G : \A n \in G : q <= n
    <3>1. G \subseteq 0 .. Len(c) /\ Len(c) \in G
      BY <1>1, <1>2, <1>4, <2>4
    <3> QED
      BY <1>1, <3>1, Least
  <2>7. \A n \in 0 .. Len(c) : Next1(n) \in Int
    BY <1>1, <1>2, <2>3, <2>4
  <2>8. q \in 0 .. Len(c) /\ Ok(q)
    <3>1. \A m \in 0 .. q - 1 : m \in 0 .. Len(c) /\ m \notin G
      BY <1>1, <2>6
    <3> QED
      BY <1>2, <2>6, <2>7, <3>1
  <2>9. ASSUME NEW n \in DOMAIN after, Ok(n) PROVE n = q
    <3>1. n \in Nat /\ q \in Nat
      BY <1>1, <2>1, <2>2, <2>6
    <3>2. CASE n < q
      <4>1. n \in 0 .. Len(c) /\ n \notin G
        BY <1>1, <2>6, <3>1, <3>2
      <4> QED
        BY <1>2, <2>7, <2>9, <4>1
    <3>3. CASE n > q
      <4>1. Next1(q) <= v /\ Next1(q) > v
        BY <2>8, <2>9, <3>1, <3>3
      <4> QED
        BY <1>2, <2>7, <2>8, <4>1
    <3> QED
      BY <3>1, <3>2, <3>3
  <2>10. q \in DOMAIN after
    BY <1>1, <2>1, <2>2, <2>8
  <2>11. (CHOOSE n \in DOMAIN after : Ok(n)) = q
    BY <2>8, <2>9, <2>10
  <2>12. Stops(c, v, q)
    <3>1. \A m \in 1 .. q : m - 1 \in 0 .. q - 1 /\ m - 1 \in 0 .. Len(c) - 1 /\ m - 1 + 1 = m
      BY <1>1, <2>8
    <3>2. \A m \in 1 .. q : xItemValue[c[m]] <= v
      BY <2>3, <2>8, <3>1
    <3>3. ASSUME q < Len(c) PROVE v < xItemValue[c[q + 1]]
      <4>1. q \in 0 .. Len(c) - 1 /\ q + 1 \in 1 .. Len(c)
        BY <1>1, <2>8, <3>3
      <4>2. xItemValue[c[q + 1]] > v
        BY <2>3, <2>8, <4>1
      <4> QED
        BY <1>2, <4>1, <4>2
    <3> QED
      BY <2>8, <3>2, <3>3 DEF Stops
  <2> QED
    BY <2>2, <2>5, <2>8, <2>11, <2>12
<1> QED
  BY <1>3, <1>4

LEMMA Inserted ==
  ASSUME Typed, NEW l \in Sorted, NEW i \in Items, vListInsert(l, i),
         NEW c, NEW p, Shape(l, c, p)
  PROVE  /\ Typed'
         /\ \E q : /\ Stops(c, xItemValue[i], q)
                   /\ \E r : Shape(l, InsertAt(c, q + 1, i), r)'
         /\ \A m \in Lists \ {l} : \A d, q : Shape(m, d, q) => Shape(m, d, q)'
<1>1. /\ c \in Seq(Items) /\ IsInjective(c) /\ Len(c) \in Nat /\ Linked(l, c)
      /\ p \in 0 .. Len(c) /\ pxIndex[l] = NodeAt(l, c, p)
  BY ShapeOf
<1>2. /\ pvContainer[i] = Null /\ Link(l, i, Iterator(l, xItemValue[i])) /\ l \in Lists
      /\ got' = <<>> /\ pxIndex' = pxIndex /\ xItemValue' = xItemValue
      /\ l \notin Fifo
  BY UseAssumption DEF vListInsert, Lists
<1>3. xItemValue[i] \in Values
  BY DEF Typed
<1>4. PICK q : Stops(c, xItemValue[i], q) /\ Iterator(l, xItemValue[i]) = NodeAt(l, c, q)
  BY <1>1, <1>2, <1>3, IteratorAt
<1>5. q \in 0 .. Len(c)
  BY <1>4 DEF Stops
<1> DEFINE e == InsertAt(c, q + 1, i)
           r == IF p <= q THEN p ELSE p + 1
<1>6. /\ Linked(l, e)'
      /\ \A m \in Lists \ {l} : \A d : Linked(m, d) => Linked(m, d)'
      /\ (/\ pxNext \in [Nodes -> Nodes \cup {Null}]
          /\ pxPrevious \in [Nodes -> Nodes \cup {Null}]
          /\ uxNumberOfItems \in [Lists -> Nat]
          /\ pvContainer \in [Items -> Lists \cup {Null}])'
  BY <1>1, <1>2, <1>4, <1>5, EnteredAt
<1>7. /\ Len(e) = Len(c) + 1
      /\ \A m \in 1 .. Len(c) + 1 :
           e[m] = IF m <= q THEN c[m] ELSE IF m = q + 1 THEN i ELSE c[m - 1]
  BY <1>1, <1>5, InsertEntries
<1> HIDE DEF e
<1>8. r \in 0 .. Len(e) /\ NodeAt(l, e, r) = NodeAt(l, c, p)
  BY <1>1, <1>5, <1>7 DEF NodeAt
<1>9. Indexed(l, e, r)'
  BY <1>1, <1>2, <1>8 DEF Indexed
<1>10. \A m \in Lists \ {l} : \A d, s : Indexed(m, d, s) => Indexed(m, d, s)'
  BY <1>2 DEF Indexed
<1>11. Typed'
  BY <1>2, <1>6 DEF Typed
<1>12. Shape(l, e, r)'
  BY <1>6, <1>9 DEF Shape
<1>13. \A m \in Lists \ {l} : \A d, s : Shape(m, d, s) => Shape(m, d, s)'
  BY <1>6, <1>10 DEF Shape
<1> HIDE DEF r
<1> QED
  BY <1>4, <1>11, <1>12, <1>13 DEF e

(* "Make sure the index is left pointing to a valid item."                  *)
LEMMA Removed ==
  ASSUME Typed, NEW l \in Lists, NEW c, NEW p, Shape(l, c, p),
         NEW k \in 1 .. Len(c), NEW i, i = c[k], Unlink(i), KeepIndex(i),
         xItemValue' = xItemValue, got' \in Seq(Items),
         NEW r, r = IF p >= k THEN p - 1 ELSE p
  PROVE  /\ Typed' /\ Shape(l, RemoveAt(c, k), r)'
         /\ \A m \in Lists \ {l} : \A d, q : Shape(m, d, q) => Shape(m, d, q)'
<1> DEFINE e == RemoveAt(c, k)
<1>1. /\ c \in Seq(Items) /\ IsInjective(c) /\ Len(c) \in Nat /\ Linked(l, c)
      /\ p \in 0 .. Len(c) /\ pxIndex[l] = NodeAt(l, c, p)
      /\ l \in Fifo => p = Len(c)
  BY ShapeOf
<1>2. /\ i \in Items /\ pvContainer[i] = l /\ pxPrevious[i] = NodeAt(l, c, k - 1)
      /\ \A n \in 0 .. Len(c) : NodeAt(l, e, n) = NodeAt(l, c, IF n < k THEN n ELSE n + 1)
      /\ Linked(l, e)'
      /\ \A m \in Lists \ {l} : \A d : Linked(m, d) => Linked(m, d)'
      /\ (/\ pxNext \in [Nodes -> Nodes \cup {Null}]
          /\ pxPrevious \in [Nodes -> Nodes \cup {Null}]
          /\ uxNumberOfItems \in [Lists -> Nat]
          /\ pvContainer \in [Items -> Lists \cup {Null}])'
  BY <1>1, TakenOut
<1>3. Len(e) = Len(c) - 1
  BY <1>1, RemoveEntries
<1> HIDE DEF e
<1>4. /\ pxIndex'[l] = (IF pxIndex[l] = i THEN pxPrevious[i] ELSE pxIndex[l])
      /\ \A m \in Lists \ {l} : pxIndex'[m] = pxIndex[m]
      /\ pxIndex' = [pxIndex EXCEPT ![l] = IF pxIndex[l] = i THEN pxPrevious[i] ELSE pxIndex[l]]
  BY <1>2 DEF KeepIndex, Typed
<1>5. \A n \in 0 .. Len(c) : NodeAt(l, c, n) = i <=> n = k
  <2>1. NodeAt(l, c, k) = i /\ k \in 0 .. Len(c)
    BY <1>1 DEF NodeAt
  <2> QED
    BY <1>1, <2>1, NodesApart
<1>6. r \in 0 .. Len(e) /\ pxIndex'[l] = NodeAt(l, e, r)
  <2>1. CASE p < k
    BY <1>1, <1>2, <1>3, <1>4, <1>5, <2>1
  <2>2. CASE p = k
    <3>1. k - 1 \in 0 .. Len(c) /\ k - 1 < k /\ r = k - 1
      BY <1>1, <2>2
    <3> QED
      BY <1>1, <1>2, <1>3, <1>4, <1>5, <2>2, <3>1
  <2>3. CASE p > k
    <3>1. /\ p - 1 \in 0 .. Len(c) /\ ~(p - 1 < k) /\ r = p - 1 /\ p - 1 + 1 = p
          /\ r \in 0 .. Len(c) - 1 /\ p # k
      BY <1>1, <2>3
    <3>2. NodeAt(l, e, p - 1) = NodeAt(l, c, p)
      BY <1>2, <3>1
    <3>3. pxIndex'[l] = NodeAt(l, c, p)
      BY <1>1, <1>4, <1>5, <3>1
    <3> QED
      BY <1>3, <3>1, <3>2, <3>3
  <2> QED
    BY <1>1, <2>1, <2>2, <2>3
<1>7. l \in Fifo => r = Len(e)
  BY <1>1, <1>3
<1>8. Shape(l, e, r)'
  BY <1>2, <1>6, <1>7 DEF Shape, Indexed
<1>9. \A m \in Lists \ {l} : \A d, s : Shape(m, d, s) => Shape(m, d, s)'
  BY <1>2, <1>4 DEF Shape, Indexed
<1>10. pxIndex' \in [Lists -> Nodes]
  <2>1. NodeAt(l, c, k - 1) \in Nodes
    <3>1. /\ \A n : NodeAt(l, c, n) \in {l} \cup ToSet(c)
          /\ {l} \cup ToSet(c) \subseteq Nodes
      BY <1>1, NodesOf
    <3> QED
      BY <3>1
  <2> QED
    BY <1>2, <1>4, <2>1 DEF Typed
<1>11. Typed'
  BY <1>2, <1>10 DEF Typed
<1> QED
  BY <1>8, <1>9, <1>11 DEF e

(* The place after place p, stepping over the marker.                       *)
After(c, p) == IF p < Len(c) THEN p + 1 ELSE 1

LEMMA EntryAt ==
  ASSUME NEW l \in Lists, NEW c, Linked(l, c), Len(c) > 0, NEW p \in 0 .. Len(c)
  PROVE  /\ After(c, p) \in 1 .. Len(c) /\ c[After(c, p)] \in Items
         /\ EntryAfter(l, NodeAt(l, c, p)) = c[After(c, p)]
<1>1. /\ c \in Seq(Items) /\ IsInjective(c) /\ Len(c) \in Nat
      /\ Around(pxNext, pxPrevious, l, c)
  BY DEF Linked
<1>2. /\ NodeAt(l, c, 0) = l /\ NodeAt(l, c, Len(c) + 1) = l /\ l \notin Items
      /\ \A n \in 1 .. Len(c) : NodeAt(l, c, n) = c[n] /\ c[n] \in Items
  BY <1>1, NodesOf
<1>3. pxNext[NodeAt(l, c, p)] = NodeAt(l, c, p + 1) /\ pxNext[l] = NodeAt(l, c, 0 + 1)
  <2>1. 0 \in 0 .. Len(c)
    BY <1>1
  <2> QED
    BY <1>1, <1>2, <2>1 DEF Around
<1>4. pxNext[l] = c[1] /\ 1 \in 1 .. Len(c)
  <2>1. 0 + 1 = 1 /\ 1 \in 1 .. Len(c)
    BY <1>1
  <2> QED
    BY <1>2, <1>3, <2>1
<1>5. CASE p < Len(c)
  <2>1. p + 1 \in 1 .. Len(c)
    BY <1>1, <1>5
  <2> QED
    BY <1>2, <1>3, <1>5, <2>1 DEF EntryAfter, After
<1>6. CASE p = Len(c)
  BY <1>1, <1>2, <1>3, <1>4, <1>6 DEF EntryAfter, After
<1> QED
  BY <1>1, <1>5, <1>6

(* Only the index moves.                                                    *)
LEMMA IndexMoved ==
  ASSUME NEW l \in Lists, NEW c, NEW p, Shape(l, c, p),
         UNCHANGED <<links, uxNumberOfItems, pvContainer>>,
         NEW r \in 0 .. Len(c), pxIndex'[l] = NodeAt(l, c, r), l \in Fifo => r = Len(c)
  PROVE  Shape(l, c, r)'
BY DEF Shape, Linked, Indexed, links
-----------------------------------------------------------------------------
(* A walk lists every item of its list, once.                               *)

(* The place n entries behind place p of a ring of L items, n at most L.    *)
Behind(L, p, n) == IF p + n <= L THEN p + n ELSE p + n - L

LEMMA BehindAt ==
  ASSUME NEW L \in Nat \ {0}, NEW p \in 1 .. L
  PROVE  /\ \A n \in 0 .. L : Behind(L, p, n) \in 1 .. L
         /\ \A n \in 0 .. L : ((p - 1 + n) % L) + 1 = Behind(L, p, n)
         /\ \A m, n \in 1 .. L : Behind(L, p, m) = Behind(L, p, n) => m = n
         /\ \A k \in 1 .. L : \E n \in 1 .. L : Behind(L, p, n) = k
         /\ Behind(L, p, 0) = p /\ Behind(L, p, L) = p
<1>1. /\ \A n \in 0 .. L : Behind(L, p, n) \in 1 .. L
      /\ \A m, n \in 1 .. L : Behind(L, p, m) = Behind(L, p, n) => m = n
      /\ Behind(L, p, 0) = p /\ Behind(L, p, L) = p
  BY DEF Behind
<1>2. ASSUME NEW k \in 1 .. L PROVE \E n \in 1 .. L : Behind(L, p, n) = k
  <2>1. CASE k > p
    <3>1. k - p \in 1 .. L /\ Behind(L, p, k - p) = k
      BY <2>1 DEF Behind
    <3> QED
      BY <3>1
  <2>2. CASE k <= p
    <3>1. k - p + L \in 1 .. L /\ Behind(L, p, k - p + L) = k
      BY <2>2 DEF Behind
    <3> QED
      BY <3>1
  <2> QED
    BY <2>1, <2>2
<1>3. ASSUME NEW n \in 0 .. L PROVE ((p - 1 + n) % L) + 1 = Behind(L, p, n)
  <2>1. CASE p + n <= L
    <3>1. p - 1 + n = L * 0 + (p - 1 + n) /\ p - 1 + n \in 0 .. L - 1
      BY <2>1
    <3>2. (p - 1 + n) % L = p - 1 + n
      BY <3>1, Remainder
    <3> QED
      BY <2>1, <3>2 DEF Behind
  <2>2. CASE p + n > L
    <3>1. p - 1 + n = L * 1 + (p - 1 + n - L) /\ p - 1 + n - L \in 0 .. L - 1
      BY <2>2
    <3>2. (p - 1 + n) % L = p - 1 + n - L
      BY <3>1, Remainder
    <3> QED
      BY <2>2, <3>2 DEF Behind
  <2> QED
    BY <2>1, <2>2
<1> QED
  BY <1>1, <1>2, <1>3

(* The entries that the walk meets, from the owner it remembers on.         *)
Met(l, f) == f = [n \in Nat |-> IF n = 0 THEN First(l) ELSE EntryAfter(l, f[n - 1])]

LEMMA MetAt ==
  ASSUME NEW l \in Lists, NEW c, Linked(l, c), Len(c) > 0, NEW p \in 0 .. Len(c),
         pxIndex[l] = NodeAt(l, c, p), NEW entry, entry = (CHOOSE f : Met(l, f))
  PROVE  \A n \in Nat : entry[n] = c[((After(c, p) - 1 + n) % Len(c)) + 1]
<1> DEFINE L == Len(c)
           p1 == After(c, p)
           f == [n \in Nat |-> c[((p1 - 1 + n) % L) + 1]]
<1>1. /\ c \in Seq(Items) /\ L \in Nat \ {0} /\ p1 \in 1 .. L
      /\ First(l) = c[p1]
  BY EntryAt DEF Linked, First
<1>2. \A r \in 0 .. L - 1 : EntryAfter(l, c[r + 1]) = c[(IF r < L - 1 THEN r + 1 ELSE 0) + 1]
  <2>1. \A k \in 1 .. L : EntryAfter(l, c[k]) = c[After(c, k)]
    <3>1. \A k \in 1 .. L : k \in 0 .. L /\ NodeAt(l, c, k) = c[k]
      BY <1>1 DEF NodeAt
    <3> QED
      BY <3>1, EntryAt
  <2>2. \A r \in 0 .. L - 1 : /\ r + 1 \in 1 .. L
                              /\ After(c, r + 1) = (IF r < L - 1 THEN r + 1 ELSE 0) + 1
    BY <1>1 DEF After
  <2> QED
    BY <2>1, <2>2
<1>3. \A n \in Nat : f[n] = c[((p1 - 1 + n) % L) + 1]
  OBVIOUS
<1>4. f = [n \in Nat |-> f[n]]
  OBVIOUS
<1> HIDE DEF f, p1, L
<1>5. ASSUME NEW n \in Nat \ {0} PROVE f[n] = EntryAfter(l, f[n - 1])
  <2>1. n - 1 \in Nat /\ p1 - 1 + (n - 1) \in Int
    BY <1>1
  <2> DEFINE x == p1 - 1 + (n - 1)
  <2>2. PICK q \in Int : x = L * q + (x % L)
    BY <1>1, <2>1, Division
  <2>3. PICK r \in 0 .. L - 1 : r = x % L
    BY <1>1, <2>1, Division
  <2>4. f[n - 1] = c[r + 1] /\ f[n] = c[((p1 - 1 + n) % L) + 1]
    BY <1>3, <2>1, <2>3
  <2>5. p1 - 1 + n = L * q + (r + 1)
    <3>1. p1 - 1 + n = x + 1
      BY <1>1
    <3> HIDE DEF x
    <3>2. L * q \in Int
      BY <1>1
    <3> QED
      BY <1>1, <2>2, <2>3, <3>1, <3>2
  <2>6. CASE r < L - 1
    <3>1. r + 1 \in 0 .. L - 1
      BY <1>1, <2>6
    <3>2. (p1 - 1 + n) % L = r + 1
      BY <1>1, <2>5, <3>1, Remainder
    <3> QED
      BY <1>2, <2>4, <2>6, <3>2
  <2>7. CASE r = L - 1
    <3>1. L * (q + 1) = L * q + L /\ L * q \in Int
      BY <1>1
    <3>2. p1 - 1 + n = L * (q + 1) + 0 /\ q + 1 \in Int /\ 0 \in 0 .. L - 1
      BY <1>1, <2>5, <2>7, <3>1
    <3>3. (p1 - 1 + n) % L = 0
      BY <1>1, <3>2, Remainder
    <3>4. ~(r < L - 1)
      BY <1>1, <2>7
    <3> QED
      BY <1>2, <2>4, <3>3, <3>4
  <2> QED
    BY <1>1, <2>6, <2>7
<1>6. f[0] = First(l)
  <2>1. ((p1 - 1 + 0) % L) + 1 = p1
    <3>1. Behind(L, p1, 0) = p1 /\ 0 \in 0 .. L
      BY <1>1, BehindAt
    <3> QED
      BY <1>1, <3>1, BehindAt
  <2> QED
    BY <1>1, <1>3, <2>1
<1>7. Met(l, f)
  <2>1. \A n \in Nat : f[n] = IF n = 0 THEN First(l) ELSE EntryAfter(l, f[n - 1])
    BY <1>5, <1>6
  <2> QED
    BY <1>4, <2>1, Zenon DEF Met
<1>8. Met(l, entry)
  BY <1>7, Zenon
<1>9. ASSUME NEW n \in Nat, entry[n] # f[n] PROVE FALSE
  <2> DEFINE B == {k \in 0 .. n : entry[k] # f[k]}
  <2>1. PICK k \in B : \A j \in B : k <= j
    <3>1. B \subseteq 0 .. n /\ n \in B
      BY <1>9
    <3> QED
      BY <3>1, Least, Zenon
  <2>2. k \in Nat /\ entry[k] = IF k = 0 THEN First(l) ELSE EntryAfter(l, entry[k - 1])
    <3>1. k \in Nat
      BY <2>1
    <3> QED
      BY <1>8, <3>1 DEF Met
  <2>3. k # 0
    BY <1>6, <2>1, <2>2
  <2>4. k - 1 \in 0 .. n /\ k - 1 \notin B
    BY <2>1, <2>3
  <2> QED
    BY <1>5, <2>1, <2>2, <2>3, <2>4
<1> QED
  BY <1>3, <1>9 DEF L, p1

LEMMA WalkOf ==
  ASSUME NEW l \in Lists, NEW c, Linked(l, c), Len(c) > 0, NEW p \in 0 .. Len(c),
         pxIndex[l] = NodeAt(l, c, p), NEW s, s = prvListTaskWithinSingleList(l)
  PROVE  s \in Seq(Items) /\ IsInjective(s) /\ ToSet(s) = ToSet(c)
<1> DEFINE L == Len(c)
           p1 == After(c, p)
           entry == CHOOSE f : Met(l, f)
           Stop(n) == entry[n] = First(l) /\ \A m \in 1 .. n - 1 : entry[m] # First(l)
           last == CHOOSE n \in 1 .. Cardinality(Items) : Stop(n)
<1>1. /\ c \in Seq(Items) /\ L \in Nat \ {0} /\ p1 \in 1 .. L /\ IsInjective(c)
      /\ First(l) = c[p1]
  BY EntryAt DEF Linked, First
<1>2. s = [n \in 1 .. last |-> entry[n]]
  BY DEF prvListTaskWithinSingleList, Met
<1>3. \A n \in Nat : entry[n] = c[((p1 - 1 + n) % L) + 1]
  BY MetAt
<1> HIDE DEF entry, p1
<1>a. /\ \A n \in 0 .. L : Behind(L, p1, n) \in 1 .. L
      /\ \A n \in 0 .. L : ((p1 - 1 + n) % L) + 1 = Behind(L, p1, n)
      /\ \A m, n \in 1 .. L : Behind(L, p1, m) = Behind(L, p1, n) => m = n
      /\ \A k \in 1 .. L : \E n \in 1 .. L : Behind(L, p1, n) = k
      /\ Behind(L, p1, 0) = p1 /\ Behind(L, p1, L) = p1
  <2>1. L \in Nat \ {0} /\ p1 \in 1 .. L
    BY <1>1
  <2> HIDE DEF L
  <2> QED
    BY <2>1, BehindAt, Zenon
<1>4. \A n \in 0 .. L : entry[n] = c[Behind(L, p1, n)] /\ Behind(L, p1, n) \in 1 .. L
  <2>1. 0 .. L \subseteq Nat
    BY <1>1
  <2> HIDE DEF L
  <2> QED
    BY <1>3, <1>a, <2>1 DEF L
<1>5. \A m, n \in 1 .. L : c[m] = c[n] => m = n
  BY <1>1, EntriesOf DEF IsInjective
<1>6. /\ Behind(L, p1, L) = p1
      /\ \A m, n \in 1 .. L : Behind(L, p1, m) = Behind(L, p1, n) => m = n
  BY <1>a
<1>7. Stop(L) /\ L \in 1 .. Cardinality(Items)
  <2>1. L \in 1 .. Cardinality(Items)
    BY <1>1, LengthBound
  <2>e. First(l) = c[p1] /\ p1 \in 1 .. L /\ L \in 1 .. L /\ L \in 0 .. L
    BY <1>1
  <2>2. entry[L] = First(l)
    <3> HIDE DEF L
    <3> QED
      BY <1>4, <1>6, <2>e, Zenon
  <2>3. ASSUME NEW m \in 1 .. L - 1 PROVE entry[m] # First(l)
    <3>1. m \in 1 .. L /\ m \in 0 .. L /\ m # L
      BY <1>1
    <3> HIDE DEF L
    <3>2. Behind(L, p1, m) # p1
      BY <1>6, <2>e, <3>1, Zenon
    <3>3. entry[m] = c[Behind(L, p1, m)] /\ Behind(L, p1, m) \in 1 .. L
      BY <1>4, <3>1, Zenon
    <3>4. c[Behind(L, p1, m)] # c[p1]
      BY <1>5, <2>e, <3>2, <3>3, Zenon
    <3> QED
      BY <2>e, <3>3, <3>4, Zenon
  <2> QED
    BY <2>1, <2>2, <2>3
<1>8. ASSUME NEW n \in 1 .. Cardinality(Items), Stop(n) PROVE n = L
  <2>1. CASE n < L
    <3>1. n \in 1 .. L - 1
      BY <1>1, <2>1
    <3> QED
      BY <1>7, <1>8, <3>1
  <2>2. CASE n > L
    <3>1. L \in 1 .. n - 1
      BY <1>1, <2>2
    <3> QED
      BY <1>7, <1>8, <3>1
  <2> QED
    BY <1>1, <2>1, <2>2
<1>9. last = L
  <2> HIDE DEF L
  <2> QED
    BY <1>7, <1>8
<1>10. s = [n \in 1 .. L |-> c[Behind(L, p1, n)]]
  <2>1. s = [n \in 1 .. L |-> entry[n]]
    BY <1>2, <1>9, Zenon
  <2>2. \A n \in 1 .. L : n \in 0 .. L
    BY <1>1
  <2> HIDE DEF L
  <2> QED
    BY <1>4, <2>1, <2>2
<1>11. s \in Seq(Items) /\ Len(s) = L /\ \A n \in 1 .. L : s[n] = c[Behind(L, p1, n)]
  <2>1. \A n \in 1 .. L : c[Behind(L, p1, n)] \in Items
    BY <1>1, <1>4, NodesOf
  <2> QED
    BY <1>1, <1>10, <2>1
<1>12. IsInjective(s)
  <2>1. \A m, n \in 1 .. L : s[m] = s[n] => m = n
    BY <1>1, <1>4, <1>5, <1>6, <1>11
  <2> QED
    BY <1>11, <2>1, EntriesOf DEF IsInjective
<1>13. ToSet(s) = ToSet(c)
  <2>1. ToSet(s) = {c[Behind(L, p1, n)] : n \in 1 .. L} /\ ToSet(c) = {c[k] : k \in 1 .. L}
    BY <1>1, <1>11, EntriesOf
  <2>2. \A k \in 1 .. L : \E n \in 1 .. L : Behind(L, p1, n) = k
    BY <1>a
  <2>3. \A n \in 1 .. L : Behind(L, p1, n) \in 1 .. L
    BY <1>1, <1>4
  <2> HIDE DEF L
  <2>4. ASSUME NEW n \in 1 .. L PROVE c[Behind(L, p1, n)] \in {c[k] : k \in 1 .. L}
    BY <2>3, Zenon
  <2>5. ASSUME NEW k \in 1 .. L
        PROVE  c[k] \in {c[Behind(L, p1, n)] : n \in 1 .. L}
    <3>1. PICK n \in 1 .. L : Behind(L, p1, n) = k
      BY <2>2, Zenon
    <3>2. c[k] = c[Behind(L, p1, n)]
      BY <3>1, Zenon
    <3> QED
      BY <3>2, Zenon
  <2> QED
    BY <2>1, <2>4, <2>5
<1> QED
  BY <1>11, <1>12, <1>13
-----------------------------------------------------------------------------
(* vTaskList appends the walks of the lists that hold tasks.                *)
Walks(T, f) ==
  IF T = {} THEN <<>>
  ELSE LET l == CHOOSE x \in T : TRUE IN f[T \ {l}] \o prvListTaskWithinSingleList(l)
Report(S, f) == f = [T \in SUBSET S |-> Walks(T, f)]

LEMMA ReportSolved ==
  ASSUME NEW S, IsFiniteSet(S)
  PROVE  \E f : Report(S, f)
<1> DEFINE N == Cardinality(S)
           Level(n) == {T \in SUBSET S : Cardinality(T) <= n}
           Solves(n, f) == f = [T \in Level(n) |-> f[T]]
                           /\ \A T \in Level(n) : f[T] = Walks(T, f)
           B == {n \in 0 .. N : \A f : ~Solves(n, f)}
<1>1. N \in Nat /\ \A T \in SUBSET S : IsFiniteSet(T) /\ Cardinality(T) \in Nat /\ Cardinality(T) <= N
  BY FS_Subset, FS_CardinalityType
<1>2. ASSUME NEW T \in SUBSET S, T # {}, NEW l, l = (CHOOSE x \in T : TRUE)
      PROVE  l \in T /\ T \ {l} \in SUBSET S /\ Cardinality(T \ {l}) = Cardinality(T) - 1
  <2>1. l \in T
    BY <1>2
  <2> QED
    BY <1>1, <2>1, FS_RemoveElement
<1>a. /\ B \subseteq 0 .. N
      /\ \A n \in 0 .. N : n \in B <=> \A f : ~Solves(n, f)
  BY Zenon
<1>b. \A n : \A T : T \in Level(n) <=> T \in SUBSET S /\ Cardinality(T) <= n
  OBVIOUS
<1> HIDE DEF N, B
<1>3. ASSUME B # {} PROVE FALSE
  <2>1. PICK n \in B : \A m \in B : n <= m
    BY <1>1, <1>3, <1>a, Least, Zenon
  <2>2. n \in 0 .. N /\ \A f : ~Solves(n, f)
    BY <1>a, <2>1
  <2>3. CASE n = 0
    <3> DEFINE f == [T \in Level(0) |-> <<>>]
    <3>1. ASSUME NEW T \in Level(0) PROVE T = {}
      <4>1. IsFiniteSet(T) /\ Cardinality(T) = 0
        BY <1>1, <1>b
      <4> QED
        BY <4>1, FS_EmptySet
    <3>2. f = [T \in Level(0) |-> f[T]] /\ \A T \in Level(0) : f[T] = <<>>
      BY Zenon
    <3> HIDE DEF f, Level
    <3>3. Solves(0, f)
      BY <3>1, <3>2, Zenon DEF Walks
    <3> QED
      BY <2>2, <2>3, <3>3, Zenon
  <2>4. CASE n # 0
    <3>1. n - 1 \in 0 .. N /\ n - 1 \notin B
      BY <1>1, <2>1, <2>2, <2>4
    <3>2. PICK g : Solves(n - 1, g)
      BY <1>a, <3>1, Zenon
    <3> DEFINE f == [T \in Level(n) |-> Walks(T, g)]
    <3>3. f = [T \in Level(n) |-> f[T]] /\ \A T \in Level(n) : f[T] = Walks(T, g)
      BY Zenon
    <3> HIDE DEF f
    <3>4. ASSUME NEW T \in Level(n), T # {}, NEW l, l = (CHOOSE x \in T : TRUE)
          PROVE  f[T \ {l}] = g[T \ {l}]
      <4>1. T \ {l} \in Level(n - 1) /\ T \ {l} \in Level(n)
        <5>1. /\ T \in SUBSET S /\ Cardinality(T) <= n /\ Cardinality(T) \in Nat
              /\ n \in Nat
          BY <1>1, <1>b, <2>2, <3>4
        <5>2. T \ {l} \in SUBSET S /\ Cardinality(T \ {l}) = Cardinality(T) - 1
          BY <1>2, <3>4, <5>1
        <5> QED
          BY <1>b, <5>1, <5>2
      <4> QED
        BY <3>2, <3>3, <4>1
    <3>5. ASSUME NEW T \in Level(n) PROVE f[T] = Walks(T, f)
      <4>1. CASE T = {}
        BY <3>3, <4>1 DEF Walks
      <4>2. CASE T # {}
        BY <3>3, <3>4, <4>2 DEF Walks
      <4> QED
        BY <4>1, <4>2
    <3>6. Solves(n, f)
      BY <3>3, <3>5, Zenon
    <3> QED
      BY <2>2, <3>6
  <2> QED
    BY <2>3, <2>4
<1>4. N \in 0 .. N /\ N \notin B
  BY <1>1, <1>3
<1>5. PICK f : Solves(N, f)
  BY <1>a, <1>4, Zenon
<1>6. Level(N) = SUBSET S
  BY <1>1
<1> HIDE DEF Level
<1>7. f = [T \in SUBSET S |-> f[T]] /\ \A T \in SUBSET S : f[T] = Walks(T, f)
  BY <1>5, <1>6, Zenon
<1> QED
  BY <1>7, Zenon DEF Report

(* Every item of the lists is listed, once.                                 *)
Told == FoldSet(LAMBDA l, s : s \o prvListTaskWithinSingleList(l), <<>>, Walked)
LEMMA Reports ==
  ASSUME \A l \in Lists : \E c, p : Shape(l, c, p),
         NEW s, s = Told
  PROVE  /\ s \in Seq(Items) /\ IsInjective(s)
         /\ ToSet(s) = {i \in Items : pvContainer[i] \in Walked}
<1> DEFINE f == CHOOSE g : Report(Walked, g)
           On1(T) == {i \in Items : pvContainer[i] \in T}
           Ok(T) == /\ f[T] \in Seq(Items) /\ IsInjective(f[T]) /\ ToSet(f[T]) = On1(T)
           N == Cardinality(Walked)
           B == {n \in 0 .. N :
                   \E T \in SUBSET Walked : Cardinality(T) = n /\ ~Ok(T)}
<1>1. IsFiniteSet(Walked) /\ Walked \subseteq Lists
  <2>1. Walked \subseteq Lists
    BY UseAssumption DEF Walked, Lists
  <2> QED
    BY <2>1, ItemsAssumption, FS_Subset
<1>0. /\ N \in Nat /\ N = Cardinality(Walked)
      /\ \A T \in SUBSET Walked : IsFiniteSet(T) /\ Cardinality(T) \in 0 .. N
  <2>1. ASSUME NEW T \in SUBSET Walked PROVE IsFiniteSet(T) /\ Cardinality(T) <= N
    BY <1>1, FS_Subset
  <2>2. \A T : IsFiniteSet(T) => Cardinality(T) \in Nat
    BY FS_CardinalityType
  <2> QED
    BY <1>1, <2>1, <2>2
<1>b. /\ B \subseteq 0 .. N
      /\ \A n : n \in B <=> n \in 0 .. N /\ \E T \in SUBSET Walked : Cardinality(T) = n /\ ~Ok(T)
  BY Zenon
<1> HIDE DEF N, B
<1>2. s = f[Walked]
  BY DEF Told, FoldSet, MapThenFoldSet, Report, Walks
<1>3. Report(Walked, f)
  BY <1>1, ReportSolved, Zenon
<1> HIDE DEF f
<1>4. ASSUME NEW l \in Walked, NEW t, t = prvListTaskWithinSingleList(l)
      PROVE  t \in Seq(Items) /\ IsInjective(t) /\ ToSet(t) = {i \in Items : pvContainer[i] = l}
  <2>1. l \in Lists /\ uxNumberOfItems[l] > 0
    BY <1>1, <1>4 DEF Walked
  <2>2. PICK c, p : Shape(l, c, p)
    BY <2>1
  <2>3. /\ Linked(l, c) /\ Len(c) > 0 /\ p \in 0 .. Len(c) /\ pxIndex[l] = NodeAt(l, c, p)
        /\ ToSet(c) = {i \in Items : pvContainer[i] = l}
    BY <2>1, <2>2, ShapeOf
  <2> QED
    BY <1>4, <2>1, <2>3, WalkOf
<1>5. \A T \in SUBSET Walked : f[T] = Walks(T, f)
  BY <1>3 DEF Report
<1>6. ASSUME NEW T \in SUBSET Walked,
             \A U \in SUBSET Walked : Cardinality(U) < Cardinality(T) => Ok(U)
      PROVE  Ok(T)
  <2>1. CASE T = {}
    <3>1. f[T] = <<>>
      BY <1>5, <2>1 DEF Walks
    <3>2. <<>> \in Seq(Items) /\ Len(<<>>) = 0
      OBVIOUS
    <3>3. ToSet(<<>>) = {}
      BY <3>2, NoEntries, Zenon
    <3>4. IsInjective(<<>>)
      BY DEF IsInjective
    <3> QED
      BY <2>1, <3>1, <3>2, <3>3, <3>4
  <2>2. CASE T # {}
    <3>1. PICK l \in T : f[T] = f[T \ {l}] \o prvListTaskWithinSingleList(l)
      BY <1>5, <2>2 DEF Walks
    <3>2. Cardinality(T \ {l}) < Cardinality(T)
      <4>1. IsFiniteSet(T) /\ Cardinality(T) \in Nat
        BY <1>0
      <4>2. Cardinality(T \ {l}) = Cardinality(T) - 1
        BY <4>1, FS_RemoveElement
      <4> QED
        BY <4>1, <4>2
    <3>3. Ok(T \ {l})
      BY <1>6, <3>2
    <3> DEFINE a == f[T \ {l}]
               b == prvListTaskWithinSingleList(l)
    <3>4. b \in Seq(Items) /\ IsInjective(b) /\ ToSet(b) = {i \in Items : pvContainer[i] = l}
      BY <1>4
    <3>5. ToSet(a) \cap ToSet(b) = {}
      BY <3>3, <3>4
    <3>6. ToSet(a) \cup ToSet(b) = On1(T)
      BY <3>3, <3>4
    <3>7. a \in Seq(Items) /\ IsInjective(a)
      BY <3>3
    <3> HIDE DEF a, b
    <3>8. a \o b \in Seq(Items) /\ IsInjective(a \o b) /\ ToSet(a \o b) = ToSet(a) \cup ToSet(b)
      <4>1. b \in Seq(Items) /\ IsInjective(b)
        BY <3>4
      <4> QED
        BY <3>5, <3>7, <4>1, ConcatOnce
    <3> QED
      BY <3>1, <3>6, <3>8 DEF a, b
  <2> QED
    BY <2>1, <2>2
<1>7. ASSUME B # {} PROVE FALSE
  <2>1. PICK n \in B : \A m \in B : n <= m
    BY <1>0, <1>7, <1>b, Least, Zenon
  <2>2. PICK T \in SUBSET Walked : Cardinality(T) = n /\ ~Ok(T)
    BY <1>b, <2>1, Zenon
  <2>3. ASSUME NEW U \in SUBSET Walked, Cardinality(U) < Cardinality(T) PROVE Ok(U)
    <3>1. Cardinality(U) \in 0 .. N /\ n \in 0 .. N
      BY <1>0, <1>b, <2>1
    <3>2. Cardinality(U) \notin B
      BY <1>0, <2>1, <2>2, <2>3, <3>1
    <3> QED
      BY <1>b, <3>1, <3>2, Zenon
  <2> QED
    BY <1>6, <2>2, <2>3
<1>8. N \in 0 .. N /\ N \notin B
  BY <1>0, <1>7
<1>9. Ok(Walked)
  BY <1>0, <1>b, <1>8
<1> QED
  BY <1>2, <1>9
-----------------------------------------------------------------------------
(* The turns of the items c from place p on.                                *)
Turn(c, p) == SubSeq(c, p + 1, Len(c)) \o SubSeq(c, 1, p)

LEMMA TurnEntries ==
  ASSUME NEW c \in Seq(Items), NEW p \in 0 .. Len(c)
  PROVE  /\ Turn(c, p) \in Seq(Items) /\ Len(Turn(c, p)) = Len(c) /\ Len(c) \in Nat
         /\ \A n \in 1 .. Len(c) :
              Turn(c, p)[n] = IF n <= Len(c) - p THEN c[p + n] ELSE c[n - (Len(c) - p)]
<1> DEFINE a == SubSeq(c, p + 1, Len(c))
           b == SubSeq(c, 1, p)
<1>1. \A i \in 1 .. Len(c) : c[i] \in Items
  BY NodesOf, EntriesOf
<1>2. /\ a \in Seq(Items) /\ Len(a) = Len(c) - p
      /\ \A i \in 1 .. Len(c) - p : a[i] = c[p + i]
  <2>1. \A i \in p + 1 .. Len(c) : c[i] \in Items
    BY <1>1
  <2> QED
    BY <2>1, SubSeqProperties
<1>3. /\ b \in Seq(Items) /\ Len(b) = p /\ \A i \in 1 .. p : b[i] = c[i]
  <2>1. \A i \in 1 .. p : c[i] \in Items
    BY <1>1
  <2> QED
    BY <2>1, SubSeqProperties
<1> HIDE DEF a, b
<1>4. /\ a \o b \in Seq(Items) /\ Len(a \o b) = Len(c)
      /\ \A n \in 1 .. Len(c) :
           (a \o b)[n] = IF n <= Len(c) - p THEN a[n] ELSE b[n - (Len(c) - p)]
  <2>1. a \in Seq(Items) /\ b \in Seq(Items)
    BY <1>2, <1>3
  <2>2. /\ a \o b \in Seq(Items) /\ Len(a \o b) = Len(a) + Len(b)
        /\ \A n \in 1 .. Len(a) + Len(b) :
             (a \o b)[n] = IF n <= Len(a) THEN a[n] ELSE b[n - Len(a)]
    BY <2>1, ConcatProperties
  <2>3. Len(a) = Len(c) - p /\ Len(a) + Len(b) = Len(c)
    BY <1>2, <1>3
  <2> QED
    BY <2>2, <2>3
<1>5. Turn(c, p) = a \o b
  BY DEF Turn, a, b
<1>6. ASSUME NEW n \in 1 .. Len(c)
      PROVE  Turn(c, p)[n] = IF n <= Len(c) - p THEN c[p + n] ELSE c[n - (Len(c) - p)]
  BY <1>2, <1>3, <1>4, <1>5
<1> QED
  BY <1>4, <1>5, <1>6

LEMMA TurnOnce ==
  ASSUME NEW c \in Seq(Items), IsInjective(c), NEW p \in 0 .. Len(c)
  PROVE  IsInjective(Turn(c, p)) /\ ToSet(Turn(c, p)) = ToSet(c)
<1> DEFINE t == Turn(c, p)
           from(n) == IF n <= Len(c) - p THEN p + n ELSE n - (Len(c) - p)
<1>1. t \in Seq(Items) /\ Len(t) = Len(c) /\ Len(c) \in Nat
  BY TurnEntries
<1>2. /\ \A n \in 1 .. Len(c) : t[n] = c[from(n)] /\ from(n) \in 1 .. Len(c)
      /\ \A m, n \in 1 .. Len(c) : from(m) = from(n) => m = n
  <2>1. \A n \in 1 .. Len(c) : t[n] = c[from(n)]
    BY TurnEntries
  <2>2. /\ \A n \in 1 .. Len(c) : from(n) \in 1 .. Len(c)
        /\ \A m, n \in 1 .. Len(c) : from(m) = from(n) => m = n
    BY <1>1
  <2> QED
    BY <2>1, <2>2
<1>3. ASSUME NEW k \in 1 .. Len(c) PROVE \E n \in 1 .. Len(c) : from(n) = k
  <2>1. CASE k > p
    <3>1. k - p \in 1 .. Len(c) /\ from(k - p) = k
      BY <1>1, <2>1
    <3> QED
      BY <3>1
  <2>2. CASE k <= p
    <3>1. k + (Len(c) - p) \in 1 .. Len(c) /\ from(k + (Len(c) - p)) = k
      BY <1>1, <2>2
    <3> QED
      BY <3>1
  <2> QED
    BY <1>1, <2>1, <2>2
<1> HIDE DEF t, from
<1>4. \A m, n \in 1 .. Len(c) : c[m] = c[n] => m = n
  BY EntriesOf DEF IsInjective
<1>5. IsInjective(t)
  <2>1. ASSUME NEW m \in 1 .. Len(c), NEW n \in 1 .. Len(c), t[m] = t[n]
        PROVE  m = n
    <3>1. c[from(m)] = c[from(n)] /\ from(m) \in 1 .. Len(c) /\ from(n) \in 1 .. Len(c)
      BY <1>2, <2>1, Zenon
    <3>2. from(m) = from(n)
      BY <1>4, <3>1, Zenon
    <3> QED
      BY <1>2, <3>2, Zenon
  <2>2. DOMAIN t = 1 .. Len(c)
    BY <1>1, EntriesOf
  <2> QED
    BY <2>1, <2>2 DEF IsInjective
<1>6. ToSet(t) = {t[n] : n \in 1 .. Len(c)} /\ ToSet(c) = {c[n] : n \in 1 .. Len(c)}
  BY <1>1, EntriesOf
<1>7. ToSet(t) = ToSet(c)
  <2>1. ASSUME NEW n \in 1 .. Len(c) PROVE t[n] \in ToSet(c)
    BY <1>2, <1>6
  <2>2. ASSUME NEW k \in 1 .. Len(c) PROVE c[k] \in ToSet(t)
    <3>1. PICK n \in 1 .. Len(c) : from(n) = k
      BY <1>3
    <3>2. t[n] = c[k]
      BY <1>2, <3>1
    <3> QED
      BY <1>6, <3>2
  <2> QED
    BY <1>6, <2>1, <2>2
<1> QED
  BY <1>5, <1>7 DEF t

(* vListInsertEnd: last in turn.                                            *)
LEMMA TurnEnd ==
  ASSUME NEW c \in Seq(Items), NEW p \in 0 .. Len(c), NEW i \in Items
  PROVE  Turn(InsertAt(c, p + 1, i), p + 1) = Append(Turn(c, p), i)
<1> DEFINE e == InsertAt(c, p + 1, i)
           s == Turn(e, p + 1)
           t == Append(Turn(c, p), i)
<1>1. /\ e \in Seq(Items) /\ Len(e) = Len(c) + 1
      /\ \A m \in 1 .. Len(c) + 1 :
           e[m] = IF m <= p THEN c[m] ELSE IF m = p + 1 THEN i ELSE c[m - 1]
  <2>1. /\ InsertAt(c, p + 1, i) \in Seq(Items)
        /\ Len(InsertAt(c, p + 1, i)) = Len(c) + 1
    BY InsertEntries, SMT
  <2>2. \A m \in 1 .. Len(c) + 1 :
          InsertAt(c, p + 1, i)[m] = IF m <= p THEN c[m]
                                     ELSE IF m = p + 1 THEN i ELSE c[m - 1]
    BY InsertEntries, SMT
  <2> QED
    BY <2>1, <2>2, Zenon
<1> HIDE DEF e
<1>2. /\ Turn(c, p) \in Seq(Items) /\ Len(Turn(c, p)) = Len(c) /\ Len(c) \in Nat
      /\ \A n \in 1 .. Len(c) :
           Turn(c, p)[n] = IF n <= Len(c) - p THEN c[p + n] ELSE c[n - (Len(c) - p)]
  BY TurnEntries
<1>3. /\ t \in Seq(Items) /\ Len(t) = Len(c) + 1 /\ t[Len(c) + 1] = i
      /\ \A n \in 1 .. Len(c) : t[n] = Turn(c, p)[n]
  BY <1>2, AppendProperties
<1>4. p + 1 \in 0 .. Len(e)
  BY <1>1, <1>2
<1>5. /\ s \in Seq(Items) /\ Len(s) = Len(e)
      /\ \A n \in 1 .. Len(e) :
           s[n] = IF n <= Len(e) - (p + 1) THEN e[p + 1 + n] ELSE e[n - (Len(e) - (p + 1))]
  BY <1>1, <1>4, TurnEntries
<1> HIDE DEF s, t
<1>6. ASSUME NEW n \in 1 .. Len(c) + 1 PROVE s[n] = t[n]
  <2>1. CASE n <= Len(c) - p
    <3>1. /\ n <= Len(e) - (p + 1) /\ n \in 1 .. Len(e) /\ n \in 1 .. Len(c)
          /\ p + 1 + n \in 1 .. Len(c) + 1 /\ ~(p + 1 + n <= p) /\ p + 1 + n # p + 1
          /\ p + 1 + n - 1 = p + n
      BY <1>1, <1>2, <2>1
    <3>2. s[n] = c[p + n]
      BY <1>1, <1>5, <3>1
    <3> QED
      BY <1>2, <1>3, <2>1, <3>1, <3>2
  <2>2. CASE n > Len(c) - p /\ n <= Len(c)
    <3>1. /\ ~(n <= Len(e) - (p + 1)) /\ n \in 1 .. Len(e) /\ n \in 1 .. Len(c)
          /\ n - (Len(e) - (p + 1)) = n - (Len(c) - p)
          /\ n - (Len(c) - p) \in 1 .. Len(c) + 1 /\ n - (Len(c) - p) <= p
      BY <1>1, <1>2, <2>2
    <3>2. s[n] = c[n - (Len(c) - p)]
      BY <1>1, <1>5, <3>1
    <3>3. ~(n <= Len(c) - p)
      BY <1>2, <2>2
    <3> QED
      BY <1>2, <1>3, <3>1, <3>2, <3>3
  <2>3. CASE n = Len(c) + 1
    <3>1. /\ ~(n <= Len(e) - (p + 1)) /\ n \in 1 .. Len(e)
          /\ n - (Len(e) - (p + 1)) = p + 1 /\ p + 1 \in 1 .. Len(c) + 1 /\ ~(p + 1 <= p)
      BY <1>1, <1>2, <2>3
    <3>2. s[n] = i
      BY <1>1, <1>5, <3>1
    <3> QED
      BY <1>3, <2>3, <3>2
  <2> QED
    BY <1>2, <2>1, <2>2, <2>3
<1>7. s = t
  BY <1>1, <1>3, <1>5, <1>6, SeqEqual
<1> QED
  BY <1>7 DEF s, t, e

(* listGET_OWNER_OF_NEXT_ENTRY: the first in turn becomes the last.         *)
LEMMA TurnNext ==
  ASSUME NEW c \in Seq(Items), Len(c) > 0, NEW p \in 0 .. Len(c)
  PROVE  /\ Turn(c, After(c, p)) = Append(Tail(Turn(c, p)), Head(Turn(c, p)))
         /\ Head(Turn(c, p)) = c[After(c, p)] /\ Turn(c, p) # <<>>
<1> DEFINE t == Turn(c, p)
           L == Len(c)
           q == After(c, p)
           s == Turn(c, q)
           r == Append(Tail(t), Head(t))
<1>1. /\ t \in Seq(Items) /\ Len(t) = L /\ L \in Nat /\ L > 0
      /\ \A n \in 1 .. L : t[n] = IF n <= L - p THEN c[p + n] ELSE c[n - (L - p)]
  BY TurnEntries
<1>2. q \in 1 .. L /\ q \in 0 .. L /\ q = IF p < L THEN p + 1 ELSE 1
  BY <1>1 DEF After
<1>3. /\ s \in Seq(Items) /\ Len(s) = L
      /\ \A n \in 1 .. L : s[n] = IF n <= L - q THEN c[q + n] ELSE c[n - (L - q)]
  BY <1>2, TurnEntries
<1> HIDE DEF s, t, q
<1>4. t # <<>>
  BY <1>1
<1>5. /\ Tail(t) \in Seq(Items) /\ Len(Tail(t)) = L - 1 /\ Head(t) = t[1] /\ Head(t) \in Items
      /\ \A m \in 1 .. L - 1 : Tail(t)[m] = t[m + 1]
  BY <1>1, <1>4, HeadTailProperties
<1>6. /\ r \in Seq(Items) /\ Len(r) = L /\ r[L] = t[1]
      /\ \A m \in 1 .. L - 1 : r[m] = t[m + 1]
  <2>1. \A u \in Seq(Items) : \A x \in Items :
          /\ Append(u, x) \in Seq(Items) /\ Len(Append(u, x)) = Len(u) + 1
          /\ Append(u, x)[Len(u) + 1] = x
          /\ \A m \in 1 .. Len(u) : Append(u, x)[m] = u[m]
    BY AppendProperties
  <2>2. L - 1 + 1 = L
    BY <1>1
  <2> HIDE DEF L, r
  <2>3. /\ r \in Seq(Items) /\ Len(r) = Len(Tail(t)) + 1 /\ r[Len(Tail(t)) + 1] = Head(t)
        /\ \A m \in 1 .. Len(Tail(t)) : r[m] = Tail(t)[m]
    BY <1>5, <2>1, Zenon DEF r
  <2> QED
    BY <1>5, <2>2, <2>3
<1>7. t[1] = c[q]
  BY <1>1, <1>2
<1> HIDE DEF r, L
<1>8. ASSUME NEW n \in 1 .. L PROVE s[n] = r[n]
  <2>1. CASE n < L /\ p < L
    <3>1. n + 1 \in 1 .. L /\ q = p + 1 /\ n \in 1 .. L - 1
      BY <1>1, <1>2, <2>1
    <3>2. CASE n + 1 <= L - p
      <4>1. n <= L - q /\ q + n = p + (n + 1)
        BY <1>1, <1>2, <3>1, <3>2
      <4> QED
        BY <1>1, <1>3, <1>6, <3>1, <3>2, <4>1
    <3>3. CASE ~(n + 1 <= L - p)
      <4>1. ~(n <= L - q) /\ n - (L - q) = n + 1 - (L - p)
        BY <1>1, <1>2, <3>1, <3>3
      <4>2. s[n] = c[n + 1 - (L - p)]
        BY <1>3, <4>1
      <4>3. t[n + 1] = c[n + 1 - (L - p)]
        BY <1>1, <3>1, <3>3
      <4>4. r[n] = t[n + 1]
        BY <1>6, <3>1
      <4> QED
        BY <4>2, <4>3, <4>4, Zenon
    <3> QED
      BY <3>2, <3>3
  <2>2. CASE n < L /\ p = L
    <3>1. /\ n + 1 \in 1 .. L /\ q = 1 /\ n \in 1 .. L - 1 /\ n <= L - q
          /\ ~(n + 1 <= L - p) /\ n + 1 - (L - p) = q + n
      BY <1>1, <1>2, <2>2
    <3> QED
      BY <1>1, <1>3, <1>6, <3>1
  <2>3. CASE n = L
    <3>1. ~(n <= L - q) /\ n - (L - q) = q
      BY <1>1, <1>2, <2>3
    <3> QED
      BY <1>3, <1>6, <1>7, <2>3, <3>1
  <2> QED
    BY <1>1, <2>1, <2>2, <2>3 DEF L
<1>9. s = r
  BY <1>3, <1>6, <1>8, SeqEqual
<1> QED
  BY <1>4, <1>5, <1>7, <1>9 DEF s, t, r, q

(* vListRemove: the others keep their turns.                                *)
Leaves(c, p, k, r) ==
  \E j \in 1 .. Len(c) : /\ Turn(c, p)[j] = c[k]
                          /\ Turn(RemoveAt(c, k), r) = RemoveAt(Turn(c, p), j)

LEMMA TurnLeft ==
  ASSUME NEW c \in Seq(Items), NEW p \in 0 .. Len(c), NEW k \in 1 .. Len(c),
         NEW r, r = IF p >= k THEN p - 1 ELSE p
  PROVE  Leaves(c, p, k, r)
<1> DEFINE t == Turn(c, p)
           L == Len(c)
           e == RemoveAt(c, k)
           s == Turn(e, r)
           j == IF k > p THEN k - p ELSE k + (L - p)
           u == RemoveAt(t, j)
<1>1. /\ t \in Seq(Items) /\ Len(t) = L /\ L \in Nat
      /\ \A n \in 1 .. L : t[n] = IF n <= L - p THEN c[p + n] ELSE c[n - (L - p)]
  BY TurnEntries
<1>2. /\ e \in Seq(Items) /\ Len(e) = L - 1
      /\ \A m \in 1 .. L - 1 : e[m] = IF m < k THEN c[m] ELSE c[m + 1]
  BY RemoveEntries
<1>3. r \in 0 .. L - 1 /\ j \in 1 .. L
  BY <1>1
<1> HIDE DEF t, e
<1>4. /\ s \in Seq(Items) /\ Len(s) = L - 1
      /\ \A n \in 1 .. L - 1 :
           s[n] = IF n <= L - 1 - r THEN e[r + n] ELSE e[n - (L - 1 - r)]
  <2>1. r \in 0 .. Len(e)
    BY <1>2, <1>3
  <2> HIDE DEF L
  <2>2. /\ s \in Seq(Items) /\ Len(s) = Len(e)
        /\ \A n \in 1 .. Len(e) :
             s[n] = IF n <= Len(e) - r THEN e[r + n] ELSE e[n - (Len(e) - r)]
    <3>1. e \in Seq(Items)
      BY <1>2
    <3> QED
      BY <2>1, <3>1, TurnEntries
  <2> HIDE DEF s
  <2>3. Len(e) = L - 1
    BY <1>2
  <2> QED
    BY <2>2, <2>3, Zenon
<1>5. /\ u \in Seq(Items) /\ Len(u) = L - 1
      /\ \A n \in 1 .. L - 1 : u[n] = IF n < j THEN t[n] ELSE t[n + 1]
  <2>1. j \in 1 .. Len(t)
    BY <1>1, <1>3
  <2> HIDE DEF j, L
  <2> QED
    BY <1>1, <2>1, RemoveEntries
<1>6. t[j] = c[k]
  <2>1. CASE k > p
    <3>1. j = k - p /\ j <= L - p /\ p + j = k
      BY <1>1, <2>1
    <3> QED
      BY <1>1, <1>3, <3>1
  <2>2. CASE k <= p
    <3>1. j = k + (L - p) /\ ~(j <= L - p) /\ j - (L - p) = k
      BY <1>1, <2>2
    <3> QED
      BY <1>1, <1>3, <3>1
  <2> QED
    BY <1>1, <2>1, <2>2
<1>a. (k > p => j = k - p) /\ (k <= p => j = k + (L - p))
  BY <1>1
<1> HIDE DEF s, u, L, j
<1>7. ASSUME NEW n \in 1 .. L - 1 PROVE s[n] = u[n]
  <2>1. n \in 1 .. L /\ n + 1 \in 1 .. L /\ k \in 1 .. L /\ p \in 0 .. L
    BY <1>1 DEF L
  <2>2. CASE k > p
    <3>1. r = p /\ j = k - p
      BY <1>a, <2>1, <2>2
    <3>2. CASE n < k - p
      <4>1. s[n] = e[p + n] /\ p + n \in 1 .. L - 1 /\ p + n < k
        BY <1>1, <1>4, <2>1, <3>1, <3>2
      <4>2. u[n] = c[p + n]
        <5>1. n < j /\ n <= L - p
          BY <1>1, <2>1, <3>1, <3>2
        <5>2. u[n] = t[n]
          BY <1>5, <5>1
        <5> QED
          BY <1>1, <2>1, <5>1, <5>2
      <4> QED
        BY <1>2, <4>1, <4>2
    <3>3. CASE n >= k - p /\ n <= L - 1 - p
      <4>1. s[n] = e[p + n] /\ p + n \in 1 .. L - 1 /\ ~(p + n < k)
        BY <1>1, <1>4, <2>1, <3>1, <3>3
      <4>2. u[n] = t[n + 1] /\ n + 1 <= L - p /\ p + (n + 1) = p + n + 1
        <5>1. ~(n < j) /\ n + 1 <= L - p /\ p + (n + 1) = p + n + 1
          BY <1>1, <2>1, <3>1, <3>3
        <5> QED
          BY <1>5, <5>1
      <4> QED
        BY <1>1, <1>2, <2>1, <4>1, <4>2
    <3>4. CASE n > L - 1 - p
      <4>1. /\ s[n] = e[n - (L - 1 - p)] /\ n - (L - 1 - p) \in 1 .. L - 1
            /\ n - (L - 1 - p) < k
        BY <1>1, <1>4, <2>1, <2>2, <3>1, <3>4
      <4>2. /\ u[n] = t[n + 1] /\ ~(n + 1 <= L - p)
            /\ n + 1 - (L - p) = n - (L - 1 - p)
        <5>1. /\ ~(n < j) /\ ~(n + 1 <= L - p)
              /\ n + 1 - (L - p) = n - (L - 1 - p)
          BY <1>1, <2>1, <3>1, <3>4
        <5> QED
          BY <1>5, <5>1
      <4>3. PICK m \in 1 .. L - 1 : m = n - (L - 1 - p)
        BY <4>1
      <4>4. s[n] = c[m]
        BY <1>2, <4>1, <4>3
      <4>5. u[n] = c[m]
        BY <1>1, <2>1, <4>2, <4>3
      <4> QED
        BY <4>4, <4>5
    <3> QED
      BY <1>1, <2>1, <3>2, <3>3, <3>4
  <2>3. CASE k <= p
    <3>1. r = p - 1 /\ j = k + (L - p)
      BY <1>a, <2>1, <2>3
    <3>2. CASE n <= L - p
      <4>1. s[n] = e[p - 1 + n] /\ p - 1 + n \in 1 .. L - 1 /\ ~(p - 1 + n < k)
        BY <1>1, <1>4, <2>1, <2>3, <3>1, <3>2
      <4>2. u[n] = t[n] /\ p - 1 + n + 1 = p + n
        BY <1>1, <1>5, <2>1, <2>3, <3>1, <3>2
      <4> QED
        BY <1>1, <1>2, <2>1, <3>2, <4>1, <4>2
    <3>3. CASE n > L - p /\ n < k + (L - p)
      <4>1. /\ s[n] = e[n - (L - p)] /\ n - (L - p) \in 1 .. L - 1 /\ n - (L - p) < k
        BY <1>1, <1>4, <2>1, <2>3, <3>1, <3>3
      <4>2. u[n] = t[n] /\ ~(n <= L - p)
        BY <1>1, <1>5, <2>1, <3>1, <3>3
      <4> QED
        BY <1>1, <1>2, <2>1, <4>1, <4>2
    <3>4. CASE n >= k + (L - p)
      <4>1. /\ s[n] = e[n - (L - p)] /\ n - (L - p) \in 1 .. L - 1 /\ ~(n - (L - p) < k)
        BY <1>1, <1>4, <2>1, <2>3, <3>1, <3>4
      <4>2. /\ u[n] = t[n + 1] /\ ~(n + 1 <= L - p)
            /\ n + 1 - (L - p) = n - (L - p) + 1
        <5>1. /\ ~(n < j) /\ ~(n + 1 <= L - p)
              /\ n + 1 - (L - p) = n - (L - p) + 1
          BY <1>1, <2>1, <3>1, <3>4
        <5> QED
          BY <1>5, <5>1
      <4>3. PICK m \in 1 .. L - 1 : m = n - (L - p)
        BY <4>1
      <4>4. s[n] = c[m + 1]
        BY <1>2, <4>1, <4>3
      <4>5. u[n] = c[m + 1]
        BY <1>1, <2>1, <4>2, <4>3
      <4> QED
        BY <4>4, <4>5
    <3> QED
      BY <1>1, <2>1, <3>2, <3>3, <3>4
  <2> QED
    BY <2>1, <2>2, <2>3
<1>8. s = u
  BY <1>4, <1>5, <1>7, SeqEqual
<1> QED
  BY <1>3, <1>6, <1>8 DEF s, u, t, e, L, Leaves
-----------------------------------------------------------------------------
(* The sequences that the rings stand for.                                  *)
Shapes == \A l \in Lists : \E c, p : Shape(l, c, p)
As(l, c, p) == IF l \in Ready THEN Turn(c, p) ELSE c
Unmoved(m) == \A d, q : Shape(m, d, q) => Shape(m, d, q)'

LEMMA AsOnce ==
  ASSUME NEW l \in Lists, NEW c \in Seq(Items), IsInjective(c), NEW p \in 0 .. Len(c)
  PROVE  /\ As(l, c, p) \in Seq(Items) /\ IsInjective(As(l, c, p))
         /\ ToSet(As(l, c, p)) = ToSet(c) /\ Len(As(l, c, p)) = Len(c)
BY TurnEntries, TurnOnce DEF As

SequencesRead ==
  /\ Sequences = [l \in Lists |-> Sequences[l]]
  /\ \A l \in Lists : \A c, p : Shape(l, c, p) => Sequences[l] = As(l, c, p)

LEMMA SequenceIs == SequencesRead
<1> SUFFICES ASSUME NEW l \in Lists, NEW c, NEW p, Shape(l, c, p)
             PROVE  Sequences[l] = As(l, c, p)
  BY DEF SequencesRead, Sequences
<1>1. /\ c \in Seq(Items) /\ IsInjective(c) /\ Len(c) \in Nat /\ Linked(l, c)
      /\ p \in 0 .. Len(c) /\ pxIndex[l] = NodeAt(l, c, p)
  BY ShapeOf
<1>2. Chain(l) = c
  BY <1>1, ChainIs
<1>3. (IF pxIndex[l] = l THEN 0
       ELSE CHOOSE n \in DOMAIN Chain(l) : Chain(l)[n] = pxIndex[l]) = p
  <2>1. CASE p = 0
    BY <1>1, <2>1, NodesOf
  <2>2. CASE p # 0
    <3>1. /\ pxIndex[l] = c[p] /\ p \in 1 .. Len(c) /\ l \notin Items /\ c[p] \in Items
          /\ DOMAIN c = 1 .. Len(c)
      BY <1>1, <2>2, NodesOf, EntriesOf
    <3>2. \A n \in 1 .. Len(c) : c[n] = c[p] => n = p
      BY <1>1, <3>1 DEF IsInjective
    <3>3. (CHOOSE n \in DOMAIN Chain(l) : Chain(l)[n] = pxIndex[l]) = p
      BY <1>2, <3>1, <3>2
    <3> QED
      BY <3>1, <3>3
  <2> QED
    BY <2>1, <2>2
<1>4. Turns(l) = Turn(c, p)
  <2> DEFINE at == IF pxIndex[l] = l THEN 0
                   ELSE CHOOSE n \in DOMAIN Chain(l) : Chain(l)[n] = pxIndex[l]
  <2>1. Turns(l) = SubSeq(Chain(l), at + 1, Len(Chain(l))) \o SubSeq(Chain(l), 1, at)
    BY DEF Turns
  <2>2. at = p
    BY <1>3
  <2> HIDE DEF at
  <2> QED
    BY <1>2, <2>1, <2>2 DEF Turn
<1> QED
  BY <1>2, <1>4 DEF Sequences, As

LEMMA SequencesSame ==
  ASSUME Shapes, \A m \in Lists : Unmoved(m)
  PROVE  Shapes' /\ Sequences' = Sequences
<1>0. SequencesRead'
  BY SequenceIs, PTL
<1>1. \A l \in Lists : \A c, p : Shape(l, c, p)' => Sequences'[l] = As(l, c, p)
  BY <1>0 DEF SequencesRead
<1>2. Sequences' = [l \in Lists |-> Sequences'[l]]
  BY <1>0 DEF SequencesRead
<1>3. Sequences = [l \in Lists |-> Sequences[l]]
  BY SequenceIs DEF SequencesRead
<1>4. ASSUME NEW m \in Lists
      PROVE  (\E c, p : Shape(m, c, p)') /\ Sequences'[m] = Sequences[m]
  <2>1. PICK c, p : Shape(m, c, p)
    BY DEF Shapes
  <2>2. Shape(m, c, p)'
    BY <2>1 DEF Unmoved
  <2>3. Sequences[m] = As(m, c, p)
    BY <2>1, SequenceIs DEF SequencesRead
  <2> QED
    BY <1>1, <2>2, <2>3
<1>5. Shapes'
  BY <1>4 DEF Shapes
<1>6. Sequences' = Sequences
  BY <1>2, <1>3, <1>4, Zenon
<1> QED
  BY <1>5, <1>6

LEMMA SequencesChange ==
  ASSUME Shapes, NEW l \in Lists, \A m \in Lists \ {l} : Unmoved(m),
         NEW d, NEW q, Shape(l, d, q)'
  PROVE  Shapes' /\ Sequences' = [Sequences EXCEPT ![l] = As(l, d, q)]
<1>0. SequencesRead'
  BY SequenceIs, PTL
<1>1. \A m \in Lists : \A c, p : Shape(m, c, p)' => Sequences'[m] = As(m, c, p)
  BY <1>0 DEF SequencesRead
<1>2. Sequences' = [m \in Lists |-> Sequences'[m]]
  BY <1>0 DEF SequencesRead
<1>3. Sequences = [m \in Lists |-> Sequences[m]]
  BY SequenceIs DEF SequencesRead
<1>4. ASSUME NEW m \in Lists \ {l}
      PROVE  (\E c, p : Shape(m, c, p)') /\ Sequences'[m] = Sequences[m]
  <2>1. PICK c, p : Shape(m, c, p)
    BY DEF Shapes
  <2>2. Shape(m, c, p)'
    BY <2>1 DEF Unmoved
  <2>3. Sequences[m] = As(m, c, p)
    BY <2>1, SequenceIs DEF SequencesRead
  <2> QED
    BY <1>1, <2>2, <2>3
<1>5. Sequences'[l] = As(l, d, q)
  BY <1>1
<1>6. Shapes'
  BY <1>4 DEF Shapes
<1>7. [Sequences EXCEPT ![l] = As(l, d, q)]
      = [m \in Lists |-> IF m = l THEN As(l, d, q) ELSE Sequences[m]]
  BY <1>3
<1>8. \A m \in Lists : Sequences'[m] = IF m = l THEN As(l, d, q) ELSE Sequences[m]
  BY <1>4, <1>5
<1>9. Sequences' = [Sequences EXCEPT ![l] = As(l, d, q)]
  BY <1>2, <1>7, <1>8, Zenon
<1> QED
  BY <1>6, <1>9

(* An item on no list is free.                                              *)
LEMMA ItemFree ==
  ASSUME Shapes, NEW i \in Items, pvContainer[i] = Null
  PROVE  Promise!Free(i)
<1>1. ASSUME NEW l \in Lists PROVE i \notin ToSet(Sequences[l])
  <2>1. PICK c, p : Shape(l, c, p)
    BY DEF Shapes
  <2>2. /\ c \in Seq(Items) /\ IsInjective(c) /\ p \in 0 .. Len(c)
        /\ ToSet(c) = {j \in Items : pvContainer[j] = l}
    BY <2>1, ShapeOf
  <2>3. ToSet(Sequences[l]) = ToSet(c) /\ l # Null
    BY <2>1, <2>2, SequenceIs, AsOnce, ItemsAssumption DEF SequencesRead
  <2> QED
    BY <2>2, <2>3
<1> QED
  BY <1>1, SameOperators DEF Promise!Free, Promise!On, Promise!Lists, Lists

-----------------------------------------------------------------------------
(* Each operation keeps the rings and does to the sequences what the        *)
(* promise says.                                                            *)
LEMMA SetValueKeeps ==
  ASSUME Typed, Shapes, NEW i \in Items, NEW v \in Values, SetValue(i, v)
  PROVE  Typed' /\ Shapes' /\ Promise!SetValue(i, v)
<1>1. /\ pvContainer[i] = Null /\ xItemValue' = [xItemValue EXCEPT ![i] = v]
      /\ got' = <<>> /\ UNCHANGED <<pxNext, pxPrevious, pxIndex, uxNumberOfItems, pvContainer>>
  BY DEF SetValue, links
<1>2. \A m \in Lists : Unmoved(m)
  BY <1>1 DEF Unmoved, Shape, Linked, Indexed
<1>3. Shapes' /\ Sequences' = Sequences
  BY <1>2, SequencesSame
<1>4. Typed'
  BY <1>1 DEF Typed
<1>5. Promise!SetValue(i, v)
  BY <1>1, <1>3, ItemFree DEF Promise!SetValue
<1> QED
  BY <1>3, <1>4, <1>5

LEMMA InsertLast ==
  ASSUME NEW c \in Seq(Items), NEW i \in Items
  PROVE  InsertAt(c, Len(c) + 1, i) = Append(c, i)
<1> DEFINE e == InsertAt(c, Len(c) + 1, i)
           t == Append(c, i)
<1>1. /\ e \in Seq(Items) /\ Len(e) = Len(c) + 1 /\ Len(c) \in Nat
      /\ \A m \in 1 .. Len(c) + 1 :
           e[m] = IF m <= Len(c) THEN c[m] ELSE IF m = Len(c) + 1 THEN i ELSE c[m - 1]
  <2>1. PICK n \in 0 .. Len(c) : n = Len(c)
    OBVIOUS
  <2>2. /\ InsertAt(c, n + 1, i) \in Seq(Items) /\ Len(InsertAt(c, n + 1, i)) = Len(c) + 1
        /\ \A m \in 1 .. Len(c) + 1 :
             InsertAt(c, n + 1, i)[m] = IF m <= n THEN c[m]
                                        ELSE IF m = n + 1 THEN i ELSE c[m - 1]
    BY InsertEntries
  <2> QED
    BY <2>1, <2>2
<1>2. /\ t \in Seq(Items) /\ Len(t) = Len(c) + 1 /\ t[Len(c) + 1] = i
      /\ \A m \in 1 .. Len(c) : t[m] = c[m]
  BY AppendProperties
<1> HIDE DEF e, t
<1>3. \A m \in 1 .. Len(c) + 1 : e[m] = t[m]
  BY <1>1, <1>2
<1>4. e = t
  BY <1>1, <1>2, <1>3, SeqEqual
<1> QED
  BY <1>4 DEF e, t

LEMMA InsertEndKeeps ==
  ASSUME Typed, Shapes, NEW i \in Items, NEW l \in Ready \cup Fifo, vListInsertEnd(l, i)
  PROVE  Typed' /\ Shapes' /\ Promise!vListInsertEnd(l, i)
<1>1. l \in Lists /\ pvContainer[i] = Null /\ got' = <<>> /\ xItemValue' = xItemValue
  BY DEF vListInsertEnd, Lists
<1>2. PICK c, p : Shape(l, c, p)
  BY <1>1 DEF Shapes
<1>3. c \in Seq(Items) /\ p \in 0 .. Len(c) /\ (l \in Fifo => p = Len(c))
  BY <1>2, ShapeOf
<1>4. /\ Typed' /\ Shape(l, InsertAt(c, p + 1, i), p + 1)'
      /\ \A m \in Lists \ {l} : Unmoved(m)
  BY <1>2, InsertedEnd DEF Unmoved
<1>5. /\ Shapes'
      /\ Sequences' = [Sequences EXCEPT ![l] = As(l, InsertAt(c, p + 1, i), p + 1)]
  BY <1>1, <1>4, SequencesChange
<1>6. Sequences[l] = As(l, c, p)
  BY <1>1, <1>2, SequenceIs DEF SequencesRead
<1>7. As(l, InsertAt(c, p + 1, i), p + 1) = Append(Sequences[l], i)
  <2>1. CASE l \in Ready
    BY <1>3, <1>6, <2>1, TurnEnd DEF As
  <2>2. CASE l \notin Ready
    <3>1. p = Len(c)
      BY <1>3, <2>2
    <3> QED
      BY <1>3, <1>6, <2>2, <3>1, InsertLast DEF As
  <2> QED
    BY <2>1, <2>2
<1>8. Sequences' = [Sequences EXCEPT ![l] = Append(Sequences[l], i)]
  BY <1>5, <1>7
<1>9. Promise!vListInsertEnd(l, i)
  BY <1>1, <1>8, ItemFree DEF Promise!vListInsertEnd
<1> QED
  BY <1>4, <1>5, <1>9

LEMMA InsertKeeps ==
  ASSUME Typed, Shapes, NEW i \in Items, NEW l \in Sorted, vListInsert(l, i)
  PROVE  Typed' /\ Shapes' /\ Promise!vListInsert(l, i)
<1>1. /\ l \in Lists /\ l \notin Ready /\ pvContainer[i] = Null
      /\ got' = <<>> /\ xItemValue' = xItemValue
  BY UseAssumption DEF vListInsert, Lists
<1>2. PICK c, p : Shape(l, c, p)
  BY <1>1 DEF Shapes
<1>3. /\ Typed'
      /\ \E q : Stops(c, xItemValue[i], q) /\ \E r : Shape(l, InsertAt(c, q + 1, i), r)'
      /\ \A m \in Lists \ {l} : Unmoved(m)
  BY <1>2, Inserted DEF Unmoved
<1>4. PICK q, r : Stops(c, xItemValue[i], q) /\ Shape(l, InsertAt(c, q + 1, i), r)'
  BY <1>3
<1>5. /\ Shapes'
      /\ Sequences' = [Sequences EXCEPT ![l] = As(l, InsertAt(c, q + 1, i), r)]
  BY <1>1, <1>3, <1>4, SequencesChange
<1>6. Sequences[l] = c
  BY <1>1, <1>2, SequenceIs DEF SequencesRead, As
<1>7. Sequences' = [Sequences EXCEPT ![l] = InsertAt(Sequences[l], q + 1, i)]
  BY <1>1, <1>5, <1>6 DEF As
<1>8. q \in 0 .. Len(Sequences[l]) /\ Promise!Before(Sequences[l], xItemValue[i], q)
  BY <1>4, <1>6 DEF Stops, Promise!Before
<1>9. Promise!Free(i)
  BY <1>1, ItemFree
<1>10. Promise!vListInsert(l, i)
  BY <1>1, <1>7, <1>8, <1>9, SameOperators DEF Promise!vListInsert
<1> QED
  BY <1>3, <1>5, <1>10

(* The place of an item that is there once.                                 *)
LEMMA OnlyPlace ==
  ASSUME NEW s \in Seq(Items), IsInjective(s), NEW j \in 1 .. Len(s), NEW i, i = s[j]
  PROVE  Promise!Place(s, i) = j
<1>1. DOMAIN s = 1 .. Len(s) /\ \A n \in 1 .. Len(s) : s[n] = s[j] => n = j
  BY EntriesOf DEF IsInjective
<1> QED
  BY <1>1 DEF Promise!Place

LEMMA RemoveKeeps ==
  ASSUME Typed, Shapes, NEW i \in Items, vListRemove(i)
  PROVE  Typed' /\ Shapes' /\ \E l \in Lists : Promise!vListRemove(l, i)
<1>0. PICK l : l = pvContainer[i]
  OBVIOUS
<1>1. /\ l \in Lists /\ Unlink(i) /\ KeepIndex(i) /\ got' = <<>> /\ xItemValue' = xItemValue
      /\ got' \in Seq(Items)
  BY <1>0 DEF vListRemove, Typed
<1>2. PICK c, p : Shape(l, c, p)
  BY <1>1 DEF Shapes
<1>3. /\ c \in Seq(Items) /\ IsInjective(c) /\ Len(c) \in Nat /\ p \in 0 .. Len(c)
      /\ ToSet(c) = {j \in Items : pvContainer[j] = l}
  BY <1>2, ShapeOf
<1>4. i \in ToSet(c)
  BY <1>0, <1>3
<1>5. PICK k \in 1 .. Len(c) : c[k] = i
  BY <1>3, <1>4, EntriesOf
<1>r. PICK r : r = IF p >= k THEN p - 1 ELSE p
  OBVIOUS
<1> DEFINE t == As(l, c, p)
<1>6. /\ Typed' /\ Shape(l, RemoveAt(c, k), r)'
      /\ \A m \in Lists \ {l} : Unmoved(m)
  BY <1>1, <1>2, <1>5, <1>r, Removed DEF Unmoved
<1>7. /\ Shapes'
      /\ Sequences' = [Sequences EXCEPT ![l] = As(l, RemoveAt(c, k), r)]
  BY <1>1, <1>6, SequencesChange
<1>8. Sequences[l] = t
  BY <1>1, <1>2, SequenceIs DEF SequencesRead
<1>9. t \in Seq(Items) /\ IsInjective(t) /\ ToSet(t) = ToSet(c) /\ Len(t) = Len(c)
  BY <1>1, <1>3, AsOnce
<1>10. \E j \in 1 .. Len(t) : t[j] = i /\ As(l, RemoveAt(c, k), r) = RemoveAt(t, j)
  <2>1. CASE l \in Ready
    <3>1. PICK j \in 1 .. Len(c) : /\ Turn(c, p)[j] = c[k]
                                   /\ Turn(RemoveAt(c, k), r) = RemoveAt(Turn(c, p), j)
      <4>1. c \in Seq(Items) /\ p \in 0 .. Len(c) /\ k \in 1 .. Len(c)
        BY <1>3
      <4>2. Leaves(c, p, k, r)
        BY <1>r, <4>1, TurnLeft
      <4> QED
        BY <4>2 DEF Leaves
    <3> QED
      BY <1>5, <1>9, <2>1, <3>1 DEF As
  <2>2. CASE l \notin Ready
    BY <1>5, <2>2 DEF As
  <2> QED
    BY <2>1, <2>2
<1>11. PICK j \in 1 .. Len(t) : t[j] = i /\ As(l, RemoveAt(c, k), r) = RemoveAt(t, j)
  BY <1>10
<1> HIDE DEF t
<1>12. Promise!Place(t, i) = j
  BY <1>9, <1>11, OnlyPlace
<1>13. Sequences' = [Sequences EXCEPT ![l] = RemoveAt(Sequences[l], Promise!Place(Sequences[l], i))]
  BY <1>7, <1>8, <1>11, <1>12
<1>14. i \in ToSet(Sequences[l])
  BY <1>4, <1>8, <1>9
<1>15. Promise!vListRemove(l, i)
  BY <1>1, <1>13, <1>14, SameOperators
     DEF Promise!vListRemove, Promise!On, Promise!Taken
<1> QED
  BY <1>1, <1>6, <1>7, <1>15

LEMMA NextEntryKeeps ==
  ASSUME Typed, Shapes, NEW l \in Ready, NextEntry(l)
  PROVE  Typed' /\ Shapes' /\ Promise!NextEntry(l)
<1>1. /\ l \in Lists /\ l \notin Fifo /\ uxNumberOfItems[l] > 0
      /\ pxIndex' = [pxIndex EXCEPT ![l] = EntryAfter(l, pxIndex[l])]
      /\ got' = <<pxIndex'[l]>>
      /\ UNCHANGED <<pxNext, pxPrevious, uxNumberOfItems, pvContainer, xItemValue>>
  BY UseAssumption DEF NextEntry, Lists, links
<1>2. PICK c, p : Shape(l, c, p)
  BY <1>1 DEF Shapes
<1>3. /\ c \in Seq(Items) /\ IsInjective(c) /\ Linked(l, c) /\ Len(c) > 0
      /\ p \in 0 .. Len(c) /\ pxIndex[l] = NodeAt(l, c, p)
  BY <1>1, <1>2, ShapeOf
<1> DEFINE q == After(c, p)
<1>4. q \in 1 .. Len(c) /\ c[q] \in Items /\ EntryAfter(l, pxIndex[l]) = c[q]
  BY <1>1, <1>3, EntryAt
<1>5. /\ pxIndex' \in [Lists -> Nodes] /\ pxIndex'[l] = c[q]
      /\ \A m \in Lists \ {l} : pxIndex'[m] = pxIndex[m]
  BY <1>1, <1>4 DEF Typed, Nodes
<1> HIDE DEF q
<1>6. Shape(l, c, q)'
  <2>1. q \in 0 .. Len(c) /\ pxIndex'[l] = NodeAt(l, c, q)
    BY <1>3, <1>4, <1>5 DEF NodeAt
  <2>2. UNCHANGED <<links, uxNumberOfItems, pvContainer>>
    BY <1>1 DEF links
  <2> QED
    BY <1>1, <1>2, <2>1, <2>2, IndexMoved
<1>7. \A m \in Lists \ {l} : Unmoved(m)
  BY <1>1, <1>5 DEF Unmoved, Shape, Linked, Indexed
<1>8. Typed'
  BY <1>1, <1>4, <1>5 DEF Typed
<1>9. Shapes' /\ Sequences' = [Sequences EXCEPT ![l] = Turn(c, q)]
  BY <1>1, <1>6, <1>7, SequencesChange DEF As
<1>10. Sequences[l] = Turn(c, p)
  BY <1>1, <1>2, SequenceIs DEF SequencesRead, As
<1>11. /\ Turn(c, q) = Append(Tail(Turn(c, p)), Head(Turn(c, p)))
       /\ Head(Turn(c, p)) = c[q] /\ Turn(c, p) # <<>>
  BY <1>3, TurnNext DEF q
<1>12. Promise!NextEntry(l)
  BY <1>1, <1>5, <1>9, <1>10, <1>11 DEF Promise!NextEntry, Promise!Rotated
<1> QED
  BY <1>8, <1>9, <1>12

(* The item at the head leaves.                                             *)
LEMMA HeadLeaves ==
  ASSUME NEW c \in Seq(Items), Len(c) > 0
  PROVE  RemoveAt(c, 1) = Tail(c) /\ Head(c) = c[1] /\ c # <<>>
<1> DEFINE e == RemoveAt(c, 1)
<1>1. /\ e \in Seq(Items) /\ Len(e) = Len(c) - 1 /\ Len(c) \in Nat
      /\ \A m \in 1 .. Len(c) - 1 : e[m] = c[m + 1]
  <2>1. 1 \in 1 .. Len(c) /\ Len(c) \in Nat
    OBVIOUS
  <2>2. /\ e \in Seq(Items) /\ Len(e) = Len(c) - 1
        /\ \A m \in 1 .. Len(c) - 1 : e[m] = IF m < 1 THEN c[m] ELSE c[m + 1]
    BY <2>1, RemoveEntries
  <2> HIDE DEF e
  <2> QED
    BY <2>1, <2>2
<1>2. c # <<>>
  OBVIOUS
<1>3. /\ Tail(c) \in Seq(Items) /\ Len(Tail(c)) = Len(c) - 1 /\ Head(c) = c[1]
      /\ \A m \in 1 .. Len(c) - 1 : Tail(c)[m] = c[m + 1]
  BY <1>2, HeadTailProperties
<1> HIDE DEF e
<1>4. e = Tail(c)
  BY <1>1, <1>3, SeqEqual
<1> QED
  BY <1>2, <1>3, <1>4 DEF e

LEMMA TakeHeadKeeps ==
  ASSUME Typed, Shapes, NEW l \in Fifo \cup Sorted, TakeHead(l)
  PROVE  Typed' /\ Shapes' /\ Promise!TakeHead(l)
<1> DEFINE i == pxNext[l]
<1>1. /\ l \in Lists /\ l \notin Ready /\ uxNumberOfItems[l] > 0
      /\ got' = <<i>> /\ Unlink(i) /\ KeepIndex(i) /\ xItemValue' = xItemValue
  BY UseAssumption DEF TakeHead, Lists
<1>2. PICK c, p : Shape(l, c, p)
  BY <1>1 DEF Shapes
<1>3. /\ c \in Seq(Items) /\ IsInjective(c) /\ Len(c) > 0 /\ Len(c) \in Nat
      /\ Around(pxNext, pxPrevious, l, c) /\ p \in 0 .. Len(c)
  BY <1>1, <1>2, ShapeOf
<1>4. i = c[1] /\ 1 \in 1 .. Len(c) /\ i \in Items
  <2>1. 0 \in 0 .. Len(c) /\ 0 + 1 = 1 /\ 1 \in 1 .. Len(c)
    BY <1>3
  <2>2. pxNext[NodeAt(l, c, 0)] = NodeAt(l, c, 0 + 1)
    BY <1>3, <2>1 DEF Around
  <2> QED
    BY <1>1, <1>3, <2>1, <2>2, NodesOf
<1> HIDE DEF i
<1> DEFINE r == IF p >= 1 THEN p - 1 ELSE p
<1>5. /\ Typed' /\ Shape(l, RemoveAt(c, 1), r)'
      /\ \A m \in Lists \ {l} : Unmoved(m)
  <2>1. PICK q : q = r
    OBVIOUS
  <2> HIDE DEF r
  <2>2. q = IF p >= 1 THEN p - 1 ELSE p
    BY <2>1 DEF r
  <2>3. got' \in Seq(Items)
    BY <1>1, <1>4
  <2>4. /\ Typed' /\ Shape(l, RemoveAt(c, 1), q)'
        /\ \A m \in Lists \ {l} : \A d, s : Shape(m, d, s) => Shape(m, d, s)'
    BY <1>1, <1>2, <1>4, <2>2, <2>3, Removed
  <2> QED
    BY <2>1, <2>4 DEF Unmoved
<1> HIDE DEF r
<1>6. RemoveAt(c, 1) = Tail(c) /\ Head(c) = c[1] /\ c # <<>>
  BY <1>3, HeadLeaves
<1>7. Shapes' /\ Sequences' = [Sequences EXCEPT ![l] = Tail(c)]
  BY <1>1, <1>5, <1>6, SequencesChange DEF As
<1>8. Sequences[l] = c
  BY <1>1, <1>2, SequenceIs DEF SequencesRead, As
<1>9. Promise!TakeHead(l)
  BY <1>1, <1>4, <1>6, <1>7, <1>8 DEF Promise!TakeHead
<1> QED
  BY <1>5, <1>7, <1>9

(* A walk moves the index of every ready list one turn on.                  *)
LEMMA WalkKeeps ==
  ASSUME Typed, Shapes, Walk
  PROVE  /\ Shapes' /\ Promise!GoneThrough
         /\ got' \in Seq(Items) => Typed'
         /\ xItemValue' = xItemValue
<1>1. /\ pxIndex' = [l \in Lists |-> IF l \in Walked THEN First(l) ELSE pxIndex[l]]
      /\ UNCHANGED <<pxNext, pxPrevious, uxNumberOfItems, pvContainer, xItemValue>>
      /\ UNCHANGED <<links, uxNumberOfItems, pvContainer>>
  BY DEF Walk, links
<1>2. ASSUME NEW l \in Lists
      PROVE  /\ pxIndex'[l] \in Nodes /\ \E c, p : Shape(l, c, p)'
             /\ Sequences'[l] = IF l \in Ready \cap Reported /\ Sequences[l] # <<>>
                                THEN Promise!Rotated(Sequences[l]) ELSE Sequences[l]
  <2>1. PICK c, p : Shape(l, c, p)
    BY DEF Shapes
  <2>2. /\ c \in Seq(Items) /\ IsInjective(c) /\ Linked(l, c) /\ Len(c) \in Nat
        /\ Len(c) = uxNumberOfItems[l]
        /\ p \in 0 .. Len(c) /\ pxIndex[l] = NodeAt(l, c, p)
    BY <2>1, ShapeOf
  <2>3. Sequences[l] = As(l, c, p)
    BY <2>1, SequenceIs DEF SequencesRead
  <2>4. Sequences[l] \in Seq(Items) /\ Len(Sequences[l]) = Len(c)
    BY <2>2, <2>3, AsOnce
  <2>5. \A q : Shape(l, c, q)' => Sequences'[l] = As(l, c, q)
    <3>1. SequencesRead'
      BY SequenceIs, PTL
    <3> QED
      BY <3>1 DEF SequencesRead
  <2>6. CASE l \in Walked
    <3>1. l \in Reported /\ Len(c) > 0 /\ l \notin Fifo
      BY <2>2, <2>6, UseAssumption DEF Walked
    <3> DEFINE q == After(c, p)
    <3>2. q \in 1 .. Len(c) /\ c[q] \in Items /\ First(l) = c[q]
      BY <2>2, <3>1, EntryAt DEF First
    <3>3. q \in 0 .. Len(c) /\ NodeAt(l, c, q) = c[q]
      BY <2>2, <3>2 DEF NodeAt
    <3>4. Turn(c, q) = Append(Tail(Turn(c, p)), Head(Turn(c, p)))
      BY <2>2, <3>1, TurnNext
    <3> HIDE DEF q
    <3>5. pxIndex'[l] = c[q]
      BY <1>1, <2>6, <3>2
    <3>6. Shape(l, c, q)'
      BY <1>1, <2>1, <3>1, <3>3, <3>5, IndexMoved
    <3>7. Sequences'[l] = As(l, c, q)
      BY <2>5, <3>6
    <3>8. Sequences[l] # <<>>
      BY <2>4, <3>1
    <3>9. CASE l \in Ready
      BY <2>3, <3>1, <3>2, <3>4, <3>5, <3>6, <3>7, <3>8, <3>9 DEF As, Promise!Rotated, Nodes
    <3>10. CASE l \notin Ready
      BY <2>3, <3>2, <3>5, <3>6, <3>7, <3>10 DEF As, Nodes
    <3> QED
      BY <3>9, <3>10
  <2>7. CASE l \notin Walked
    <3>1. pxIndex'[l] = pxIndex[l] /\ pxIndex[l] \in Nodes
      BY <1>1, <2>7 DEF Typed
    <3>2. Shape(l, c, p)'
      BY <1>1, <2>1, <2>2, <3>1, ShapeOf, IndexMoved
    <3>3. Sequences'[l] = Sequences[l]
      BY <2>3, <2>5, <3>2
    <3>4. l \in Reported => Sequences[l] = <<>>
      BY <2>2, <2>4, <2>7 DEF Walked
    <3> QED
      BY <3>1, <3>2, <3>3, <3>4
  <2> QED
    BY <2>6, <2>7
<1>3. Shapes'
  BY <1>2 DEF Shapes
<1>4. Sequences' = [l \in Lists |-> Sequences'[l]]
  <2>1. SequencesRead'
    BY SequenceIs, PTL
  <2> QED
    BY <2>1 DEF SequencesRead
<1>5. Promise!GoneThrough
  <2>1. Sequences' = [l \in Lists |->
                        IF l \in Ready \cap Reported /\ Sequences[l] # <<>>
                        THEN Promise!Rotated(Sequences[l]) ELSE Sequences[l]]
    BY <1>2, <1>4
  <2> QED
    BY <2>1, Zenon DEF Promise!GoneThrough, Promise!Lists, Lists
<1>6. pxIndex' \in [Lists -> Nodes]
  BY <1>1, <1>2
<1> QED
  BY <1>1, <1>3, <1>5, <1>6 DEF Typed

LEMMA TaskListKeeps ==
  ASSUME Typed, Shapes, vTaskList
  PROVE  Typed' /\ Shapes' /\ Promise!vTaskList
<1>1. Walk /\ got' = Told
  BY DEF vTaskList, Told
<1>2. /\ Told \in Seq(Items) /\ IsInjective(Told)
      /\ ToSet(Told) = {i \in Items : pvContainer[i] \in Walked}
  BY Reports DEF Shapes
<1>3. /\ Shapes' /\ Promise!GoneThrough /\ Typed' /\ xItemValue' = xItemValue
  BY <1>1, <1>2, WalkKeeps
<1>4. ASSUME NEW l \in Lists
      PROVE  /\ ToSet(Sequences[l]) = {i \in Items : pvContainer[i] = l}
             /\ l \in Reported \ Walked => ToSet(Sequences[l]) = {}
  <2>1. PICK c, p : Shape(l, c, p)
    BY DEF Shapes
  <2>2. /\ c \in Seq(Items) /\ IsInjective(c) /\ Len(c) = uxNumberOfItems[l] /\ p \in 0 .. Len(c)
        /\ ToSet(c) = {i \in Items : pvContainer[i] = l} /\ Len(c) \in Nat
    BY <2>1, ShapeOf
  <2>3. ToSet(Sequences[l]) = ToSet(c)
    BY <2>1, <2>2, SequenceIs, AsOnce DEF SequencesRead
  <2>4. ASSUME l \in Reported \ Walked PROVE ToSet(c) = {}
    <3>1. Len(c) = 0
      BY <2>2, <2>4 DEF Walked
    <3>2. c = <<>>
      BY <2>2, <3>1, EmptySeq
    <3> QED
      BY <2>2, <3>2, NoEntries
  <2> QED
    BY <2>2, <2>3, <2>4
<1>5. Reported \subseteq Lists /\ Walked \subseteq Reported
  BY UseAssumption DEF Lists, Walked
<1>6. ToSet(Told) = UNION {ToSet(Sequences[l]) : l \in Reported}
  <2>1. ASSUME NEW i \in Items, pvContainer[i] \in Walked
        PROVE  i \in UNION {ToSet(Sequences[l]) : l \in Reported}
    BY <1>4, <1>5, <2>1
  <2>2. ASSUME NEW l \in Reported, NEW i \in ToSet(Sequences[l])
        PROVE  i \in Items /\ pvContainer[i] \in Walked
    BY <1>4, <1>5
  <2> QED
    BY <1>2, <2>1, <2>2
<1>7. Promise!vTaskList
  BY <1>1, <1>2, <1>3, <1>6, SameOperators DEF Promise!vTaskList
<1> QED
  BY <1>3, <1>7
-----------------------------------------------------------------------------
(* The theorems about the pointers.                                         *)
LEMMA IInvShapes == IInv <=> Typed /\ Shapes
<1>1. ASSUME NEW l \in Lists, NEW c, NEW p, Shape(l, c, p)
      PROVE  Linked(l, Chain(l)) /\ Indexed(l, Chain(l), p)
  BY <1>1, ChainIs DEF Shape
<1> QED
  BY <1>1 DEF IInv, Shapes, Shape, Indexed

(* The lists are initialised empty.                                         *)
LEMMA EmptyRings ==
  ASSUME Init
  PROVE  IInv /\ Promise!Init
<1>1. \A l \in Lists : l # Null /\ l \in Nodes
  BY ItemsAssumption DEF Nodes
<1>2. <<>> \in Seq(Items) /\ Len(<<>>) = 0 /\ IsInjective(<<>>)
  BY DEF IsInjective
<1>3. ToSet(<<>>) = {}
  BY <1>2, NoEntries
<1>4. ASSUME NEW l \in Lists PROVE Shape(l, <<>>, 0)
  <2>1. Around(pxNext, pxPrevious, l, <<>>)
    BY <1>1, <1>2 DEF Init, Around, NodeAt
  <2>2. {j \in Items : pvContainer[j] = l} = {} /\ uxNumberOfItems[l] = 0
    BY <1>1 DEF Init
  <2>3. Linked(l, <<>>)
    BY <1>2, <1>3, <2>1, <2>2 DEF Linked
  <2>4. Indexed(l, <<>>, 0)
    BY <1>2 DEF Init, Indexed, NodeAt
  <2> QED
    BY <2>3, <2>4 DEF Shape
<1>5. Typed
  BY DEF Init, Typed, Nodes
<1>6. ASSUME NEW l \in Lists PROVE Sequences[l] = <<>>
  <2>1. Sequences[l] = As(l, <<>>, 0)
    BY <1>4, SequenceIs DEF SequencesRead
  <2>2. As(l, <<>>, 0) \in Seq(Items) /\ Len(As(l, <<>>, 0)) = 0
    <3>1. 0 \in 0 .. Len(<<>>)
      BY <1>2
    <3>2. \A c \in Seq(Items) : \A p \in 0 .. Len(c) :
            IsInjective(c) => As(l, c, p) \in Seq(Items) /\ Len(As(l, c, p)) = Len(c)
      BY AsOnce
    <3> QED
      BY <1>2, <3>1, <3>2
  <2> QED
    BY <2>1, <2>2, EmptySeq
<1>7. Sequences = [l \in Lists |-> <<>>]
  BY <1>6, SequenceIs, Zenon DEF SequencesRead
<1>8. Promise!Init
  BY <1>7 DEF Init, Promise!Init, Promise!Lists, Lists, Promise!Values, Values
<1> QED
  BY <1>4, <1>5, <1>8, IInvShapes DEF Shapes

(* Each step keeps the rings, and is a step of the promise.                 *)
LEMMA RingStep ==
  ASSUME IInv, [Next]_vars
  PROVE  IInv' /\ [Promise!Next]_(Promise!vars)
<1>1. Typed /\ Shapes
  BY IInvShapes
<1>2. SUFFICES Typed' /\ Shapes' /\ (Promise!Next \/ UNCHANGED Promise!vars)
  <2>1. IInv' <=> Typed' /\ Shapes'
    BY IInvShapes, PTL
  <2> QED
    BY <2>1, <1>2
<1>3. ASSUME NEW i \in Items, NEW v \in Values, SetValue(i, v)
      PROVE  Typed' /\ Shapes' /\ Promise!Next
  <2>1. Typed' /\ Shapes' /\ Promise!SetValue(i, v)
    BY <1>1, <1>3, SetValueKeeps
  <2> QED
    BY <2>1 DEF Promise!Next, Promise!Values, Values
<1>4. ASSUME NEW i \in Items, NEW l \in Ready \cup Fifo, vListInsertEnd(l, i)
      PROVE  Typed' /\ Shapes' /\ Promise!Next
  <2>1. Typed' /\ Shapes' /\ Promise!vListInsertEnd(l, i)
    BY <1>1, <1>4, InsertEndKeeps
  <2> QED
    BY <2>1 DEF Promise!Next
<1>5. ASSUME NEW i \in Items, NEW l \in Sorted, vListInsert(l, i)
      PROVE  Typed' /\ Shapes' /\ Promise!Next
  <2>1. Typed' /\ Shapes' /\ Promise!vListInsert(l, i)
    BY <1>1, <1>5, InsertKeeps
  <2> QED
    BY <2>1 DEF Promise!Next
<1>6. ASSUME NEW i \in Items, vListRemove(i)
      PROVE  Typed' /\ Shapes' /\ Promise!Next
  <2>1. Typed' /\ Shapes' /\ \E l \in Lists : Promise!vListRemove(l, i)
    BY <1>1, <1>6, RemoveKeeps
  <2> QED
    BY <2>1 DEF Promise!Next, Promise!Lists, Lists
<1>7. ASSUME NEW l \in Ready, NextEntry(l)
      PROVE  Typed' /\ Shapes' /\ Promise!Next
  <2>1. Typed' /\ Shapes' /\ Promise!NextEntry(l)
    BY <1>1, <1>7, NextEntryKeeps
  <2> QED
    BY <2>1 DEF Promise!Next
<1>8. ASSUME NEW l \in Fifo \cup Sorted, TakeHead(l)
      PROVE  Typed' /\ Shapes' /\ Promise!Next
  <2>1. Typed' /\ Shapes' /\ Promise!TakeHead(l)
    BY <1>1, <1>8, TakeHeadKeeps
  <2> QED
    BY <2>1 DEF Promise!Next
<1>9. ASSUME vTaskList
      PROVE  Typed' /\ Shapes' /\ Promise!Next
  <2>1. Typed' /\ Shapes' /\ Promise!vTaskList
    BY <1>1, <1>9, TaskListKeeps
  <2> QED
    BY <2>1 DEF Promise!Next
<1>10. ASSUME Walk, got' = <<>>
       PROVE  Typed' /\ Shapes' /\ Promise!Next
  <2>1. got' \in Seq(Items)
    BY <1>10
  <2>2. Typed' /\ Shapes' /\ Promise!GoneThrough /\ xItemValue' = xItemValue
    BY <1>1, <1>10, <2>1, WalkKeeps
  <2>3. Promise!vTaskGetRunTimeStats
    BY <1>10, <2>2 DEF Promise!vTaskGetRunTimeStats
  <2> QED
    BY <2>2, <2>3 DEF Promise!Next
<1>11. ASSUME UNCHANGED vars
       PROVE  Typed' /\ Shapes' /\ UNCHANGED Promise!vars
  <2>1. UNCHANGED <<pxNext, pxPrevious, pxIndex, uxNumberOfItems, pvContainer, xItemValue, got>>
    BY <1>11 DEF vars
  <2>2. \A m \in Lists : Unmoved(m)
    BY <2>1 DEF Unmoved, Shape, Linked, Indexed
  <2>3. Shapes' /\ Sequences' = Sequences
    BY <1>1, <2>2, SequencesSame
  <2>4. Typed'
    BY <1>1, <2>1 DEF Typed
  <2> QED
    BY <2>1, <2>3, <2>4 DEF Promise!vars
<1> QED
  BY <1>3, <1>4, <1>5, <1>6, <1>7, <1>8, <1>9, <1>10, <1>11
     DEF Next, vTaskGetRunTimeStats

(* The rings, the containers, the counts and the indices stay as IInv says, *)
(* through every insertion, removal, walk and head.                         *)
THEOREM PointersInvariance == Spec => []IInv
<1>1. Init => IInv
  BY EmptyRings
<1>2. IInv /\ [Next]_vars => IInv'
  BY RingStep
<1> QED
  BY <1>1, <1>2, PTL DEF Spec

LEMMA RingsIntact ==
  ASSUME IInv
  PROVE  WellFormed
<1>1. ASSUME NEW l \in Lists
      PROVE  RingIntact(l, Chain(l), {l} \cup ToSet(Chain(l)))
  <2> DEFINE c == Chain(l)
  <2>1. PICK p : Linked(l, c) /\ Indexed(l, c, p)
    BY DEF IInv
  <2> HIDE DEF c
  <2>2. /\ c \in Seq(Items) /\ IsInjective(c) /\ Len(c) = uxNumberOfItems[l]
        /\ ToSet(c) = {i \in Items : pvContainer[i] = l}
        /\ Around(pxNext, pxPrevious, l, c) /\ pxIndex[l] = NodeAt(l, c, p)
    BY <2>1 DEF Linked, Indexed
  <2>3. /\ \A n : NodeAt(l, c, n) \in {l} \cup ToSet(c)
        /\ NodeAt(l, c, 0) = l /\ Len(c) \in Nat
        /\ \A n \in 1 .. Len(c) : NodeAt(l, c, n) = c[n]
    BY <2>2, NodesOf
  <2>4. uxNumberOfItems[l] \in 0 .. Cardinality(Items)
    BY <2>2, <2>3, LengthBound
  <2>5. ASSUME NEW n \in {l} \cup ToSet(c)
        PROVE  pxNext[n] \in {l} \cup ToSet(c) /\ pxPrevious[pxNext[n]] = n
    <3>1. PICK k \in 0 .. Len(c) : n = NodeAt(l, c, k)
      <4>1. CASE n = l
        BY <2>3, <4>1
      <4>2. CASE n \in ToSet(c)
        <5>1. PICK k \in 1 .. Len(c) : n = c[k]
          BY <2>2, <4>2, EntriesOf
        <5> QED
          BY <2>3, <5>1
      <4> QED
        BY <4>1, <4>2
    <3>2. pxNext[n] = NodeAt(l, c, k + 1) /\ pxPrevious[NodeAt(l, c, k + 1)] = n
      BY <2>2, <3>1 DEF Around
    <3> QED
      BY <2>3, <3>2
  <2>6. pxIndex[l] \in {l} \cup ToSet(c)
    BY <2>2, <2>3
  <2> QED
    BY <2>2, <2>4, <2>5, <2>6 DEF RingIntact, c
<1>2. ToSet(got) \subseteq Items
  BY EntriesOf DEF IInv, Typed
<1> QED
  BY <1>1, <1>2 DEF WellFormed

(* However the lists are used, following pxNext from an end marker meets    *)
(* the items whose pvContainer is the list, each once and as many as        *)
(* uxNumberOfItems says, pxPrevious leads back, and pxIndex never points at *)
(* an item that has left: for any number of items and lists.                *)
THEOREM PointersIntact == Spec => []WellFormed
<1>1. IInv => WellFormed
  BY RingsIntact
<1> QED
  BY <1>1, PointersInvariance, PTL

(* The pointers implement the sequences: list.c keeps what its callers      *)
(* count on, for any number of items and lists.                             *)
THEOREM PointersKeepPromise == Spec => PromiseKept
<1>1. Init => Promise!Init
  BY EmptyRings
<1>2. IInv /\ [Next]_vars => [Promise!Next]_(Promise!vars)
  BY RingStep
<1> QED
  BY <1>1, <1>2, PointersInvariance, PTL DEF Spec, PromiseKept, Promise!Spec

(* So no item is ever on two lists, and the head of a sorted list has the   *)
(* least value, while the lists are nothing but pointers.                   *)
THEOREM PointersInOrder == Spec => [](Promise!OneList /\ Promise!InOrder)
<1>1. PromiseKept <=> Promise!Spec
  BY DEF PromiseKept
<1> QED
  BY <1>1, PointersKeepPromise, NeverTwice, AlwaysInOrder, PTL

-----------------------------------------------------------------------------
(* The start of the two cores.                                              *)

(* Where a core is as it creates a task, after the assertion.               *)
Making == {"allocate", "initialise", "count", "counted", "current", "link", "yield"}
Creating == Making \cup {"create"}
Launching == {"port", "gic", "first", "run"}
Places == {"reset", "off", "zero", "init", "await", "setup", "clock"} \cup Creating \cup Launching

(* Core 0 has yet to create the idle task until core 1 has given the word.  *)
IdleGiven == bss.started[1] /\ pc[0] # "await"
Unmade == ToSet(todo[0]) \cup ToSet(todo[1]) \cup (IF IdleGiven THEN {} ELSE {idle0})

(* The tasks whose creation is past a place: those before the ones that are *)
(* being created, and of these the ones at the places in S.                 *)
Past(S) == (Tasks \ Unmade) \cup {Head(todo[c]) : c \in {d \in Cores : pc[d] \in S}}
Laid == Past({"count", "counted", "current", "link", "yield"})
Counted == Past({"current", "link", "yield"})
Chosen == Past({"link", "yield"})
Listed == Past({"yield"})
Own(T, c) == {t \in T : CreatedBy[t] = c}

(* What each variable holds.                                                *)
Variables ==
  [started : [Cores -> BOOLEAN], current : [Cores -> Tasks \cup {NoTask}],
   count : Nat, lists : BOOLEAN, ready : [Levels -> Seq(Tasks)],
   top : [Cores -> Levels], running : BOOLEAN, suspended : Nat, ticks : Nat,
   missed : Nat,
   handler : [Cores -> [Vectors -> {"null", "unknown", "yield", "tick"}]]]

BootTyped ==
  /\ pc \in [Cores -> Places]
  /\ todo \in [Cores -> Seq(Tasks)]
  /\ seen \in [Cores -> Nat]
  /\ bss \in Variables
  /\ tcb = [t \in Tasks |-> tcb[t]]
  /\ executing \in [Cores -> Tasks \cup {NoTask}]
  /\ pmr \in [Cores -> Nat]
  /\ gic \in [Cores -> [Vectors -> Nat]]

(* Each core has its own tasks to create, each of them once.                *)
Assigned ==
  /\ \A c \in Cores : /\ IsInjective(todo[c])
                      /\ \A t \in ToSet(todo[c]) : CreatedBy[t] = c
                      /\ pc[c] \in Making => todo[c] # <<>>
  /\ ~IdleGiven => idle0 \notin ToSet(todo[0])

(* The two flags of main.c let one core at a time create tasks.  Core 1 may *)
(* zero .bss late.                                                          *)
HandShake ==
  \/ /\ ~bss.started[0] /\ ~bss.started[1]
     /\ pc[0] \in {"reset", "zero", "init", "setup"} \cup Creating
     /\ pc[1] \in {"off", "zero", "init", "await"}
     /\ pc[1] = "off" => pc[0] = "reset"
     /\ pc[0] \in {"reset", "zero", "init"} => bss = Zeroes
     /\ todo[1] = SecondTasks /\ (pc[0] \notin Creating => todo[0] = MainTasks)
  \/ /\ bss.started[0] /\ ~bss.started[1]
     /\ pc[0] = "await" /\ pc[1] \in {"zero", "init", "await", "setup"} \cup Creating
     /\ todo[0] = <<>> /\ (pc[1] \notin Creating => todo[1] = SecondTasks)
  \/ /\ bss.started[0] /\ bss.started[1]
     /\ pc[0] \in {"await", "clock"} \cup Creating \cup Launching
     /\ pc[1] \in Launching
     /\ todo[1] = <<>> /\ (pc[0] \notin Creating => todo[0] = <<>>)

(* Of a task whose creation is past each place, what the code has done.     *)
LaidOut == \A t \in Laid : /\ tcb[t].priority = Priority[t]
                           /\ tcb[t].frame.entry = t
CountRight ==
  /\ bss.count = Cardinality(Counted)
  /\ \A c \in Cores : pc[c] = "counted" => seen[c] = bss.count
MostImportant ==
  \A c \in Cores :
    /\ Own(Chosen, c) = {} => bss.current[c] = NoTask
    /\ Own(Chosen, c) # {} =>
         /\ bss.current[c] \in Own(Chosen, c)
         /\ \A t \in Own(Chosen, c) : Priority[t] <= Priority[bss.current[c]]
OnReadyLists ==
  /\ Chosen # {} => bss.lists
  /\ \A p \in Levels : /\ IsInjective(bss.ready[p])
                       /\ ToSet(bss.ready[p]) = {t \in Listed : Priority[t] = p}
ScansFrom ==
  \A c \in Cores :
    /\ \A t \in Own(Listed, c) : Priority[t] <= bss.top[c]
    /\ bss.top[c] = 0 \/ \E t \in Own(Listed, c) : Priority[t] = bss.top[c]
AllocatesAlone ==
  bss.suspended = IF \E c \in Cores : pc[c] = "allocate" THEN 1 ELSE 0
Made == LaidOut /\ CountRight /\ MostImportant /\ OnReadyLists /\ ScansFrom
        /\ AllocatesAlone

(* What a core has set up for interrupts, and the task it executes.         *)
SetUp(c) == pc[c] \in Creating \cup {"clock"} \cup Launching \/ (c = 0 /\ pc[c] = "await")
Handling ==
  \A c \in Cores :
    /\ SetUp(c) => \A v \in Vectors : bss.handler[c][v] # "null"
    /\ pc[c] \in {"gic", "first", "run"} =>
         /\ bss.handler[c][Yield] = "yield" /\ gic[c][Yield] = Kernel
         /\ c = 1 => bss.handler[1][SysTick] = "tick" /\ gic[1][SysTick] = Kernel
    /\ pc[c] \in {"first", "run"} => pmr[c] = Lowest
    /\ pc[c] = "run" => executing[c] = bss.current[c]
Started == bss.running <=> pc[0] \in {"clock"} \cup Launching

BootInv == BootTyped /\ Assigned /\ HandShake /\ Made /\ Handling /\ Started

-----------------------------------------------------------------------------
(* What the assumptions say of the tasks.                                   *)
LEMMA TasksCreated ==
  /\ MainTasks \in Seq(Tasks) /\ IsInjective(MainTasks)
  /\ SecondTasks \in Seq(Tasks) /\ IsInjective(SecondTasks)
  /\ MainTasks # <<>> /\ SecondTasks # <<>>
  /\ ToSet(MainTasks) \cap ToSet(SecondTasks) = {}
  /\ idle0 \in Tasks /\ idle0 \notin ToSet(MainTasks) /\ idle0 \notin ToSet(SecondTasks)
<1> DEFINE m == MainTasks
           s == SecondTasks
           b == s \o <<idle0>>
           all == m \o b
<1>1. /\ m \in Seq(Tasks) /\ s \in Seq(Tasks) /\ m # <<>> /\ s # <<>>
      /\ idle0 \in Tasks /\ IsInjective((m \o s) \o <<idle0>>)
  BY BootAssumption DEF Tasks
<1>2. /\ Len(m) \in Nat /\ Len(s) \in Nat
      /\ \A i \in 1 .. Len(m) : m[i] \in Tasks
      /\ \A i \in 1 .. Len(s) : s[i] \in Tasks
  BY <1>1
<1>3. /\ ToSet(m) = {m[i] : i \in 1 .. Len(m)} /\ DOMAIN m = 1 .. Len(m)
      /\ ToSet(s) = {s[i] : i \in 1 .. Len(s)} /\ DOMAIN s = 1 .. Len(s)
  BY <1>1, EntriesOf
<1> DEFINE q == (m \o s) \o <<idle0>>
<1>4. /\ \A i \in 1 .. Len(m) : q[i] = m[i]
      /\ \A i \in 1 .. Len(s) : q[Len(m) + i] = s[i]
      /\ q[Len(m) + Len(s) + 1] = idle0
      /\ DOMAIN q = 1 .. Len(m) + Len(s) + 1
  <2>1. /\ m \o s \in Seq(Tasks) /\ Len(m \o s) = Len(m) + Len(s)
        /\ \A i \in 1 .. Len(m) + Len(s) :
             (m \o s)[i] = IF i <= Len(m) THEN m[i] ELSE s[i - Len(m)]
    BY <1>1, ConcatProperties
  <2> DEFINE r == m \o s
  <2> HIDE DEF r, m, s
  <2>2. <<idle0>> \in Seq(Tasks) /\ Len(<<idle0>>) = 1 /\ <<idle0>>[1] = idle0
    BY <1>1
  <2>3. /\ Len(r \o <<idle0>>) = Len(r) + 1
        /\ \A i \in 1 .. Len(r) + 1 :
             (r \o <<idle0>>)[i] = IF i <= Len(r) THEN r[i] ELSE <<idle0>>[i - Len(r)]
    BY <2>1, <2>2, ConcatProperties DEF r
  <2>4. r \o <<idle0>> \in Seq(Tasks)
    BY <2>1, <2>2 DEF r
  <2>5. DOMAIN (r \o <<idle0>>) = 1 .. Len(r) + 1
    BY <2>3, <2>4
  <2>6. (r \o <<idle0>>)[Len(r) + 1] = idle0
    BY <1>2, <2>1, <2>2, <2>3 DEF r
  <2>7. ASSUME NEW i \in 1 .. Len(s) PROVE (r \o <<idle0>>)[Len(m) + i] = s[i]
    <3>1. Len(m) + i \in 1 .. Len(r) /\ Len(m) + i - Len(m) = i /\ ~(Len(m) + i <= Len(m))
      BY <1>2, <2>1 DEF r
    <3> QED
      BY <2>1, <2>3, <3>1, <1>2 DEF r
  <2>8. ASSUME NEW i \in 1 .. Len(m) PROVE (r \o <<idle0>>)[i] = m[i]
    <3>1. i \in 1 .. Len(r) /\ i <= Len(m)
      BY <1>2, <2>1 DEF r
    <3> QED
      BY <2>1, <2>3, <3>1, <1>2 DEF r
  <2> QED
    BY <2>1, <2>5, <2>6, <2>7, <2>8 DEF r
<1>5. \A i, j \in 1 .. Len(m) + Len(s) + 1 : q[i] = q[j] => i = j
  BY <1>1, <1>4 DEF IsInjective
<1> HIDE DEF q
<1>6. IsInjective(m)
  <2>1. \A i, j \in 1 .. Len(m) : m[i] = m[j] => i = j
    BY <1>2, <1>4, <1>5
  <2> QED
    BY <1>3, <2>1 DEF IsInjective
<1>7. IsInjective(s)
  <2>1. ASSUME NEW i \in 1 .. Len(s), NEW j \in 1 .. Len(s), s[i] = s[j] PROVE i = j
    <3>1. Len(m) + i \in 1 .. Len(m) + Len(s) + 1 /\ Len(m) + j \in 1 .. Len(m) + Len(s) + 1
      BY <1>2
    <3>2. Len(m) + i = Len(m) + j
      BY <1>4, <1>5, <2>1, <3>1
    <3> QED
      BY <1>2, <3>2
  <2> QED
    BY <1>3, <2>1 DEF IsInjective
<1>8. ASSUME NEW i \in 1 .. Len(m), NEW j \in 1 .. Len(s) PROVE m[i] # s[j]
  <2>1. i # Len(m) + j /\ i \in 1 .. Len(m) + Len(s) + 1 /\ Len(m) + j \in 1 .. Len(m) + Len(s) + 1
    BY <1>2
  <2> QED
    BY <1>4, <1>5, <2>1
<1>9. ASSUME NEW i \in 1 .. Len(m) PROVE m[i] # idle0
  <2>1. /\ i # Len(m) + Len(s) + 1 /\ i \in 1 .. Len(m) + Len(s) + 1
        /\ Len(m) + Len(s) + 1 \in 1 .. Len(m) + Len(s) + 1
    BY <1>2
  <2> QED
    BY <1>4, <1>5, <2>1
<1>10. ASSUME NEW i \in 1 .. Len(s) PROVE s[i] # idle0
  <2>1. /\ Len(m) + i # Len(m) + Len(s) + 1 /\ Len(m) + i \in 1 .. Len(m) + Len(s) + 1
        /\ Len(m) + Len(s) + 1 \in 1 .. Len(m) + Len(s) + 1
    BY <1>2
  <2> QED
    BY <1>4, <1>5, <2>1
<1> QED
  BY <1>1, <1>3, <1>6, <1>7, <1>8, <1>9, <1>10

LEMMA CreatorOf ==
  /\ CreatedBy \in [Tasks -> Cores]
  /\ \A t \in ToSet(SecondTasks) : CreatedBy[t] = 1
  /\ \A t \in ToSet(MainTasks) : CreatedBy[t] = 0
  /\ CreatedBy[idle0] = 0
  /\ NoTask \notin Tasks
  /\ Tasks = ToSet(MainTasks) \cup ToSet(SecondTasks) \cup {idle0}
<1>1. CreatedBy \in [Tasks -> Cores]
  BY DEF CreatedBy, Cores
<1> QED
  BY <1>1, TasksCreated, BootAssumption DEF CreatedBy, Tasks

(* A sequence without repetition is as long as the number of its entries.   *)
LEMMA EntriesCounted ==
  ASSUME NEW S, NEW s \in Seq(S), IsInjective(s)
  PROVE  IsFiniteSet(ToSet(s)) /\ Cardinality(ToSet(s)) = Len(s)
<1>1. Len(s) \in 0 .. Len(s)
  OBVIOUS
<1>2. SubSeq(s, 1, Len(s)) = s
  OBVIOUS
<1> QED
  BY <1>1, <1>2, SplitOnce

LEMMA TasksFinite == IsFiniteSet(Tasks)
<1>1. IsFiniteSet(ToSet(MainTasks)) /\ IsFiniteSet(ToSet(SecondTasks))
  BY TasksCreated, EntriesCounted
<1>2. IsFiniteSet({idle0})
  BY FS_Singleton
<1> QED
  BY <1>1, <1>2, FS_Union DEF Tasks

-----------------------------------------------------------------------------
(* How far the creation of the tasks is.                                    *)

LEMMA PastStays ==
  ASSUME NEW S, \A d \in Cores : pc'[d] \in S <=> pc[d] \in S,
         \A d \in Cores : pc[d] \in S => todo'[d] = todo[d], Unmade' = Unmade
  PROVE  Past(S)' = Past(S)
<1>1. {d \in Cores : pc'[d] \in S} = {d \in Cores : pc[d] \in S}
  OBVIOUS
<1> DEFINE D == {d \in Cores : pc[d] \in S}
<1>2. \A d \in D : Head(todo'[d]) = Head(todo[d])
  OBVIOUS
<1>3. {Head(todo'[d]) : d \in D} = {Head(todo[d]) : d \in D}
  BY <1>2, Zenon
<1> QED
  BY <1>1, <1>3 DEF Past

LEMMA PastMoves ==
  ASSUME NEW c \in Cores, NEW b, \A d \in Cores \ {c} : pc'[d] = pc[d], pc'[c] = b,
         todo' = todo, Unmade' = Unmade, NEW S, pc[c] \in S => b \in S
  PROVE  Past(S)' = Past(S) \cup (IF b \in S THEN {Head(todo[c])} ELSE {})
<1>1. {d \in Cores : pc'[d] \in S}
        = {d \in Cores : pc[d] \in S} \cup (IF b \in S THEN {c} ELSE {})
  OBVIOUS
<1> QED
  BY <1>1 DEF Past

(* The task that a core is creating is not past the places ahead.           *)
LEMMA HeadIs ==
  ASSUME BootTyped, Assigned, NEW c \in Cores, pc[c] \in Making
  PROVE  /\ Head(todo[c]) \in Tasks /\ Head(todo[c]) \in ToSet(todo[c])
         /\ CreatedBy[Head(todo[c])] = c
         /\ Tail(todo[c]) \in Seq(Tasks) /\ IsInjective(Tail(todo[c]))
         /\ ToSet(Tail(todo[c])) = ToSet(todo[c]) \ {Head(todo[c])}
<1>1. todo[c] \in Seq(Tasks) /\ IsInjective(todo[c]) /\ todo[c] # <<>>
  BY DEF BootTyped, Assigned
<1>2. ToSet(todo[c]) \subseteq Tasks
  BY <1>1, EntriesOf
<1> QED
  BY <1>1, <1>2, TailOnce DEF Assigned

LEMMA OneCreates ==
  ASSUME HandShake, NEW c \in Cores, pc[c] \in Creating
  PROVE  /\ \A d \in Cores \ {c} : pc[d] \notin Creating
         /\ pc[0] \notin {"clock"} \cup Launching
         /\ c = 0 => (bss.started[0] <=> bss.started[1])
         /\ c = 1 => bss.started[0] /\ ~bss.started[1] /\ pc[0] = "await"
  BY DEF HandShake, Cores, Creating, Making, Launching

LEMMA HeadNew ==
  ASSUME BootTyped, Assigned, HandShake, NEW c \in Cores, pc[c] \in Making,
         NEW S \in SUBSET Making, pc[c] \notin S
  PROVE  Head(todo[c]) \notin Past(S) /\ Past(S) = Tasks \ Unmade
<1>1. Head(todo[c]) \in Unmade
  BY HeadIs DEF Unmade, Cores
<1>2. \A d \in Cores : pc[d] \notin S
  BY OneCreates DEF Creating
<1> QED
  BY <1>1, <1>2 DEF Past

LEMMA PastTyped ==
  ASSUME BootTyped, Assigned, NEW S \in SUBSET Making
  PROVE  Past(S) \subseteq Tasks /\ IsFiniteSet(Past(S))
<1>1. Past(S) \subseteq Tasks
  BY HeadIs DEF Past
<1> QED
  BY <1>1, TasksFinite, FS_Subset

-----------------------------------------------------------------------------
(* The steps that create no task.                                           *)

(* What such a step leaves alone.                                           *)
Aside ==
  /\ \A d \in Cores : pc'[d] = pc[d] \/ (pc[d] \notin Making /\ pc'[d] \notin Making)
  /\ \A d \in Cores : todo'[d] = todo[d] \/ pc[d] \notin Making
  /\ Unmade' = Unmade /\ UNCHANGED <<tcb, seen>>
  /\ bss'.current = bss.current /\ bss'.count = bss.count /\ bss'.lists = bss.lists
  /\ bss'.ready = bss.ready /\ bss'.top = bss.top /\ bss'.suspended = bss.suspended

LEMMA AsideKeeps ==
  ASSUME Made, Aside
  PROVE  Made'
<1>1. \A S \in SUBSET Making : \A d \in Cores : pc'[d] \in S <=> pc[d] \in S
  BY DEF Aside
<1>2. \A S \in SUBSET Making : Past(S)' = Past(S)
  <2> TAKE S \in SUBSET Making
  <2>1. \A d \in Cores : pc[d] \in S => todo'[d] = todo[d]
    BY DEF Aside
  <2> QED
    BY <1>1, <2>1, PastStays DEF Aside
<1>3. Laid' = Laid /\ Counted' = Counted /\ Chosen' = Chosen /\ Listed' = Listed
  BY <1>2 DEF Laid, Counted, Chosen, Listed, Making
<1>4. \A d \in Cores : /\ pc'[d] = "counted" <=> pc[d] = "counted"
                       /\ pc'[d] = "allocate" <=> pc[d] = "allocate"
  BY DEF Aside, Making
<1>5. LaidOut' /\ CountRight'
  BY <1>3, <1>4 DEF Made, LaidOut, CountRight, Aside
<1>6. MostImportant'
  BY <1>3 DEF Made, MostImportant, Own, Aside
<1>7. OnReadyLists'
  BY <1>3 DEF Made, OnReadyLists, Aside
<1>8. ScansFrom'
  BY <1>3 DEF Made, ScansFrom, Own, Aside
<1>9. AllocatesAlone'
  BY <1>4 DEF Made, AllocatesAlone, Aside
<1> QED
  BY <1>5, <1>6, <1>7, <1>8, <1>9 DEF Made

LEMMA ConstantsTyped ==
  /\ Yield \in Vectors /\ SysTick \in Vectors /\ Yield = 1 /\ SysTick = 29
  /\ Kernel \in Nat /\ MaxSyscall \in Nat /\ Lowest \in Nat /\ Kernel < Lowest
  /\ 0 \in Levels /\ Levels \subseteq Nat /\ Cores = {0, 1}
BY BootAssumption DEF Yield, SysTick, Kernel, MaxSyscall, Lowest, Levels, Cores

LEMMA ZeroesTyped ==
  /\ Zeroes \in Variables /\ ~Zeroes.started[0] /\ ~Zeroes.started[1] /\ ~Zeroes.running
BY ConstantsTyped DEF Zeroes, Variables

LEMMA ResetKeeps ==
  ASSUME BootInv, Reset_Handler
  PROVE  BootInv'
<1>1. /\ pc[0] = "reset" /\ pc' = [c \in Cores |-> "zero"]
      /\ UNCHANGED <<todo, seen, bss, tcb, executing, pmr, gic>>
  BY DEF Reset_Handler, mem, cpu
<1>2. pc[1] \in {"off", "zero", "init", "await"} /\ bss = Zeroes
      /\ ~bss.started[0] /\ ~bss.started[1] /\ todo[0] = MainTasks /\ todo[1] = SecondTasks
  BY <1>1 DEF BootInv, HandShake, Creating, Making, Launching
<1>3. BootTyped'
  BY <1>1 DEF BootInv, BootTyped, Places
<1>4. Unmade' = Unmade /\ (IdleGiven' <=> IdleGiven)
  BY <1>1, <1>2 DEF Unmade, IdleGiven
<1>5. Assigned'
  BY <1>1, <1>4 DEF BootInv, Assigned, Making
<1>6. HandShake' /\ Started'
  BY <1>1, <1>2, ZeroesTyped DEF HandShake, Started, Cores, Launching, Creating, Making
<1>7. Handling'
  BY <1>1 DEF Handling, SetUp, Creating, Making, Launching
<1>8. Aside
  <2>1. pc[0] \notin Making /\ pc[1] \notin Making
    BY <1>1, <1>2 DEF Making
  <2>2. \A d \in Cores : pc[d] \notin Making /\ pc'[d] \notin Making
    BY <1>1, <2>1 DEF Making, Cores
  <2> QED
    BY <1>1, <1>4, <2>2 DEF Aside
<1> QED
  BY <1>3, <1>5, <1>6, <1>7, <1>8, AsideKeeps DEF BootInv

(* A step of one core from one place to another, neither of which is part   *)
(* of a creation.                                                           *)
LEMMA StepIs ==
  ASSUME BootTyped, NEW c \in Cores, NEW a, NEW b, Step(c, a, b)
  PROVE  pc[c] = a /\ pc'[c] = b /\ \A d \in Cores \ {c} : pc'[d] = pc[d]
BY DEF Step, BootTyped

LEMMA StepTyped ==
  ASSUME BootTyped, NEW c \in Cores, NEW a, NEW b \in Places, Step(c, a, b)
  PROVE  pc' \in [Cores -> Places]
BY DEF Step, BootTyped

LEMMA StepAside ==
  ASSUME BootTyped, NEW c \in Cores, NEW a, NEW b, Step(c, a, b),
         a \notin Making, b \notin Making,
         UNCHANGED <<todo, tcb, seen>>, IdleGiven' <=> IdleGiven,
         bss'.current = bss.current, bss'.count = bss.count, bss'.lists = bss.lists,
         bss'.ready = bss.ready, bss'.top = bss.top, bss'.suspended = bss.suspended
  PROVE  Aside
<1>1. Unmade' = Unmade
  BY DEF Unmade
<1> QED
  BY <1>1, StepIs DEF Aside

LEMMA StepAssigned ==
  ASSUME BootTyped, Assigned, NEW c \in Cores, NEW a, NEW b, Step(c, a, b),
         b \in Making => todo[c] # <<>>,
         UNCHANGED todo, IdleGiven' <=> IdleGiven
  PROVE  Assigned'
BY StepIs DEF Assigned

(* A core that zeroes .bss finds it zero, or wipes out what is there.       *)
LEMMA ZeroBssKeeps ==
  ASSUME BootInv, NEW c \in Cores, ZeroBss(c), ~wiped'
  PROVE  BootInv'
<1>0. BootTyped /\ Assigned /\ HandShake
  BY DEF BootInv
<1>1. /\ Step(c, "zero", "init") /\ bss' = bss /\ bss = Zeroes
      /\ UNCHANGED <<todo, seen, tcb, executing, pmr, gic>>
  BY DEF ZeroBss, cpu
<1>2. /\ pc[c] = "zero" /\ pc'[c] = "init" /\ \A d \in Cores \ {c} : pc'[d] = pc[d]
      /\ pc' \in [Cores -> Places]
  BY <1>0, <1>1, StepIs, StepTyped DEF Places
<1>3. /\ pc[0] \in {"reset", "zero", "init", "setup"} \cup Creating
      /\ pc[1] \in {"off", "zero", "init", "await"}
      /\ ~bss.started[0] /\ ~bss.started[1]
  BY <1>0, <1>1, <1>2, ZeroesTyped DEF HandShake, Cores, Creating, Making, Launching
<1>5. BootTyped'
  BY <1>0, <1>1, <1>2 DEF BootTyped
<1>6. IdleGiven' <=> IdleGiven
  BY <1>1, <1>3 DEF IdleGiven
<1>7. Aside /\ Assigned'
  BY <1>0, <1>1, <1>6, StepAside, StepAssigned DEF Making
<1>8. HandShake'
  <2>1. CASE c = 0
    BY <1>0, <1>1, <1>2, <1>3, <2>1 DEF HandShake, Cores, Launching, Creating, Making
  <2>2. CASE c = 1
    BY <1>0, <1>1, <1>2, <1>3, <2>2 DEF HandShake, Cores, Launching, Creating, Making
  <2> QED
    BY <2>1, <2>2 DEF Cores
<1>9. Handling' /\ Started'
  BY <1>1, <1>2 DEF BootInv, Handling, Started, SetUp, Creating, Making, Launching, Cores
<1> QED
  BY <1>5, <1>7, <1>8, <1>9, AsideKeeps DEF BootInv

LEMMA EnterMainKeeps ==
  ASSUME BootInv, NEW c \in Cores, EnterMain(c)
  PROVE  BootInv'
<1> DEFINE b == IF c = 0 THEN "setup" ELSE "await"
<1>0. BootTyped /\ Assigned /\ HandShake /\ Handling /\ Started
  BY DEF BootInv
<1>1. /\ Step(c, "init", b)
      /\ UNCHANGED <<todo, seen, bss, tcb, executing, pmr, gic>>
  BY DEF EnterMain, cpu, mem
<1>2. /\ pc[c] = "init" /\ pc'[c] = b /\ \A d \in Cores \ {c} : pc'[d] = pc[d]
      /\ pc' \in [Cores -> Places]
  BY <1>0, <1>1, StepIs, StepTyped DEF Places
<1>5. BootTyped'
  BY <1>0, <1>1, <1>2 DEF BootTyped
<1>6. IdleGiven' <=> IdleGiven
  BY <1>0, <1>1, <1>2 DEF IdleGiven, HandShake, Cores, Launching, Creating, Making
<1>7. Aside /\ Assigned'
  BY <1>0, <1>1, <1>6, StepAside, StepAssigned DEF Making
<1>8. HandShake'
  <2>1. CASE c = 0
    BY <1>0, <1>1, <1>2, <2>1 DEF HandShake, Cores, Launching, Creating, Making
  <2>2. CASE c = 1
    BY <1>0, <1>1, <1>2, <2>2 DEF HandShake, Cores, Launching, Creating, Making
  <2> QED
    BY <2>1, <2>2 DEF Cores
<1>9. Handling' /\ Started'
  BY <1>0, <1>1, <1>2 DEF Handling, Started, SetUp, Creating, Making, Launching, Cores
<1> QED
  BY <1>5, <1>7, <1>8, <1>9, AsideKeeps DEF BootInv

LEMMA AwaitCore0Keeps ==
  ASSUME BootInv, AwaitCore0
  PROVE  BootInv'
<1>0. BootTyped /\ Assigned /\ HandShake /\ Handling /\ Started
  BY DEF BootInv
<1>1. /\ Step(1, "await", "setup") /\ bss.started[0] /\ 1 \in Cores
      /\ UNCHANGED <<todo, seen, bss, tcb, executing, pmr, gic>>
  BY DEF AwaitCore0, cpu, mem, Cores
<1>2. /\ pc[1] = "await" /\ pc'[1] = "setup" /\ pc'[0] = pc[0]
      /\ pc' \in [Cores -> Places]
  BY <1>0, <1>1, StepIs, StepTyped DEF Places, Cores
<1>5. BootTyped'
  BY <1>0, <1>1, <1>2 DEF BootTyped
<1>6. IdleGiven' <=> IdleGiven
  BY <1>0, <1>1, <1>2 DEF IdleGiven
<1>7. Aside /\ Assigned'
  BY <1>0, <1>1, <1>6, StepAside, StepAssigned DEF Making
<1>8. HandShake'
  BY <1>0, <1>1, <1>2 DEF HandShake, Cores, Launching, Creating, Making
<1>9. Handling' /\ Started'
  BY <1>0, <1>1, <1>2 DEF Handling, Started, SetUp, Creating, Making, Launching, Cores
<1> QED
  BY <1>5, <1>7, <1>8, <1>9, AsideKeeps DEF BootInv

LEMMA SetupKeeps ==
  ASSUME BootInv, NEW c \in Cores, prvSetupHardware(c)
  PROVE  BootInv'
<1> DEFINE h == [v \in Vectors |-> "unknown"]
           g == [v \in Vectors |-> IF v % 4 = 3 THEN MaxSyscall ELSE 0]
<1>0. BootTyped /\ Assigned /\ HandShake /\ Handling /\ Started
  BY DEF BootInv
<1>1. /\ Step(c, "setup", "create") /\ pmr' = [pmr EXCEPT ![c] = MaxSyscall]
      /\ bss' = [bss EXCEPT !.handler[c] = h] /\ gic' = [gic EXCEPT ![c] = g]
      /\ UNCHANGED <<todo, seen, tcb, executing>>
  BY DEF prvSetupHardware, xPortSetInterruptMask
<1>2. /\ pc[c] = "setup" /\ pc'[c] = "create" /\ \A d \in Cores \ {c} : pc'[d] = pc[d]
      /\ pc' \in [Cores -> Places]
  BY <1>0, <1>1, StepIs, StepTyped DEF Places, Creating
<1>3. h \in [Vectors -> {"null", "unknown", "yield", "tick"}] /\ g \in [Vectors -> Nat]
      /\ \A v \in Vectors : h[v] # "null"
  BY ConstantsTyped
<1> HIDE DEF h, g
<1>4. /\ bss' \in Variables /\ bss'.started = bss.started /\ bss'.running = bss.running
      /\ bss'.current = bss.current /\ bss'.count = bss.count /\ bss'.lists = bss.lists
      /\ bss'.ready = bss.ready /\ bss'.top = bss.top /\ bss'.suspended = bss.suspended
      /\ bss'.handler[c] = h /\ \A d \in Cores \ {c} : bss'.handler[d] = bss.handler[d]
  BY <1>0, <1>1, <1>3 DEF BootTyped, Variables
<1>5. BootTyped'
  <2>1. pmr' \in [Cores -> Nat] /\ gic' \in [Cores -> [Vectors -> Nat]]
    BY <1>0, <1>1, <1>3, ConstantsTyped DEF BootTyped
  <2> QED
    BY <1>0, <1>1, <1>2, <1>4, <2>1 DEF BootTyped
<1>6. IdleGiven' <=> IdleGiven
  BY <1>0, <1>2, <1>4 DEF IdleGiven, HandShake, Cores, Launching, Creating, Making
<1>7. Aside /\ Assigned'
  BY <1>0, <1>1, <1>4, <1>6, StepAside, StepAssigned DEF Making
<1>8. HandShake'
  <2>1. CASE c = 0
    BY <1>0, <1>1, <1>2, <1>4, <2>1 DEF HandShake, Cores, Launching, Creating, Making
  <2>2. CASE c = 1
    BY <1>0, <1>1, <1>2, <1>4, <2>2 DEF HandShake, Cores, Launching, Creating, Making
  <2> QED
    BY <2>1, <2>2 DEF Cores
<1>9. Started'
  BY <1>0, <1>2, <1>4 DEF Started, Creating, Making, Launching, Cores
<1>10. Handling'
  <2>1. \A d \in Cores \ {c} : gic'[d] = gic[d] /\ pmr'[d] = pmr[d]
    BY <1>0, <1>1 DEF BootTyped
  <2>2. 1 \in Cores
    BY DEF Cores
  <2> QED
    BY <1>0, <1>1, <1>2, <1>3, <1>4, <2>1, <2>2 DEF Handling, SetUp, Creating, Making, Launching
<1> QED
  BY <1>5, <1>7, <1>8, <1>9, <1>10, AsideKeeps DEF BootInv

LEMMA TellKeeps ==
  ASSUME BootInv, NEW c \in Cores, TellCore(c)
  PROVE  BootInv'
<1> DEFINE b == IF c = 0 THEN "await" ELSE "port"
<1>0. BootTyped /\ Assigned /\ HandShake /\ Handling /\ Started
  BY DEF BootInv
<1>1. /\ todo[c] = <<>> /\ ~bss.started[c]
      /\ Step(c, "create", b) /\ bss' = [bss EXCEPT !.started[c] = TRUE]
      /\ UNCHANGED <<todo, seen, tcb, executing, pmr, gic>>
  BY DEF TellCore, cpu
<1>2. /\ pc[c] = "create" /\ pc'[c] = b /\ \A d \in Cores \ {c} : pc'[d] = pc[d]
      /\ pc' \in [Cores -> Places] /\ b \notin Making
  BY <1>0, <1>1, StepIs, StepTyped DEF Places, Launching, Making
<1>4. /\ bss' \in Variables /\ bss'.running = bss.running
      /\ bss'.current = bss.current /\ bss'.count = bss.count /\ bss'.lists = bss.lists
      /\ bss'.ready = bss.ready /\ bss'.top = bss.top /\ bss'.suspended = bss.suspended
      /\ bss'.handler = bss.handler
      /\ bss'.started[c] /\ \A d \in Cores \ {c} : bss'.started[d] <=> bss.started[d]
  BY <1>0, <1>1 DEF BootTyped, Variables
<1>5. BootTyped'
  BY <1>0, <1>1, <1>2, <1>4 DEF BootTyped
<1>6. IdleGiven' <=> IdleGiven
  <2>1. CASE c = 0
    BY <1>0, <1>1, <1>2, <1>4, <2>1 DEF IdleGiven, HandShake, Cores, Launching, Creating, Making
  <2>2. CASE c = 1
    BY <1>0, <1>1, <1>2, <1>4, <2>2 DEF IdleGiven, HandShake, Cores, Launching, Creating, Making
  <2> QED
    BY <2>1, <2>2 DEF Cores
<1>7. Aside /\ Assigned'
  BY <1>0, <1>1, <1>2, <1>4, <1>6, StepAside, StepAssigned DEF Making
<1>8. HandShake'
  <2>1. CASE c = 0
    BY <1>0, <1>1, <1>2, <1>4, <2>1 DEF HandShake, Cores, Launching, Creating, Making
  <2>2. CASE c = 1
    BY <1>0, <1>1, <1>2, <1>4, <2>2 DEF HandShake, Cores, Launching, Creating, Making
  <2> QED
    BY <2>1, <2>2 DEF Cores
<1>9. Started'
  <2>1. CASE c = 0
    BY <1>0, <1>2, <1>4, <2>1 DEF Started, Creating, Making, Launching, Cores
  <2>2. CASE c = 1
    BY <1>0, <1>2, <1>4, <2>2 DEF Started, Creating, Making, Launching, Cores
  <2> QED
    BY <2>1, <2>2 DEF Cores
<1>10. Handling'
  BY <1>0, <1>1, <1>2, <1>4 DEF Handling, SetUp, Creating, Making, Launching, Cores
<1> QED
  BY <1>5, <1>7, <1>8, <1>9, <1>10, AsideKeeps DEF BootInv

LEMMA AwaitCore1Keeps ==
  ASSUME BootInv, AwaitCore1
  PROVE  BootInv'
<1>0. BootTyped /\ Assigned /\ HandShake /\ Handling /\ Started
  BY DEF BootInv
<1>1. /\ Step(0, "await", "create") /\ bss.started[1] /\ 0 \in Cores
      /\ todo' = [todo EXCEPT ![0] = <<idle0>>]
      /\ UNCHANGED <<seen, bss, tcb, executing, pmr, gic>>
  BY DEF AwaitCore1, cpu, mem, Cores
<1>2. /\ pc[0] = "await" /\ pc'[0] = "create" /\ pc'[1] = pc[1]
      /\ pc' \in [Cores -> Places]
  BY <1>0, <1>1, StepIs, StepTyped DEF Places, Creating, Cores
<1>3. /\ pc[1] \in Launching /\ todo[0] = <<>> /\ todo[1] = <<>> /\ bss.started[0]
      /\ todo'[0] = <<idle0>> /\ todo'[1] = todo[1] /\ todo' \in [Cores -> Seq(Tasks)]
  BY <1>0, <1>1, <1>2, TasksCreated DEF HandShake, BootTyped, Cores, Creating, Launching, Making
<1>4. /\ IsInjective(<<idle0>>) /\ ToSet(<<idle0>>) = {idle0}
      /\ ToSet(todo[0]) = {} /\ IsInjective(todo'[0])
  BY <1>3 DEF IsInjective, ToSet
<1>5. BootTyped'
  BY <1>0, <1>1, <1>2, <1>3 DEF BootTyped
<1>6. Unmade' = Unmade /\ IdleGiven'
  BY <1>1, <1>2, <1>3, <1>4 DEF Unmade, IdleGiven
<1>7. Aside
  BY <1>1, <1>2, <1>3, <1>6 DEF Aside, Making, Cores
<1>8. Assigned'
  BY <1>0, <1>2, <1>3, <1>4, <1>6, CreatorOf DEF Assigned, Making, Cores, Launching
<1>9. HandShake' /\ Started'
  BY <1>0, <1>1, <1>2, <1>3 DEF HandShake, Started, Creating, Making, Launching
<1>10. Handling'
  BY <1>0, <1>1, <1>2 DEF Handling, SetUp, Creating, Making, Launching, Cores
<1> QED
  BY <1>5, <1>7, <1>8, <1>9, <1>10, AsideKeeps DEF BootInv

LEMMA StartKeeps ==
  ASSUME BootInv, vTaskStartScheduler
  PROVE  BootInv'
<1>0. BootTyped /\ Assigned /\ HandShake /\ Handling /\ Started
  BY DEF BootInv
<1>1. /\ Step(0, "create", "clock") /\ bss.started[0] /\ 0 \in Cores /\ todo[0] = <<>>
      /\ pmr' = [pmr EXCEPT ![0] = MaxSyscall] /\ bss' = [bss EXCEPT !.running = TRUE]
      /\ UNCHANGED <<todo, seen, tcb, executing, gic>>
  BY DEF vTaskStartScheduler, xPortSetInterruptMask, Cores
<1>2. /\ pc[0] = "create" /\ pc'[0] = "clock" /\ pc'[1] = pc[1]
      /\ pc' \in [Cores -> Places]
  BY <1>0, <1>1, StepIs, StepTyped DEF Places, Cores
<1>4. /\ bss' \in Variables /\ bss'.running = TRUE /\ bss'.started = bss.started
      /\ bss'.current = bss.current /\ bss'.count = bss.count /\ bss'.lists = bss.lists
      /\ bss'.ready = bss.ready /\ bss'.top = bss.top /\ bss'.suspended = bss.suspended
      /\ bss'.handler = bss.handler
  BY <1>0, <1>1 DEF BootTyped, Variables
<1>5. BootTyped'
  <2>1. pmr' \in [Cores -> Nat] /\ pmr'[1] = pmr[1]
    BY <1>0, <1>1, ConstantsTyped DEF BootTyped
  <2> QED
    BY <1>0, <1>1, <1>2, <1>4, <2>1 DEF BootTyped
<1>6. IdleGiven' <=> IdleGiven
  BY <1>2, <1>4 DEF IdleGiven
<1>7. Aside /\ Assigned'
  BY <1>0, <1>1, <1>4, <1>6, StepAside, StepAssigned DEF Making
<1>8. HandShake' /\ Started'
  BY <1>0, <1>1, <1>2, <1>4 DEF HandShake, Started, Launching, Creating, Making
<1>9. Handling'
  <2>1. pmr'[1] = pmr[1]
    BY <1>0, <1>1, ConstantsTyped DEF BootTyped
  <2> QED
    BY <1>0, <1>1, <1>2, <1>4, <2>1 DEF Handling, SetUp, Creating, Making, Launching, Cores
<1> QED
  BY <1>5, <1>7, <1>8, <1>9, AsideKeeps DEF BootInv

LEMMA ResetClockKeeps ==
  ASSUME BootInv, ResetClock
  PROVE  BootInv'
<1>0. BootTyped /\ Assigned /\ HandShake /\ Handling /\ Started
  BY DEF BootInv
<1>1. /\ Step(0, "clock", "port") /\ 0 \in Cores /\ bss' = [bss EXCEPT !.ticks = 0]
      /\ UNCHANGED <<todo, seen, tcb, executing, pmr, gic>>
  BY DEF ResetClock, Cores, cpu
<1>2. /\ pc[0] = "clock" /\ pc'[0] = "port" /\ pc'[1] = pc[1]
      /\ pc' \in [Cores -> Places]
  BY <1>0, <1>1, StepIs, StepTyped DEF Places, Launching, Cores
<1>4. /\ bss' \in Variables /\ bss'.running = bss.running /\ bss'.started = bss.started
      /\ bss'.current = bss.current /\ bss'.count = bss.count /\ bss'.lists = bss.lists
      /\ bss'.ready = bss.ready /\ bss'.top = bss.top /\ bss'.suspended = bss.suspended
      /\ bss'.handler = bss.handler
  BY <1>0, <1>1 DEF BootTyped, Variables
<1>5. BootTyped'
  BY <1>0, <1>1, <1>2, <1>4 DEF BootTyped
<1>6. IdleGiven' <=> IdleGiven
  BY <1>2, <1>4 DEF IdleGiven
<1>7. Aside /\ Assigned'
  BY <1>0, <1>1, <1>4, <1>6, StepAside, StepAssigned DEF Making
<1>8. HandShake' /\ Started'
  BY <1>0, <1>1, <1>2, <1>4 DEF HandShake, Started, Launching, Creating, Making
<1>9. Handling'
  BY <1>0, <1>1, <1>2, <1>4 DEF Handling, SetUp, Creating, Making, Launching, Cores
<1> QED
  BY <1>5, <1>7, <1>8, <1>9, AsideKeeps DEF BootInv

(* A core that goes from one place of its launch to the next.               *)
LEMMA LaunchKeeps ==
  ASSUME BootTyped, Assigned, HandShake, Started, NEW c \in Cores,
         NEW a \in Launching, NEW b \in Launching, Step(c, a, b),
         UNCHANGED <<todo, tcb, seen>>,
         bss' \in Variables, bss'.started = bss.started, bss'.running = bss.running,
         bss'.current = bss.current, bss'.count = bss.count, bss'.lists = bss.lists,
         bss'.ready = bss.ready, bss'.top = bss.top, bss'.suspended = bss.suspended
  PROVE  Aside /\ Assigned' /\ HandShake' /\ Started'
<1>1. /\ pc[c] = a /\ pc'[c] = b /\ \A d \in Cores \ {c} : pc'[d] = pc[d]
      /\ a \notin Making /\ b \notin Making /\ a # "await" /\ b # "await"
  BY StepIs DEF Launching, Making
<1>2. IdleGiven' <=> IdleGiven
  BY <1>1 DEF IdleGiven, Cores
<1>3. Aside
  BY <1>1, <1>2, StepAside
<1>4. Assigned'
  BY <1>1, <1>2, StepAssigned
<1>5. HandShake' /\ Started'
  <2>1. CASE c = 0
    BY <1>1, <2>1 DEF HandShake, Started, Launching, Creating, Making, Cores
  <2>2. CASE c = 1
    BY <1>1, <2>2 DEF HandShake, Started, Launching, Creating, Making, Cores
  <2> QED
    BY <2>1, <2>2 DEF Cores
<1> QED
  BY <1>3, <1>4, <1>5

(* The same variables, but for the handlers.                                *)
Otherwise(b, r) ==
  /\ r.started = b.started /\ r.running = b.running /\ r.current = b.current
  /\ r.count = b.count /\ r.lists = b.lists /\ r.ready = b.ready /\ r.top = b.top
  /\ r.suspended = b.suspended

Records(b, c, v, h, r) ==
  /\ r \in Variables /\ Otherwise(b, r) /\ r.handler[c][v] = h
  /\ \A w \in Vectors \ {v} : r.handler[c][w] = b.handler[c][w]
  /\ \A d \in Cores \ {c} : r.handler[d] = b.handler[d]

LEMMA RecordedIs ==
  ASSUME NEW b \in Variables, NEW c \in Cores, NEW v \in Vectors,
         NEW h \in {"null", "unknown", "yield", "tick"},
         NEW r, r = Recorded(b, c, v, h)
  PROVE  Records(b, c, v, h, r)
<1> DEFINE f == [b.handler EXCEPT ![c] = [b.handler[c] EXCEPT ![v] = h]]
<1>1. r = [b EXCEPT !.handler = f]
  BY DEF Recorded, Variables
<1>2. b.handler \in [Cores -> [Vectors -> {"null", "unknown", "yield", "tick"}]]
  BY DEF Variables
<1>3. /\ f \in [Cores -> [Vectors -> {"null", "unknown", "yield", "tick"}]]
      /\ f[c][v] = h /\ \A w \in Vectors \ {v} : f[c][w] = b.handler[c][w]
      /\ \A d \in Cores \ {c} : f[d] = b.handler[d]
  BY <1>2
<1> HIDE DEF f
<1>4. r \in Variables /\ Otherwise(b, r) /\ r.handler = f
  BY <1>1, <1>3 DEF Variables, Otherwise
<1> QED
  BY <1>3, <1>4 DEF Records

(* Four vectors share a register.                                            *)
Register(v) == v \div 4

LEMMA RankedIs ==
  ASSUME NEW g \in [Cores -> [Vectors -> Nat]], NEW c \in Cores, NEW v \in Vectors,
         NEW p \in Nat, NEW r, r = Ranked(g, c, v, p)
  PROVE  /\ r \in [Cores -> [Vectors -> Nat]] /\ r[c][v] = p
         /\ \A w \in Vectors : Register(w) # Register(v) => r[c][w] = g[c][w]
         /\ \A d \in Cores \ {c} : r[d] = g[d]
<1> DEFINE row == [w \in Vectors |-> IF w = v THEN p
                                     ELSE IF w \div 4 = v \div 4 THEN 0
                                     ELSE g[c][w]]
<1>1. /\ row \in [Vectors -> Nat] /\ row[v] = p
      /\ \A w \in Vectors : Register(w) # Register(v) => row[w] = g[c][w]
  BY DEF Register
<1>2. r = [g EXCEPT ![c] = row]
  BY DEF Ranked
<1> HIDE DEF row
<1> QED
  BY <1>1, <1>2

LEMMA TickRecorded ==
  ASSUME NEW b \in Variables, NEW c \in Cores, NEW r, r = Recorded(b, c, SysTick, "tick")
  PROVE  Records(b, c, SysTick, "tick", r)
<1>1. SysTick \in Vectors
  BY ConstantsTyped
<1> QED
  BY <1>1, RecordedIs

LEMMA YieldRecorded ==
  ASSUME NEW b \in Variables, NEW c \in Cores, NEW r, r = Recorded(b, c, Yield, "yield")
  PROVE  Records(b, c, Yield, "yield", r)
<1>1. Yield \in Vectors
  BY ConstantsTyped
<1> QED
  BY <1>1, RecordedIs

LEMMA InstallKeeps ==
  ASSUME BootInv, NEW c \in Cores, InstallHandlers(c)
  PROVE  BootInv'
<1> DEFINE b == IF c = 1 THEN Recorded(bss, 1, SysTick, "tick") ELSE bss
           g == IF c = 1 THEN Ranked(gic, 1, SysTick, Kernel) ELSE gic
<1>0. BootTyped /\ Assigned /\ HandShake /\ Handling /\ Started
  BY DEF BootInv
<1>1. /\ Step(c, "port", "gic")
      /\ UNCHANGED <<todo, seen, tcb, executing, pmr>>
  BY DEF InstallHandlers
<1>b. bss' = Recorded(b, c, Yield, "yield")
  BY DEF InstallHandlers
<1>g. gic' = Ranked(g, c, Yield, Kernel)
  BY DEF InstallHandlers
<1>2. /\ pc[c] = "port" /\ pc'[c] = "gic" /\ \A d \in Cores \ {c} : pc'[d] = pc[d]
      /\ pc' \in [Cores -> Places] /\ "port" \in Launching /\ "gic" \in Launching
  BY <1>0, <1>1, StepIs, StepTyped DEF Places, Launching
<1>y. Yield \in Vectors
  BY ConstantsTyped
<1>t. SysTick \in Vectors
  BY ConstantsTyped
<1>k. Kernel \in Nat
  BY ConstantsTyped
<1>r. Register(SysTick) # Register(Yield) /\ SysTick # Yield
  BY ConstantsTyped DEF Register
<1>o. 1 \in Cores
  BY DEF Cores
<1>bt. bss \in Variables
  BY <1>0 DEF BootTyped
<1>gt. gic \in [Cores -> [Vectors -> Nat]]
  BY <1>0 DEF BootTyped
<1>3. /\ b \in Variables /\ Otherwise(bss, b)
      /\ c = 1 => b.handler[1][SysTick] = "tick"
      /\ \A w \in Vectors : bss.handler[c][w] # "null" => b.handler[c][w] # "null"
      /\ \A d \in Cores \ {c} : b.handler[d] = bss.handler[d]
  <2>1. CASE c = 1
    <3>1. b = Recorded(bss, 1, SysTick, "tick")
      BY <2>1
    <3> HIDE DEF b
    <3>2. /\ b \in Variables /\ Otherwise(bss, b) /\ b.handler[1][SysTick] = "tick"
          /\ \A w \in Vectors \ {SysTick} : b.handler[1][w] = bss.handler[1][w]
          /\ \A d \in Cores \ {1} : b.handler[d] = bss.handler[d]
      <4>1. Records(bss, 1, SysTick, "tick", b)
        BY <1>o, <1>bt, <3>1, TickRecorded
      <4> QED
        BY <4>1 DEF Records
    <3> QED
      BY <2>1, <3>2
  <2>2. CASE c # 1
    BY <1>bt, <2>2 DEF Otherwise
  <2> QED
    BY <2>1, <2>2
<1>4. /\ g \in [Cores -> [Vectors -> Nat]] /\ (c = 1 => g[1][SysTick] = Kernel)
      /\ \A d \in Cores \ {c} : g[d] = gic[d]
  <2>1. CASE c = 1
    <3>1. g = Ranked(gic, 1, SysTick, Kernel)
      BY <2>1
    <3> HIDE DEF g
    <3>2. g \in [Cores -> [Vectors -> Nat]]
      BY <1>t, <1>k, <1>o, <1>gt, <3>1, RankedIs
    <3>3. g[1][SysTick] = Kernel
      BY <1>t, <1>k, <1>o, <1>gt, <3>1, RankedIs
    <3>4. \A d \in Cores \ {1} : g[d] = gic[d]
      BY <1>t, <1>k, <1>o, <1>gt, <3>1, RankedIs
    <3> QED
      BY <2>1, <3>2, <3>3, <3>4
  <2>2. CASE c # 1
    BY <1>gt, <2>2
  <2> QED
    BY <2>1, <2>2
<1> HIDE DEF b, g
<1>bv. b \in Variables
  BY <1>3
<1>gv. g \in [Cores -> [Vectors -> Nat]]
  BY <1>4
<1>5. /\ bss' \in Variables /\ Otherwise(b, bss') /\ bss'.handler[c][Yield] = "yield"
      /\ \A w \in Vectors \ {Yield} : bss'.handler[c][w] = b.handler[c][w]
      /\ \A d \in Cores \ {c} : bss'.handler[d] = b.handler[d]
  <2>1. Records(b, c, Yield, "yield", bss')
    BY <1>b, <1>bv, YieldRecorded
  <2> QED
    BY <2>1 DEF Records
<1>6. Otherwise(bss, bss')
  BY <1>3, <1>5 DEF Otherwise
<1>7. /\ gic' \in [Cores -> [Vectors -> Nat]] /\ gic'[c][Yield] = Kernel
      /\ gic'[c][SysTick] = g[c][SysTick] /\ \A d \in Cores \ {c} : gic'[d] = g[d]
  <2>1. gic' \in [Cores -> [Vectors -> Nat]]
    BY <1>g, <1>gv, <1>y, <1>k, RankedIs
  <2>2. gic'[c][Yield] = Kernel
    BY <1>g, <1>gv, <1>y, <1>k, RankedIs
  <2>3. \A d \in Cores \ {c} : gic'[d] = g[d]
    BY <1>g, <1>gv, <1>y, <1>k, RankedIs
  <2>4. \A w \in Vectors : Register(w) # Register(Yield) => gic'[c][w] = g[c][w]
    BY <1>g, <1>gv, <1>y, <1>k, RankedIs
  <2> QED
    BY <1>t, <1>r, <2>1, <2>2, <2>3, <2>4
<1>8. BootTyped'
  BY <1>0, <1>1, <1>2, <1>5, <1>7 DEF BootTyped
<1>9. Aside /\ Assigned' /\ HandShake' /\ Started'
  BY <1>0, <1>1, <1>2, <1>5, <1>6, LaunchKeeps DEF Otherwise
<1>10. Handling'
  <2>1. SetUp(c) /\ \A d \in Cores \ {c} : SetUp(d)' <=> SetUp(d)
    BY <1>2 DEF SetUp, Launching
  <2>2. \A v \in Vectors : bss'.handler[c][v] # "null"
    <3>1. \A v \in Vectors : b.handler[c][v] # "null"
      BY <1>0, <1>3, <2>1 DEF Handling
    <3> QED
      BY <1>5, <3>1
  <2>3. c = 1 => bss'.handler[1][SysTick] = "tick" /\ gic'[1][SysTick] = Kernel
    BY <1>3, <1>4, <1>5, <1>7, <1>t, <1>r
  <2>4. \A d \in Cores \ {c} : bss'.handler[d] = bss.handler[d] /\ gic'[d] = gic[d]
    BY <1>3, <1>4, <1>5, <1>7
  <2>5. bss'.current = bss.current
    BY <1>6 DEF Otherwise
  <2>6. \A d \in Cores \ {c} : (SetUp(d) => \A v \in Vectors : bss.handler[d][v] # "null")'
    BY <1>0, <2>1, <2>4 DEF Handling
  <2> QED
    BY <1>0, <1>1, <1>2, <1>5, <1>7, <1>o, <2>1, <2>2, <2>3, <2>4, <2>5, <2>6 DEF Handling
<1> QED
  BY <1>8, <1>9, <1>10, AsideKeeps DEF BootInv

LEMMA EnableKeeps ==
  ASSUME BootInv, NEW c \in Cores, EnableGic(c)
  PROVE  BootInv'
<1>0. BootTyped /\ Assigned /\ HandShake /\ Handling /\ Started
  BY DEF BootInv
<1>1. /\ Step(c, "gic", "first") /\ pmr' = [pmr EXCEPT ![c] = Lowest]
      /\ UNCHANGED <<todo, seen, bss, tcb, executing, gic>>
  BY DEF EnableGic, mem
<1>2. /\ pc[c] = "gic" /\ pc'[c] = "first" /\ \A d \in Cores \ {c} : pc'[d] = pc[d]
      /\ pc' \in [Cores -> Places] /\ "gic" \in Launching /\ "first" \in Launching
  BY <1>0, <1>1, StepIs, StepTyped DEF Places, Launching
<1>3. /\ pmr' \in [Cores -> Nat] /\ pmr'[c] = Lowest
      /\ \A d \in Cores \ {c} : pmr'[d] = pmr[d]
  BY <1>0, <1>1, ConstantsTyped DEF BootTyped
<1>4. BootTyped'
  BY <1>0, <1>1, <1>2, <1>3 DEF BootTyped
<1>5. Aside /\ Assigned' /\ HandShake' /\ Started'
  BY <1>0, <1>1, <1>2, LaunchKeeps DEF BootTyped
<1>6. Handling'
  BY <1>0, <1>1, <1>2, <1>3 DEF Handling, SetUp, Creating, Making, Launching
<1> QED
  BY <1>4, <1>5, <1>6, AsideKeeps DEF BootInv

(* A core that has created its tasks has a current task, which is one of    *)
(* them.                                                                    *)
LEMMA HasCurrent ==
  ASSUME BootTyped, Assigned, HandShake, MostImportant, NEW c \in Cores,
         pc[c] \in Launching
  PROVE  bss.current[c] \in Own(Chosen, c)
<1>1. \E t \in Tasks : CreatedBy[t] = c /\ t \notin Unmade
  <2>1. CASE c = 0
    <3>1. MainTasks[1] \in Tasks /\ MainTasks[1] \in ToSet(MainTasks)
      BY TasksCreated, EntriesOf
    <3>2. todo[0] = <<>> /\ todo[1] = <<>> /\ IdleGiven
      BY <2>1 DEF HandShake, IdleGiven, Launching, Creating, Making
    <3>3. Unmade = {}
      BY <3>2 DEF Unmade, ToSet
    <3> QED
      BY <2>1, <3>1, <3>3, CreatorOf
  <2>2. CASE c = 1
    <3>1. SecondTasks[1] \in Tasks /\ SecondTasks[1] \in ToSet(SecondTasks)
      BY TasksCreated, EntriesOf
    <3>2. todo[1] = <<>>
      BY <2>2 DEF HandShake, Launching, Creating, Making
    <3>3. ToSet(todo[1]) = {} /\ CreatedBy[SecondTasks[1]] = 1 /\ CreatedBy[idle0] = 0
      BY <3>1, <3>2, CreatorOf DEF ToSet
    <3>4. SecondTasks[1] \notin Unmade
      BY <3>3 DEF Unmade, Assigned, Cores
    <3> QED
      BY <2>2, <3>1, <3>3, <3>4
  <2> QED
    BY <2>1, <2>2 DEF Cores
<1>2. PICK t \in Tasks : CreatedBy[t] = c /\ t \notin Unmade
  BY <1>1
<1>3. t \in Own(Chosen, c)
  BY <1>2 DEF Own, Chosen, Past
<1> QED
  BY <1>3 DEF MostImportant

LEMMA FirstKeeps ==
  ASSUME BootInv, NEW c \in Cores, vPortStartFirstTask(c)
  PROVE  BootInv'
<1>0. BootTyped /\ Assigned /\ HandShake /\ Handling /\ Started /\ MostImportant /\ LaidOut
  BY DEF BootInv, Made
<1>1. pc[c] = "first" /\ UNCHANGED <<todo, seen, bss, tcb, pmr, gic>>
  BY DEF vPortStartFirstTask, mem, Step
<1>2. bss.current[c] \in Own(Chosen, c)
  BY <1>0, <1>1, HasCurrent DEF Launching
<1>3. Chosen \subseteq Tasks /\ Chosen \subseteq Laid
  BY <1>0, PastTyped DEF Chosen, Laid, Past, Making
<1>4. /\ bss.current[c] \in Tasks /\ bss.current[c] # NoTask
      /\ tcb[bss.current[c]].frame.entry = bss.current[c]
  BY <1>0, <1>2, <1>3, CreatorOf DEF Own, LaidOut
<1>5. Step(c, "first", "run") /\ executing' = [executing EXCEPT ![c] = bss.current[c]]
  BY <1>4 DEF vPortStartFirstTask, vPortSVCHandler
<1>6. /\ pc'[c] = "run" /\ \A d \in Cores \ {c} : pc'[d] = pc[d]
      /\ pc' \in [Cores -> Places] /\ "first" \in Launching /\ "run" \in Launching
  BY <1>0, <1>5, StepIs, StepTyped DEF Places, Launching
<1>7. /\ executing' \in [Cores -> Tasks \cup {NoTask}] /\ executing'[c] = bss.current[c]
      /\ \A d \in Cores \ {c} : executing'[d] = executing[d]
  BY <1>0, <1>4, <1>5 DEF BootTyped
<1>8. BootTyped'
  BY <1>0, <1>1, <1>6, <1>7 DEF BootTyped
<1>9. Aside /\ Assigned' /\ HandShake' /\ Started'
  BY <1>0, <1>1, <1>5, <1>6, LaunchKeeps DEF BootTyped
<1>10. Handling'
  BY <1>0, <1>1, <1>6, <1>7 DEF Handling, SetUp, Creating, Making, Launching
<1> QED
  BY <1>8, <1>9, <1>10, AsideKeeps DEF BootInv

LEMMA InterruptKeeps ==
  ASSUME BootInv, NEW c \in Cores, NEW v \in Vectors, vPortGICInterruptHandler(c, v)
  PROVE  BootInv'
<1>0. BootTyped /\ Assigned /\ HandShake /\ Handling /\ Started
  BY DEF BootInv
<1>1. /\ UNCHANGED <<pc, todo, seen, tcb, executing, pmr, gic>> /\ pc[c] = "run"
      /\ bss' = bss \/ bss' = vPortSysTickHandler(bss)
  BY DEF vPortGICInterruptHandler, cpu
<1>2. /\ bss' \in Variables /\ bss'.started = bss.started /\ bss'.running = bss.running
      /\ bss'.current = bss.current /\ bss'.count = bss.count /\ bss'.lists = bss.lists
      /\ bss'.ready = bss.ready /\ bss'.top = bss.top /\ bss'.suspended = bss.suspended
      /\ bss'.handler = bss.handler
  <2>1. bss \in Variables
    BY <1>0 DEF BootTyped
  <2>2. CASE bss' = bss
    BY <2>1, <2>2
  <2> DEFINE later == bss.ticks + 1
             owed == bss.missed + 1
  <2>a. later \in Nat /\ owed \in Nat
    BY <2>1 DEF Variables
  <2>b. bss' = bss \/ bss' = [bss EXCEPT !.ticks = later] \/ bss' = [bss EXCEPT !.missed = owed]
    BY <1>1 DEF vPortSysTickHandler
  <2> HIDE DEF later, owed
  <2>3. CASE bss' = [bss EXCEPT !.ticks = later]
    BY <2>1, <2>3, <2>a DEF Variables
  <2>4. CASE bss' = [bss EXCEPT !.missed = owed]
    BY <2>1, <2>4, <2>a DEF Variables
  <2> QED
    BY <2>b, <2>2, <2>3, <2>4
<1>3. BootTyped'
  BY <1>0, <1>1, <1>2 DEF BootTyped
<1>4. IdleGiven' <=> IdleGiven
  BY <1>1, <1>2 DEF IdleGiven
<1>5. Unmade' = Unmade
  BY <1>1, <1>4 DEF Unmade
<1>6. Aside
  BY <1>1, <1>2, <1>5 DEF Aside
<1>7. Assigned' /\ Handling' /\ Started'
  BY <1>0, <1>1, <1>2, <1>4 DEF Assigned, Handling, SetUp, Started
<1>8. HandShake'
  <2>1. bss.started[0] /\ bss.started[1]
    BY <1>0, <1>1 DEF HandShake, Launching, Creating, Making, Cores
  <2> QED
    BY <1>0, <1>1, <1>2, <2>1 DEF HandShake
<1> QED
  BY <1>3, <1>6, <1>7, <1>8, AsideKeeps DEF BootInv

-----------------------------------------------------------------------------
(* The creation of a task.                                                  *)

(* What every step of a creation leaves as it is, but for the last.         *)
LEMMA MakingKeeps ==
  ASSUME BootTyped, Assigned, HandShake, Handling, Started, NEW c \in Cores,
         NEW a \in Creating, NEW b \in Making, Step(c, a, b), todo[c] # <<>>,
         UNCHANGED <<todo, executing, pmr, gic>>,
         bss'.started = bss.started, bss'.running = bss.running,
         bss'.handler = bss.handler,
         \A d \in Cores \ {c} : bss'.current[d] = bss.current[d]
  PROVE  /\ Assigned' /\ HandShake' /\ Handling' /\ Started' /\ Unmade' = Unmade
         /\ pc' \in [Cores -> Places] /\ pc[c] = a /\ pc'[c] = b
         /\ \A d \in Cores \ {c} : pc'[d] = pc[d] /\ pc[d] \notin Creating
<1>1. /\ pc[c] = a /\ pc'[c] = b /\ \A d \in Cores \ {c} : pc'[d] = pc[d]
      /\ pc' \in [Cores -> Places] /\ a # "await" /\ b # "await"
  BY StepIs, StepTyped DEF Places, Creating, Making
<1>2. IdleGiven' <=> IdleGiven
  BY <1>1 DEF IdleGiven, Cores
<1>3. Unmade' = Unmade
  BY <1>2 DEF Unmade
<1>4. Assigned'
  BY <1>2, StepAssigned
<1>5. HandShake' /\ Started'
  <2>1. CASE c = 0
    BY <1>1, <2>1 DEF HandShake, Started, Launching, Creating, Making, Cores
  <2>2. CASE c = 1
    BY <1>1, <2>2 DEF HandShake, Started, Launching, Creating, Making, Cores
  <2> QED
    BY <2>1, <2>2 DEF Cores
<1>6. Handling'
  BY <1>1 DEF Handling, SetUp, Creating, Making
<1> QED
  BY <1>1, <1>3, <1>4, <1>5, <1>6, OneCreates

LEMMA AllocateKeeps ==
  ASSUME BootInv, NEW c \in Cores, Allocate(c)
  PROVE  BootInv'
<1> DEFINE n == bss.suspended + 1
<1>0. BootTyped /\ Assigned /\ HandShake /\ Handling /\ Started /\ Made
  BY DEF BootInv
<1>1. /\ todo[c] # <<>> /\ bss' = [bss EXCEPT !.suspended = n]
      /\ UNCHANGED <<todo, seen, tcb, executing, pmr, gic>>
  BY DEF Allocate, cpu
<1>2. Step(c, "create", "allocate")
  <2>1. Head(todo[c]) \in Tasks
    BY <1>0, <1>1 DEF BootTyped
  <2>2. Priority[Head(todo[c])] < MaxPriorities
    BY <2>1, BootAssumption DEF Levels
  <2> QED
    BY <2>2 DEF Allocate
<1>3. /\ bss' \in Variables /\ bss'.started = bss.started /\ bss'.running = bss.running
      /\ bss'.current = bss.current /\ bss'.count = bss.count /\ bss'.lists = bss.lists
      /\ bss'.ready = bss.ready /\ bss'.top = bss.top /\ bss'.suspended = bss.suspended + 1
      /\ bss'.handler = bss.handler
  <2>1. bss \in Variables /\ n \in Nat
    BY <1>0 DEF BootTyped, Variables
  <2> QED
    BY <1>1, <2>1 DEF Variables
<1>4. /\ Assigned' /\ HandShake' /\ Handling' /\ Started' /\ Unmade' = Unmade
      /\ pc' \in [Cores -> Places] /\ pc[c] = "create" /\ pc'[c] = "allocate"
      /\ \A d \in Cores \ {c} : pc'[d] = pc[d] /\ pc[d] \notin Creating
  BY <1>0, <1>1, <1>2, <1>3, MakingKeeps DEF Creating, Making
<1>5. BootTyped'
  BY <1>0, <1>1, <1>3, <1>4 DEF BootTyped
<1>6. Laid' = Laid /\ Counted' = Counted /\ Chosen' = Chosen /\ Listed' = Listed
  <2>1. \A S \in SUBSET (Making \ {"allocate"}) : Past(S)' = Past(S)
    BY <1>1, <1>4, PastStays DEF Making
  <2> QED
    BY <2>1 DEF Laid, Counted, Chosen, Listed, Making
<1>7. LaidOut' /\ MostImportant' /\ OnReadyLists' /\ ScansFrom'
  BY <1>0, <1>1, <1>3, <1>6 DEF Made, LaidOut, MostImportant, OnReadyLists, ScansFrom, Own
<1>8. CountRight'
  BY <1>0, <1>1, <1>3, <1>4, <1>6 DEF Made, CountRight
<1>9. AllocatesAlone'
  BY <1>0, <1>3, <1>4 DEF Made, AllocatesAlone, Creating, Making
<1> QED
  BY <1>4, <1>5, <1>7, <1>8, <1>9 DEF BootInv, Made

LEMMA AllocatedKeeps ==
  ASSUME BootInv, NEW c \in Cores, Allocated(c)
  PROVE  BootInv'
<1> DEFINE resumed == bss.suspended = 1 /\ bss.count > 0
           n == bss.suspended - 1
           ticks == IF resumed THEN bss.ticks + bss.missed ELSE bss.ticks
           missed == IF resumed THEN 0 ELSE bss.missed
<1>0. BootTyped /\ Assigned /\ HandShake /\ Handling /\ Started /\ Made
  BY DEF BootInv
<1>1. /\ bss' = [bss EXCEPT !.suspended = n, !.ticks = ticks, !.missed = missed]
      /\ UNCHANGED <<todo, seen, tcb, executing, pmr, gic>> /\ pc[c] = "allocate"
  BY DEF Allocated, Step
<1>2. bss.suspended = 1 /\ n = 0 /\ todo[c] # <<>>
  BY <1>0, <1>1 DEF Made, AllocatesAlone, Assigned, Making
<1>3. bss.count > 0 => bss.lists
  <2>1. Counted = Tasks \ Unmade /\ Chosen = Tasks \ Unmade
    BY <1>0, <1>1, HeadNew DEF Counted, Chosen, Making
  <2>2. bss.count > 0 => Counted # {}
    BY <1>0, FS_EmptySet DEF Made, CountRight
  <2> QED
    BY <1>0, <2>1, <2>2 DEF Made, OnReadyLists
<1>4. Step(c, "allocate", "initialise")
  BY <1>3 DEF Allocated
<1>5. /\ bss' \in Variables /\ bss'.started = bss.started /\ bss'.running = bss.running
      /\ bss'.current = bss.current /\ bss'.count = bss.count /\ bss'.lists = bss.lists
      /\ bss'.ready = bss.ready /\ bss'.top = bss.top /\ bss'.suspended = 0
      /\ bss'.handler = bss.handler
  <2>1. bss \in Variables /\ ticks \in Nat /\ missed \in Nat
    BY <1>0 DEF BootTyped, Variables
  <2> HIDE DEF ticks, missed, n
  <2> QED
    BY <1>1, <1>2, <2>1 DEF Variables
<1>6. /\ Assigned' /\ HandShake' /\ Handling' /\ Started' /\ Unmade' = Unmade
      /\ pc' \in [Cores -> Places] /\ pc[c] = "allocate" /\ pc'[c] = "initialise"
      /\ \A d \in Cores \ {c} : pc'[d] = pc[d] /\ pc[d] \notin Creating
  BY <1>0, <1>1, <1>2, <1>4, <1>5, MakingKeeps DEF Creating, Making
<1>7. BootTyped'
  BY <1>0, <1>1, <1>5, <1>6 DEF BootTyped
<1>8. Laid' = Laid /\ Counted' = Counted /\ Chosen' = Chosen /\ Listed' = Listed
  <2>1. \A S \in SUBSET (Making \ {"allocate", "initialise"}) : Past(S)' = Past(S)
    BY <1>1, <1>6, PastStays DEF Making
  <2> QED
    BY <2>1 DEF Laid, Counted, Chosen, Listed, Making
<1>9. LaidOut' /\ MostImportant' /\ OnReadyLists' /\ ScansFrom'
  BY <1>0, <1>1, <1>5, <1>8 DEF Made, LaidOut, MostImportant, OnReadyLists, ScansFrom, Own
<1>10. CountRight'
  BY <1>0, <1>1, <1>5, <1>6, <1>8 DEF Made, CountRight
<1>11. AllocatesAlone'
  BY <1>0, <1>5, <1>6 DEF AllocatesAlone, Creating, Making
<1> QED
  BY <1>6, <1>7, <1>9, <1>10, <1>11 DEF BootInv, Made

(* The task that is being created goes past one place, and past no other.   *)
LEMMA HeadMoves ==
  ASSUME NEW c \in Cores, NEW S \in SUBSET Making, UNCHANGED todo, Unmade' = Unmade,
         \A d \in Cores \ {c} : pc'[d] = pc[d], pc'[c] \in S, pc[c] \notin S
  PROVE  Past(S)' = Past(S) \cup {Head(todo[c])}
BY PastMoves

LEMMA HeadWaits ==
  ASSUME NEW c \in Cores, NEW S \in SUBSET Making, UNCHANGED todo, Unmade' = Unmade,
         \A d \in Cores \ {c} : pc'[d] = pc[d], pc'[c] \in S <=> pc[c] \in S
  PROVE  Past(S)' = Past(S)
BY PastStays

LEMMA InitialiseKeeps ==
  ASSUME BootInv, NEW c \in Cores, Initialise(c)
  PROVE  BootInv'
<1> DEFINE h == Head(todo[c])
<1>0. BootTyped /\ Assigned /\ HandShake /\ Handling /\ Started /\ Made
  BY DEF BootInv
<1>1. /\ Step(c, "initialise", "count") /\ pc[c] = "initialise"
      /\ tcb' = [tcb EXCEPT ![h] = prvInitialiseTCBVariables(h)]
      /\ UNCHANGED <<todo, seen, bss, executing, pmr, gic>>
  BY DEF Initialise, cpu, Step
<1>2. todo[c] # <<>> /\ h \in Tasks
  BY <1>0, <1>1, HeadIs DEF Assigned, Making
<1>3. /\ Assigned' /\ HandShake' /\ Handling' /\ Started' /\ Unmade' = Unmade
      /\ pc' \in [Cores -> Places] /\ pc[c] = "initialise" /\ pc'[c] = "count"
      /\ \A d \in Cores \ {c} : pc'[d] = pc[d] /\ pc[d] \notin Creating
  BY <1>0, <1>1, <1>2, MakingKeeps DEF Creating, Making
<1>4. /\ tcb' = [t \in Tasks |-> tcb'[t]] /\ tcb'[h] = prvInitialiseTCBVariables(h)
      /\ \A t \in Tasks \ {h} : tcb'[t] = tcb[t]
  <2>1. tcb = [t \in Tasks |-> tcb[t]]
    BY <1>0 DEF BootTyped
  <2> QED
    BY <1>1, <1>2, <2>1
<1>5. BootTyped'
  BY <1>0, <1>1, <1>3, <1>4 DEF BootTyped
<1>6. Laid' = Laid \cup {h}
  BY <1>1, <1>3, HeadMoves DEF Laid, Making
<1>7. Counted' = Counted /\ Chosen' = Chosen /\ Listed' = Listed
  <2>1. \A S \in SUBSET {"current", "link", "yield"} : Past(S)' = Past(S)
    BY <1>1, <1>3, HeadWaits DEF Making
  <2> QED
    BY <2>1 DEF Counted, Chosen, Listed
<1>8. LaidOut'
  <2>1. Priority[h] \in Levels
    BY <1>2, BootAssumption
  <2>2. tcb'[h].priority = Priority[h] /\ tcb'[h].frame.entry = h
    BY <1>4, <2>1, BootAssumption DEF prvInitialiseTCBVariables, pxPortInitialiseStack, Levels
  <2>3. Laid \subseteq Tasks
    BY <1>0, PastTyped DEF Laid, Making
  <2> QED
    BY <1>0, <1>4, <1>6, <2>2, <2>3 DEF Made, LaidOut
<1>9. MostImportant' /\ OnReadyLists' /\ ScansFrom'
  BY <1>0, <1>1, <1>7 DEF Made, MostImportant, OnReadyLists, ScansFrom, Own
<1>10. CountRight'
  BY <1>0, <1>1, <1>3, <1>7 DEF Made, CountRight
<1>11. AllocatesAlone'
  BY <1>0, <1>1, <1>3 DEF Made, AllocatesAlone, Creating, Making
<1> QED
  BY <1>3, <1>5, <1>8, <1>9, <1>10, <1>11 DEF BootInv, Made

LEMMA CountReadKeeps ==
  ASSUME BootInv, NEW c \in Cores, CountRead(c)
  PROVE  BootInv'
<1>0. BootTyped /\ Assigned /\ HandShake /\ Handling /\ Started /\ Made
  BY DEF BootInv
<1>1. /\ Step(c, "count", "counted") /\ pc[c] = "count"
      /\ seen' = [seen EXCEPT ![c] = bss.count]
      /\ UNCHANGED <<todo, bss, tcb, executing, pmr, gic>>
  BY DEF CountRead, cpu, mem, Step
<1>2. todo[c] # <<>>
  BY <1>0, <1>1 DEF Assigned, Making
<1>3. /\ Assigned' /\ HandShake' /\ Handling' /\ Started' /\ Unmade' = Unmade
      /\ pc' \in [Cores -> Places] /\ pc[c] = "count" /\ pc'[c] = "counted"
      /\ \A d \in Cores \ {c} : pc'[d] = pc[d] /\ pc[d] \notin Creating
  BY <1>0, <1>1, <1>2, MakingKeeps DEF Creating, Making
<1>4. seen' \in [Cores -> Nat] /\ seen'[c] = bss.count
  <2>1. bss.count \in Nat
    BY <1>0 DEF BootTyped, Variables
  <2> QED
    BY <1>0, <1>1, <2>1 DEF BootTyped
<1>5. BootTyped'
  BY <1>0, <1>1, <1>3, <1>4 DEF BootTyped
<1>6. Laid' = Laid /\ Counted' = Counted /\ Chosen' = Chosen /\ Listed' = Listed
  <2>1. Laid' = Laid
    BY <1>1, <1>3, HeadWaits DEF Laid, Making
  <2>2. \A S \in SUBSET {"current", "link", "yield"} : Past(S)' = Past(S)
    BY <1>1, <1>3, HeadWaits DEF Making
  <2> QED
    BY <2>1, <2>2 DEF Counted, Chosen, Listed
<1>7. LaidOut' /\ MostImportant' /\ OnReadyLists' /\ ScansFrom'
  BY <1>0, <1>1, <1>6 DEF Made, LaidOut, MostImportant, OnReadyLists, ScansFrom, Own
<1>8. CountRight'
  BY <1>0, <1>1, <1>3, <1>4, <1>6 DEF Made, CountRight, Creating, Making
<1>9. AllocatesAlone'
  BY <1>0, <1>1, <1>3 DEF Made, AllocatesAlone, Creating, Making
<1> QED
  BY <1>3, <1>5, <1>7, <1>8, <1>9 DEF BootInv, Made

LEMMA CountWriteKeeps ==
  ASSUME BootInv, NEW c \in Cores, CountWrite(c)
  PROVE  BootInv'
<1> DEFINE h == Head(todo[c])
           n == seen[c] + 1
<1>0. BootTyped /\ Assigned /\ HandShake /\ Handling /\ Started /\ Made
  BY DEF BootInv
<1>1. /\ Step(c, "counted", "current") /\ pc[c] = "counted"
      /\ bss' = [bss EXCEPT !.count = n]
      /\ UNCHANGED <<todo, seen, tcb, executing, pmr, gic>>
  BY DEF CountWrite, cpu, Step
<1>2. todo[c] # <<>> /\ h \in Tasks
  BY <1>0, <1>1, HeadIs DEF Assigned, Making
<1>3. /\ bss' \in Variables /\ bss'.started = bss.started /\ bss'.running = bss.running
      /\ bss'.current = bss.current /\ bss'.lists = bss.lists
      /\ bss'.ready = bss.ready /\ bss'.top = bss.top /\ bss'.suspended = bss.suspended
      /\ bss'.handler = bss.handler /\ bss'.count = bss.count + 1
  <2>1. bss \in Variables /\ n \in Nat
    BY <1>0 DEF BootTyped
  <2>2. n = bss.count + 1
    BY <1>0, <1>1 DEF Made, CountRight
  <2> HIDE DEF n
  <2> QED
    BY <1>1, <2>1, <2>2 DEF Variables
<1>4. /\ Assigned' /\ HandShake' /\ Handling' /\ Started' /\ Unmade' = Unmade
      /\ pc' \in [Cores -> Places] /\ pc[c] = "counted" /\ pc'[c] = "current"
      /\ \A d \in Cores \ {c} : pc'[d] = pc[d] /\ pc[d] \notin Creating
  BY <1>0, <1>1, <1>2, <1>3, MakingKeeps DEF Creating, Making
<1>5. BootTyped'
  BY <1>0, <1>1, <1>3, <1>4 DEF BootTyped
<1>6. Counted' = Counted \cup {h} /\ h \notin Counted /\ IsFiniteSet(Counted)
  <2>1. Counted' = Counted \cup {h}
    BY <1>1, <1>4, HeadMoves DEF Counted, Making
  <2>2. h \notin Counted
    BY <1>0, <1>1, HeadNew DEF Counted, Making
  <2>3. IsFiniteSet(Counted)
    BY <1>0, PastTyped DEF Counted, Making
  <2> QED
    BY <2>1, <2>2, <2>3
<1>7. Laid' = Laid /\ Chosen' = Chosen /\ Listed' = Listed
  <2>1. Laid' = Laid
    BY <1>1, <1>4, HeadWaits DEF Laid, Making
  <2>2. \A S \in SUBSET {"link", "yield"} : Past(S)' = Past(S)
    BY <1>1, <1>4, HeadWaits DEF Making
  <2> QED
    BY <2>1, <2>2 DEF Chosen, Listed
<1>8. LaidOut' /\ MostImportant' /\ OnReadyLists' /\ ScansFrom'
  BY <1>0, <1>1, <1>3, <1>7 DEF Made, LaidOut, MostImportant, OnReadyLists, ScansFrom, Own
<1>9. CountRight'
  <2>1. Cardinality(Counted') = Cardinality(Counted) + 1
    BY <1>6, FS_AddElement
  <2>2. bss'.count = Cardinality(Counted')
    BY <1>0, <1>3, <2>1 DEF Made, CountRight
  <2> QED
    BY <1>4, <2>2 DEF CountRight, Creating, Making
<1>10. AllocatesAlone'
  BY <1>0, <1>3, <1>4 DEF Made, AllocatesAlone, Creating, Making
<1> QED
  BY <1>4, <1>5, <1>8, <1>9, <1>10 DEF BootInv, Made

LEMMA ZeroesReady ==
  /\ Zeroes.ready \in [Levels -> Seq(Tasks)]
  /\ \A p \in Levels : IsInjective(Zeroes.ready[p]) /\ ToSet(Zeroes.ready[p]) = {}
<1>1. Zeroes.ready = [p \in Levels |-> <<>>]
  BY DEF Zeroes
<1>2. <<>> \in Seq(Tasks) /\ IsInjective(<<>>) /\ ToSet(<<>>) = {}
  BY DEF IsInjective, ToSet
<1> QED
  BY <1>1, <1>2

LEMMA TakeCurrentKeeps ==
  ASSUME BootInv, NEW c \in Cores, TakeCurrent(c)
  PROVE  BootInv'
<1> DEFINE h == Head(todo[c])
           first == bss.current[c] = NoTask /\ bss.count = 1
           next == IF TakesOver(c, h) THEN h ELSE bss.current[c]
           current == [bss.current EXCEPT ![c] = next]
           lists == IF first THEN TRUE ELSE bss.lists
           ready == IF first THEN Zeroes.ready ELSE bss.ready
<1>0. BootTyped /\ Assigned /\ HandShake /\ Handling /\ Started /\ Made
  BY DEF BootInv
<1>1. /\ Step(c, "current", "link") /\ pc[c] = "current"
      /\ UNCHANGED <<todo, seen, tcb, executing, pmr, gic>>
  BY DEF TakeCurrent, cpu, Step
<1>2. todo[c] # <<>> /\ h \in Tasks /\ CreatedBy[h] = c
  BY <1>0, <1>1, HeadIs DEF Assigned, Making
<1>b. bss \in Variables
  BY <1>0 DEF BootTyped
<1>3. bss' = [bss EXCEPT !.current = current, !.lists = lists, !.ready = ready]
  <2>1. CASE first
    BY <1>b, <2>1 DEF TakeCurrent, prvInitialiseTaskLists, Variables
  <2>2. CASE ~first
    BY <1>b, <2>2 DEF TakeCurrent, Variables
  <2> QED
    BY <2>1, <2>2
<1>4. /\ current \in [Cores -> Tasks \cup {NoTask}] /\ current[c] = next
      /\ \A d \in Cores \ {c} : current[d] = bss.current[d]
      /\ lists \in BOOLEAN /\ ready \in [Levels -> Seq(Tasks)]
  BY <1>b, <1>2, ZeroesReady DEF Variables
<1> HIDE DEF current, lists, ready, next
<1>5. /\ bss' \in Variables /\ bss'.started = bss.started /\ bss'.running = bss.running
      /\ bss'.top = bss.top /\ bss'.suspended = bss.suspended
      /\ bss'.handler = bss.handler /\ bss'.count = bss.count
      /\ bss'.current = current /\ bss'.lists = lists /\ bss'.ready = ready
  BY <1>b, <1>3, <1>4 DEF Variables
<1>6. /\ Assigned' /\ HandShake' /\ Handling' /\ Started' /\ Unmade' = Unmade
      /\ pc' \in [Cores -> Places] /\ pc[c] = "current" /\ pc'[c] = "link"
      /\ \A d \in Cores \ {c} : pc'[d] = pc[d] /\ pc[d] \notin Creating
  BY <1>0, <1>1, <1>2, <1>4, <1>5, MakingKeeps DEF Creating, Making
<1>7. BootTyped'
  BY <1>0, <1>1, <1>5, <1>6 DEF BootTyped
<1>8. /\ Chosen' = Chosen \cup {h} /\ h \notin Chosen /\ Chosen = Tasks \ Unmade
      /\ Listed = Tasks \ Unmade /\ Chosen \subseteq Tasks
  BY <1>0, <1>1, <1>6, HeadMoves, HeadNew DEF Chosen, Listed, Making
<1>9. Laid' = Laid /\ Counted' = Counted /\ Listed' = Listed
  <2>1. Laid' = Laid
    BY <1>1, <1>6, HeadWaits DEF Laid, Making
  <2>2. Counted' = Counted
    BY <1>1, <1>6, HeadWaits DEF Counted, Making
  <2>3. Listed' = Listed
    BY <1>1, <1>6, HeadWaits DEF Listed, Making
  <2> QED
    BY <2>1, <2>2, <2>3
<1>10. Counted = (Tasks \ Unmade) \cup {h}
  <2>1. {d \in Cores : pc[d] \in {"current", "link", "yield"}} = {c}
    BY <1>6 DEF Creating, Making
  <2> QED
    BY <2>1 DEF Counted, Past
<1>11. first => Chosen = {} /\ Listed = {}
  <2>1. h \notin Tasks \ Unmade /\ IsFiniteSet(Tasks \ Unmade)
    BY <1>8, TasksFinite, FS_Subset
  <2>2. Cardinality(Counted) = Cardinality(Tasks \ Unmade) + 1
    BY <1>10, <2>1, FS_AddElement
  <2>3. Cardinality(Tasks \ Unmade) \in Nat /\ bss.count = Cardinality(Counted)
    BY <1>0, <2>1, FS_CardinalityType DEF Made, CountRight
  <2>4. first => Cardinality(Tasks \ Unmade) = 0
    BY <2>2, <2>3
  <2> QED
    BY <1>8, <2>1, <2>4, FS_EmptySet
<1>12. ~first => bss.lists
  <2>1. CASE bss.current[c] # NoTask
    BY <1>0, <2>1 DEF Made, MostImportant, OnReadyLists, Own
  <2>2. CASE bss.count # 1
    <3>1. Counted # {h}
      BY <1>0, <2>2, FS_Singleton DEF Made, CountRight
    <3> QED
      BY <1>0, <1>8, <1>10, <3>1 DEF Made, OnReadyLists
  <2> QED
    BY <2>1, <2>2
<1>13. OnReadyLists'
  <2>1. lists
    BY <1>12 DEF lists
  <2>2. ASSUME NEW p \in Levels
        PROVE  IsInjective(ready[p]) /\ ToSet(ready[p]) = {t \in Listed : Priority[t] = p}
    <3>1. CASE first
      BY <1>11, <3>1, ZeroesReady DEF ready
    <3>2. CASE ~first
      BY <1>0, <3>2 DEF ready, Made, OnReadyLists
    <3> QED
      BY <3>1, <3>2
  <2> QED
    BY <1>5, <1>9, <2>1, <2>2 DEF OnReadyLists
<1>14. MostImportant'
  <2>1. Own(Chosen', c) = Own(Chosen, c) \cup {h}
    BY <1>2, <1>8 DEF Own
  <2>2. next \in Own(Chosen', c) /\ \A t \in Own(Chosen', c) : Priority[t] <= Priority[next]
    <3>0. \A t \in Tasks : Priority[t] \in Nat
      BY ConstantsTyped, BootAssumption
    <3>1. CASE bss.current[c] = NoTask
      <4>1. Own(Chosen, c) = {}
        BY <1>0, <1>8, <3>1, CreatorOf DEF Made, MostImportant, Own
      <4>2. next = h
        BY <3>1 DEF next, TakesOver
      <4> QED
        BY <1>2, <2>1, <3>0, <4>1, <4>2
    <3>2. CASE bss.current[c] # NoTask
      <4> DEFINE o == bss.current[c]
      <4>1. o \in Own(Chosen, c) /\ \A t \in Own(Chosen, c) : Priority[t] <= Priority[o]
        BY <1>0, <3>2 DEF Made, MostImportant
      <4>2. o \in Chosen /\ o \in Tasks /\ o \in Laid
        BY <1>8, <4>1 DEF Own, Laid, Past
      <4>3. tcb[o].priority = Priority[o]
        BY <1>0, <4>2 DEF Made, LaidOut
      <4>4. ~bss.running
        BY <1>0, <1>1, OneCreates DEF Started, Creating, Making
      <4>5. next = IF Priority[o] <= Priority[h] THEN h ELSE o
        BY <3>2, <4>3, <4>4 DEF next, TakesOver
      <4>6. \A t \in Own(Chosen, c) : t \in Tasks
        BY <1>8 DEF Own
      <4>7. next \in Own(Chosen', c)
        BY <2>1, <4>1, <4>5
      <4>8. ASSUME NEW t \in Own(Chosen', c) PROVE Priority[t] <= Priority[next]
        <5>1. t = h \/ Priority[t] <= Priority[o]
          BY <2>1, <4>1
        <5>2. t \in Tasks
          BY <1>2, <2>1, <4>6
        <5>3. Priority[t] \in Nat /\ Priority[o] \in Nat /\ Priority[h] \in Nat
          BY <1>2, <3>0, <4>2, <5>2
        <5> QED
          BY <4>5, <5>1, <5>3
      <4> QED
        BY <4>7, <4>8
    <3> QED
      BY <3>1, <3>2
  <2>3. \A d \in Cores \ {c} : Own(Chosen', d) = Own(Chosen, d)
    BY <1>2, <1>8 DEF Own
  <2>4. ASSUME NEW d \in Cores
        PROVE  /\ Own(Chosen', d) = {} => current[d] = NoTask
               /\ Own(Chosen', d) # {} =>
                    /\ current[d] \in Own(Chosen', d)
                    /\ \A t \in Own(Chosen', d) : Priority[t] <= Priority[current[d]]
    <3>1. CASE d = c
      BY <1>4, <2>1, <2>2, <3>1
    <3>2. CASE d # c
      BY <1>0, <1>4, <2>3, <3>2 DEF Made, MostImportant
    <3> QED
      BY <3>1, <3>2
  <2> QED
    BY <1>5, <2>4 DEF MostImportant, Own
<1>15. LaidOut' /\ ScansFrom'
  BY <1>0, <1>1, <1>5, <1>9 DEF Made, LaidOut, ScansFrom, Own
<1>16. CountRight'
  BY <1>0, <1>1, <1>5, <1>6, <1>9 DEF Made, CountRight
<1>17. AllocatesAlone'
  BY <1>0, <1>5, <1>6 DEF Made, AllocatesAlone, Creating, Making
<1> QED
  BY <1>6, <1>7, <1>13, <1>14, <1>15, <1>16, <1>17 DEF BootInv, Made

LEMMA LinkKeeps ==
  ASSUME BootInv, NEW c \in Cores, prvAddTaskToReadyQueue(c)
  PROVE  BootInv'
<1> DEFINE h == Head(todo[c])
           p == tcb[h].priority
           up == IF p > bss.top[c] THEN p ELSE bss.top[c]
           top == [bss.top EXCEPT ![c] = up]
           row == Append(bss.ready[p], h)
           ready == [bss.ready EXCEPT ![p] = row]
<1>0. BootTyped /\ Assigned /\ HandShake /\ Handling /\ Started /\ Made
  BY DEF BootInv
<1>1. pc[c] = "link" /\ UNCHANGED <<todo, seen, tcb, executing, pmr, gic>>
  BY DEF prvAddTaskToReadyQueue, cpu, Step
<1>2. todo[c] # <<>> /\ h \in Tasks /\ CreatedBy[h] = c
  BY <1>0, <1>1, HeadIs DEF Assigned, Making
<1>b. bss \in Variables
  BY <1>0 DEF BootTyped
<1>3. h \in Laid /\ h \in Chosen
  BY <1>1 DEF Laid, Chosen, Past
<1>4. p = Priority[h] /\ p \in Levels /\ p \in Nat /\ bss.lists
  <2>1. p = Priority[h] /\ bss.lists
    BY <1>0, <1>3 DEF Made, LaidOut, OnReadyLists
  <2>2. Priority[h] \in Levels
    BY <1>2, BootAssumption
  <2> QED
    BY <2>1, <2>2, ConstantsTyped
<1>5. Step(c, "link", "yield") /\ bss' = [bss EXCEPT !.top = top, !.ready = ready]
  <2>1. Step(c, "link", "yield")
    BY <1>4 DEF prvAddTaskToReadyQueue
  <2>2. bss' = [bss EXCEPT !.top[c] = IF p > @ THEN p ELSE @, !.ready[p] = Append(@, h)]
    BY DEF prvAddTaskToReadyQueue
  <2> HIDE DEF p, h
  <2> QED
    BY <1>b, <2>1, <2>2 DEF Variables
<1> HIDE DEF p
<1>6. /\ h \notin Listed /\ Listed' = Listed \cup {h} /\ Listed \subseteq Tasks
      /\ Laid' = Laid /\ Counted' = Counted /\ Chosen' = Chosen /\ Unmade' = Unmade
      /\ Assigned' /\ HandShake' /\ Handling' /\ Started'
      /\ pc' \in [Cores -> Places] /\ pc'[c] = "yield"
      /\ \A d \in Cores \ {c} : pc'[d] = pc[d] /\ pc[d] \notin Creating
  <2>1. /\ bss'.started = bss.started /\ bss'.running = bss.running
        /\ bss'.handler = bss.handler /\ bss'.current = bss.current
    BY <1>b, <1>5 DEF Variables
  <2>2. /\ Assigned' /\ HandShake' /\ Handling' /\ Started' /\ Unmade' = Unmade
        /\ pc' \in [Cores -> Places] /\ pc[c] = "link" /\ pc'[c] = "yield"
        /\ \A d \in Cores \ {c} : pc'[d] = pc[d] /\ pc[d] \notin Creating
    BY <1>0, <1>1, <1>2, <1>5, <2>1, MakingKeeps DEF Creating, Making
  <2>3. h \notin Listed /\ Listed \subseteq Tasks /\ Listed' = Listed \cup {h}
    BY <1>0, <1>1, <2>2, HeadNew, HeadMoves DEF Listed, Making
  <2>4. Laid' = Laid
    BY <1>1, <2>2, HeadWaits DEF Laid, Making
  <2>5. Counted' = Counted
    BY <1>1, <2>2, HeadWaits DEF Counted, Making
  <2>6. Chosen' = Chosen
    BY <1>1, <2>2, HeadWaits DEF Chosen, Making
  <2> QED
    BY <2>2, <2>3, <2>4, <2>5, <2>6
<1>7. /\ row \in Seq(Tasks) /\ IsInjective(row) /\ ToSet(row) = ToSet(bss.ready[p]) \cup {h}
  <2>1. /\ bss.ready[p] \in Seq(Tasks) /\ IsInjective(bss.ready[p])
        /\ ToSet(bss.ready[p]) = {t \in Listed : Priority[t] = p}
    BY <1>0, <1>b, <1>4 DEF Variables, Made, OnReadyLists
  <2>2. h \notin ToSet(bss.ready[p])
    BY <1>6, <2>1
  <2> HIDE DEF h
  <2> QED
    BY <1>2, <2>1, <2>2, AppendNew
<1> HIDE DEF row
<1>8. /\ ready \in [Levels -> Seq(Tasks)] /\ ready[p] = row
      /\ \A q \in Levels \ {p} : ready[q] = bss.ready[q]
  BY <1>b, <1>4, <1>7 DEF Variables
<1>9. /\ top \in [Cores -> Levels] /\ top[c] = up
      /\ \A d \in Cores \ {c} : top[d] = bss.top[d]
  <2>1. up \in Levels
    BY <1>b, <1>4 DEF Variables
  <2> HIDE DEF up
  <2> QED
    BY <1>b, <2>1 DEF Variables
<1> HIDE DEF ready, top
<1>10. /\ bss' \in Variables
       /\ bss'.current = bss.current /\ bss'.count = bss.count /\ bss'.lists = bss.lists
       /\ bss'.ready = ready /\ bss'.top = top /\ bss'.suspended = bss.suspended
  BY <1>b, <1>5, <1>8, <1>9 DEF Variables
<1>11. BootTyped'
  BY <1>0, <1>1, <1>6, <1>10 DEF BootTyped
<1>12. OnReadyLists'
  <2>1. ASSUME NEW q \in Levels
        PROVE  IsInjective(ready[q]) /\ ToSet(ready[q]) = {t \in Listed' : Priority[t] = q}
    <3>0. /\ IsInjective(bss.ready[q])
          /\ ToSet(bss.ready[q]) = {t \in Listed : Priority[t] = q}
      BY <1>0 DEF Made, OnReadyLists
    <3>1. CASE q = p
      BY <1>4, <1>6, <1>7, <1>8, <3>0, <3>1
    <3>2. CASE q # p
      BY <1>4, <1>6, <1>8, <3>0, <3>2
    <3> QED
      BY <3>1, <3>2
  <2> QED
    BY <1>4, <1>10, <2>1 DEF OnReadyLists
<1>13. ScansFrom'
  <2>0. \A t \in Tasks : Priority[t] \in Nat
    BY ConstantsTyped, BootAssumption
  <2>1. Own(Listed', c) = Own(Listed, c) \cup {h}
    BY <1>2, <1>6 DEF Own
  <2>2. \A d \in Cores \ {c} : Own(Listed', d) = Own(Listed, d)
    BY <1>2, <1>6 DEF Own
  <2>3. /\ \A t \in Own(Listed, c) : Priority[t] <= bss.top[c]
        /\ bss.top[c] = 0 \/ \E t \in Own(Listed, c) : Priority[t] = bss.top[c]
        /\ bss.top[c] \in Nat
    BY <1>0, <1>b, ConstantsTyped DEF Made, ScansFrom, Variables
  <2>4. \A t \in Own(Listed', c) : Priority[t] <= up
    <3> TAKE t \in Own(Listed', c)
    <3>1. t \in Tasks /\ (t = h \/ Priority[t] <= bss.top[c])
      BY <1>2, <1>6, <2>1, <2>3 DEF Own
    <3>2. Priority[t] \in Nat
      BY <2>0, <3>1
    <3> QED
      BY <1>4, <2>3, <3>1, <3>2
  <2>5. up = 0 \/ \E t \in Own(Listed', c) : Priority[t] = up
    BY <1>4, <2>1, <2>3
  <2> HIDE DEF up
  <2>6. ASSUME NEW d \in Cores
        PROVE  /\ \A t \in Own(Listed', d) : Priority[t] <= top[d]
               /\ top[d] = 0 \/ \E t \in Own(Listed', d) : Priority[t] = top[d]
    <3>1. CASE d = c
      BY <1>9, <2>4, <2>5, <3>1
    <3>2. CASE d # c
      BY <1>0, <1>9, <2>2, <3>2 DEF Made, ScansFrom
    <3> QED
      BY <3>1, <3>2
  <2> QED
    BY <1>10, <2>6 DEF ScansFrom, Own
<1>14. LaidOut' /\ MostImportant'
  BY <1>0, <1>1, <1>6, <1>10 DEF Made, LaidOut, MostImportant, Own
<1>15. CountRight'
  BY <1>0, <1>1, <1>6, <1>10 DEF Made, CountRight
<1>16. AllocatesAlone'
  BY <1>0, <1>1, <1>6, <1>10 DEF Made, AllocatesAlone, Creating, Making
<1> QED
  BY <1>6, <1>11, <1>12, <1>13, <1>14, <1>15, <1>16 DEF BootInv, Made

LEMMA CreatedKeeps ==
  ASSUME BootInv, NEW c \in Cores, Created(c)
  PROVE  BootInv'
<1> DEFINE h == Head(todo[c])
           rest == Tail(todo[c])
<1>0. BootTyped /\ Assigned /\ HandShake /\ Handling /\ Started /\ Made
  BY DEF BootInv
<1>1. /\ Step(c, "yield", "create") /\ pc[c] = "yield" /\ todo' = [todo EXCEPT ![c] = rest]
      /\ UNCHANGED <<seen, bss, tcb, executing, pmr, gic>>
  BY DEF Created, mem, Step
<1>2. /\ h \in Tasks /\ h \in ToSet(todo[c]) /\ CreatedBy[h] = c
      /\ rest \in Seq(Tasks) /\ IsInjective(rest) /\ ToSet(rest) = ToSet(todo[c]) \ {h}
  BY <1>0, <1>1, HeadIs DEF Making
<1> HIDE DEF rest
<1>3. /\ todo' \in [Cores -> Seq(Tasks)] /\ todo'[c] = rest
      /\ \A d \in Cores \ {c} : todo'[d] = todo[d]
  BY <1>0, <1>1, <1>2 DEF BootTyped
<1>4. /\ pc' \in [Cores -> Places] /\ pc'[c] = "create"
      /\ \A d \in Cores \ {c} : pc'[d] = pc[d] /\ pc[d] \notin Creating
  BY <1>0, <1>1, StepIs, StepTyped, OneCreates DEF Places, Creating, Making
<1>5. BootTyped'
  BY <1>0, <1>1, <1>3, <1>4 DEF BootTyped
<1>6. IdleGiven' <=> IdleGiven
  BY <1>1, <1>4 DEF IdleGiven, Cores
<1>7. Unmade' = Unmade \ {h} /\ h \in Unmade
  <2>1. h \in Unmade
    BY <1>2 DEF Unmade, Cores
  <2>2. \A d \in Cores \ {c} : h \notin ToSet(todo[d])
    BY <1>0, <1>2 DEF Assigned
  <2>3. ~IdleGiven => h # idle0
    <3>1. CASE c = 0
      BY <1>0, <1>2, <3>1 DEF Assigned
    <3>2. CASE c = 1
      BY <1>2, <3>2, CreatorOf
    <3> QED
      BY <3>1, <3>2 DEF Cores
  <2>4. CASE c = 0
    BY <1>2, <1>3, <1>6, <2>1, <2>2, <2>3, <2>4 DEF Unmade, Cores
  <2>5. CASE c = 1
    BY <1>2, <1>3, <1>6, <2>1, <2>2, <2>3, <2>5 DEF Unmade, Cores
  <2> QED
    BY <2>1, <2>4, <2>5 DEF Cores
<1>8. \A S \in SUBSET Making : "yield" \in S => Past(S)' = Past(S)
  <2> TAKE S \in SUBSET Making
  <2> HAVE "yield" \in S
  <2>1. {d \in Cores : pc[d] \in S} = {c} /\ {d \in Cores : pc'[d] \in S} = {}
    BY <1>1, <1>4 DEF Creating, Making
  <2>2. Past(S) = (Tasks \ Unmade) \cup {h}
    BY <2>1 DEF Past
  <2>3. Past(S)' = Tasks \ Unmade'
    BY <2>1 DEF Past
  <2> QED
    BY <1>2, <1>7, <2>2, <2>3
<1>9. Laid' = Laid /\ Counted' = Counted /\ Chosen' = Chosen /\ Listed' = Listed
  BY <1>8 DEF Laid, Counted, Chosen, Listed, Making
<1>10. LaidOut' /\ MostImportant' /\ OnReadyLists' /\ ScansFrom'
  BY <1>0, <1>1, <1>9 DEF Made, LaidOut, MostImportant, OnReadyLists, ScansFrom, Own
<1>11. CountRight'
  BY <1>0, <1>1, <1>4, <1>9 DEF Made, CountRight
<1>12. AllocatesAlone'
  BY <1>0, <1>1, <1>4 DEF Made, AllocatesAlone, Creating, Making
<1>13. Assigned'
  BY <1>0, <1>2, <1>3, <1>4, <1>6 DEF Assigned, Making, Cores
<1>14. HandShake' /\ Started'
  <2>1. CASE c = 0
    BY <1>0, <1>1, <1>3, <1>4, <2>1 DEF HandShake, Started, Launching, Creating, Making, Cores
  <2>2. CASE c = 1
    BY <1>0, <1>1, <1>3, <1>4, <2>2 DEF HandShake, Started, Launching, Creating, Making, Cores
  <2> QED
    BY <2>1, <2>2 DEF Cores
<1>15. Handling'
  BY <1>0, <1>1, <1>4 DEF Handling, SetUp, Creating, Making
<1> QED
  BY <1>5, <1>10, <1>11, <1>12, <1>13, <1>14, <1>15 DEF BootInv, Made

-----------------------------------------------------------------------------
(* The invariant holds at first.                                            *)
LEMMA BootStarts ==
  ASSUME BootInit
  PROVE  BootInv
<1>1. /\ pc[0] = "reset" /\ pc[1] = "off" /\ todo[0] = MainTasks /\ todo[1] = SecondTasks
      /\ bss = Zeroes /\ pc \in [Cores -> Places]
  BY DEF BootInit, Cores, Places
<1>2. BootTyped
  <2>1. todo \in [Cores -> Seq(Tasks)]
    BY TasksCreated DEF BootInit
  <2>2. seen \in [Cores -> Nat] /\ pmr \in [Cores -> Nat]
    BY DEF BootInit
  <2>3. executing \in [Cores -> Tasks \cup {NoTask}] /\ gic \in [Cores -> [Vectors -> Nat]]
    BY DEF BootInit
  <2>4. tcb = [t \in Tasks |-> tcb[t]]
    BY DEF BootInit
  <2> QED
    BY <1>1, <2>1, <2>2, <2>3, <2>4, ZeroesTyped DEF BootTyped
<1>3. ~IdleGiven
  BY <1>1, ZeroesTyped DEF IdleGiven
<1>4. Unmade = Tasks
  BY <1>1, <1>3, CreatorOf DEF Unmade
<1>5. Assigned
  BY <1>1, <1>3, TasksCreated, CreatorOf DEF Assigned, Cores, Making
<1>6. HandShake /\ Started
  BY <1>1, ZeroesTyped DEF HandShake, Started, Launching, Creating, Making
<1>7. \A S \in SUBSET Making : Past(S) = {}
  BY <1>1, <1>4 DEF Past, Making, Cores
<1>8. Laid = {} /\ Counted = {} /\ Chosen = {} /\ Listed = {}
  BY <1>7 DEF Laid, Counted, Chosen, Listed, Making
<1>9. LaidOut /\ CountRight
  <2>1. Zeroes.count = 0 /\ \A c \in Cores : pc[c] # "counted"
    BY <1>1 DEF Zeroes, Cores
  <2> QED
    BY <1>1, <1>8, <2>1, FS_EmptySet DEF LaidOut, CountRight
<1>10. MostImportant /\ ScansFrom
  <2>1. \A c \in Cores : Zeroes.current[c] = NoTask /\ Zeroes.top[c] = 0
    BY DEF Zeroes
  <2> QED
    BY <1>1, <1>8, <2>1 DEF MostImportant, ScansFrom, Own
<1>11. OnReadyLists
  BY <1>1, <1>8, ZeroesReady DEF OnReadyLists
<1>12. AllocatesAlone
  <2>1. Zeroes.suspended = 0 /\ ~\E c \in Cores : pc[c] = "allocate"
    BY <1>1 DEF Zeroes, Cores
  <2> QED
    BY <1>1, <2>1 DEF AllocatesAlone
<1>13. Handling
  BY <1>1 DEF Handling, SetUp, Creating, Making, Launching, Cores
<1> QED
  BY <1>2, <1>5, <1>6, <1>9, <1>10, <1>11, <1>12, <1>13 DEF BootInv, Made

(* Every step keeps it that does not wipe .bss out.                         *)
LEMMA BootKept ==
  ASSUME BootInv, [BootNext]_boot, ~wiped'
  PROVE  BootInv'
<1>1. CASE UNCHANGED boot
  <2>1. UNCHANGED <<pc, todo, seen, bss, tcb, executing, pmr, gic>>
    BY <1>1 DEF boot, mem, cpu
  <2>2. (IdleGiven' <=> IdleGiven) /\ Unmade' = Unmade
    BY <2>1 DEF IdleGiven, Unmade
  <2>3. BootTyped' /\ Assigned' /\ HandShake' /\ Handling' /\ Started'
    BY <2>1, <2>2 DEF BootInv, BootTyped, Assigned, HandShake, Handling, SetUp, Started
  <2>4. Aside
    BY <2>1, <2>2 DEF Aside
  <2> QED
    BY <2>3, <2>4, AsideKeeps DEF BootInv
<1>2. CASE Core0
  BY <1>2, ResetKeeps, AwaitCore1Keeps, StartKeeps, ResetClockKeeps DEF Core0
<1>3. CASE AwaitCore0
  BY <1>3, AwaitCore0Keeps
<1>4. CASE \E c \in Cores : Core(c)
  BY <1>4, ZeroBssKeeps, EnterMainKeeps, SetupKeeps, AllocateKeeps, AllocatedKeeps,
     InitialiseKeeps, CountReadKeeps, CountWriteKeeps, TakeCurrentKeeps, LinkKeeps,
     CreatedKeeps, TellKeeps, InstallKeeps, EnableKeeps, FirstKeeps
  DEF Core
<1>5. CASE \E c \in Cores : \E v \in Vectors : vPortGICInterruptHandler(c, v)
  BY <1>5, InterruptKeeps
<1> QED
  BY <1>1, <1>2, <1>3, <1>4, <1>5 DEF BootNext

(* FromaSched begins where both cores have come to run their tasks.         *)
LEMMA BeginsThere ==
  ASSUME BootInv, Booted
  PROVE  Sched!Init
<1>0. BootTyped /\ HandShake /\ Made /\ Handling
  BY DEF BootInv
<1>1. /\ pc[0] = "run" /\ pc[1] = "run"
      /\ todo[0] = <<>> /\ todo[1] = <<>> /\ bss.started[1]
  BY <1>0 DEF Booted, HandShake, Launching, Creating, Making, Cores
<1>2. Laid = Tasks /\ Counted = Tasks /\ Chosen = Tasks /\ Listed = Tasks
  <2>1. Unmade = {}
    BY <1>1 DEF Unmade, IdleGiven, ToSet
  <2>2. \A S \in SUBSET Making : Past(S) = Tasks
    BY <1>1, <2>1 DEF Past, Making, Cores
  <2> QED
    BY <2>2 DEF Laid, Counted, Chosen, Listed, Making
<1>3. \A c \in Cores : bss.current[c] \in Own(Tasks, c)
  BY <1>0, <1>1, <1>2, HasCurrent DEF BootInv, Made, Launching, Cores
<1>4. \A c \in Cores : \A t \in Own(Tasks, c) : Priority[t] <= Priority[bss.current[c]]
  BY <1>0, <1>2, <1>3 DEF Made, MostImportant
<1>b. bss \in Variables
  BY <1>0 DEF BootTyped
<1>5. bss.current \in [Cores -> Tasks]
  BY <1>b, <1>3 DEF Variables, Own
<1>6. /\ bss.ready \in [Levels -> Seq(Tasks)]
      /\ \A p \in Levels : /\ IsInjective(bss.ready[p])
                           /\ ToSet(bss.ready[p]) = {t \in Tasks : Priority[t] = p}
  BY <1>0, <1>2, <1>b DEF Variables, Made, OnReadyLists
<1>7. \A p \in Levels : bss.ready[p] \in Sched!Orders({t \in Tasks : Priority[t] = p})
  <2> TAKE p \in Levels
  <2> DEFINE s == bss.ready[p]
             T == {t \in Tasks : Priority[t] = p}
  <2>1. s \in Seq(Tasks) /\ IsInjective(s) /\ ToSet(s) = T
    BY <1>6
  <2> HIDE DEF s, T
  <2>2. Cardinality(T) = Len(s) /\ Len(s) \in Nat
    BY <2>1, EntriesCounted
  <2>3. s \in [1 .. Len(s) -> T]
    BY <2>1, EntriesOf
  <2>4. Sched!IsInjective(s)
    BY <2>1 DEF Sched!IsInjective, IsInjective
  <2>5. Sched!Cardinality(T) = Cardinality(T)
    BY DEF Sched!Cardinality, Cardinality
  <2>6. s \in Sched!Orders(T)
    BY <2>2, <2>3, <2>4, <2>5 DEF Sched!Orders
  <2> QED
    BY <2>6 DEF s, T
<1>8. bss.ready \in [Levels -> UNION {Sched!Orders({t \in Tasks : Priority[t] = p}) :
                                        p \in Levels}]
  <2> DEFINE U == UNION {Sched!Orders({t \in Tasks : Priority[t] = p}) : p \in Levels}
  <2>1. \A p \in Levels : bss.ready[p] \in U
    BY <1>7
  <2> HIDE DEF U
  <2>2. bss.ready \in [Levels -> U]
    BY <1>6, <2>1
  <2> QED
    BY <2>2 DEF U
<1>9. bss.top = [c \in Cores |-> Priority[bss.current[c]]]
  <2>1. ASSUME NEW c \in Cores PROVE bss.top[c] = Priority[bss.current[c]]
    <3>1. \A t \in Tasks : Priority[t] \in Nat
      BY ConstantsTyped, BootAssumption
    <3>2. /\ \A t \in Own(Tasks, c) : Priority[t] <= bss.top[c]
          /\ bss.top[c] = 0 \/ \E t \in Own(Tasks, c) : Priority[t] = bss.top[c]
      BY <1>0, <1>2 DEF Made, ScansFrom
    <3>3. bss.top[c] \in Nat /\ Priority[bss.current[c]] \in Nat
      BY <1>b, <1>5, <3>1, ConstantsTyped DEF Variables
    <3>4. Priority[bss.current[c]] <= bss.top[c]
      BY <1>3, <3>2
    <3>5. bss.top[c] <= Priority[bss.current[c]]
      BY <1>4, <3>2, <3>3
    <3> QED
      BY <3>3, <3>4, <3>5
  <2>2. bss.top \in [Cores -> Levels]
    BY <1>b DEF Variables
  <2> QED
    BY <2>1, <2>2
<1>10. bss.suspended = 0
  BY <1>0, <1>1 DEF Made, AllocatesAlone, Cores
<1>11. executing = bss.current
  <2>1. \A c \in Cores : executing[c] = bss.current[c]
    BY <1>0, <1>1 DEF Handling, Cores
  <2>2. executing \in [Cores -> Tasks \cup {NoTask}]
    BY <1>0 DEF BootTyped
  <2> QED
    BY <1>5, <2>1, <2>2
<1>12. [c \in Cores |-> pmr[c] <= Kernel] = [c \in Cores |-> FALSE]
  <2>1. \A c \in Cores : ~(pmr[c] <= Kernel)
    BY <1>0, <1>1, ConstantsTyped DEF Handling, Cores, Kernel, Lowest
  <2>2. \A c \in Cores : (pmr[c] <= Kernel) = FALSE
    BY <2>1
  <2> QED
    BY <2>2
<1>13. Sched!Cores = Cores /\ Sched!Levels = Levels /\ Sched!Free = 2
  BY DEF Sched!Cores, Cores, Sched!Levels, Levels, Sched!Free
<1>14. \A c \in Cores : Sched!CreatedOn(c) = Own(Tasks, c)
  BY DEF Sched!CreatedOn, Own
<1>15. /\ bss.current \in [Sched!Cores -> Tasks]
       /\ \A c \in Sched!Cores :
            /\ bss.current[c] \in Sched!CreatedOn(c)
            /\ \A t \in Sched!CreatedOn(c) : Priority[t] <= Priority[bss.current[c]]
  BY <1>3, <1>4, <1>5, <1>13, <1>14
<1>16. /\ bss.ready \in [Sched!Levels -> UNION {Sched!Orders({t \in Tasks : Priority[t] = p}) :
                                                p \in Sched!Levels}]
       /\ \A p \in Sched!Levels :
            bss.ready[p] \in Sched!Orders({t \in Tasks : Priority[t] = p})
  BY <1>7, <1>8, <1>13
<1>17. bss.top = [c \in Sched!Cores |-> Priority[bss.current[c]]]
  BY <1>9, <1>13
<1>18. [c \in Cores |-> pmr[c] <= Kernel] = [c \in Sched!Cores |-> FALSE]
  BY <1>12, <1>13
<1>19. /\ [c \in Cores |-> {}] = [c \in Sched!Cores |-> {}]
       /\ [c \in Cores |-> "none"] = [c \in Sched!Cores |-> "none"]
       /\ [c \in Cores |-> [level |-> 0, n |-> 0, pick |-> NoTask]]
          = [c \in Sched!Cores |-> [level |-> 0, n |-> 0, pick |-> NoTask]]
  BY <1>13
<1> QED
  BY <1>10, <1>11, <1>13, <1>15, <1>16, <1>17, <1>18, <1>19
  DEF Sched!Init, Sched!NoLocals

LEMMA BootImplies ==
  ASSUME BootInv
  PROVE  HandsOver
<1> SUFFICES ASSUME Booted, ~wiped PROVE HandsOver
  BY DEF HandsOver
<1>0. BootTyped /\ HandShake /\ Made /\ Handling /\ Started
  BY DEF BootInv
<1>1. /\ pc[0] = "run" /\ pc[1] = "run"
      /\ todo[0] = <<>> /\ todo[1] = <<>> /\ bss.started[1]
  BY <1>0 DEF Booted, HandShake, Launching, Creating, Making, Cores
<1>2. bss.count = Cardinality(Tasks)
  <2>1. Unmade = {}
    BY <1>1 DEF Unmade, IdleGiven, ToSet
  <2>2. Counted = Tasks
    BY <1>1, <2>1 DEF Counted, Past, Cores
  <2> QED
    BY <1>0, <2>2 DEF Made, CountRight
<1>3. bss.running
  BY <1>0, <1>1 DEF Started, Launching
<1>4. \A c \in Cores : /\ bss.handler[c][Yield] = "yield"
                       /\ \A v \in Vectors : bss.handler[c][v] # "null"
                       /\ gic[c][Yield] >= MaxSyscall
  BY <1>0, <1>1 DEF Handling, SetUp, Launching, Cores, Kernel, MaxSyscall
<1>5. bss.handler[1][SysTick] = "tick" /\ gic[1][SysTick] >= MaxSyscall
  BY <1>0, <1>1 DEF Handling, Cores, Kernel, MaxSyscall
<1> QED
  BY <1>2, <1>3, <1>4, <1>5, BeginsThere DEF HandsOver

(* What is wiped stays so.                                                  *)
LEMMA WipedStays == wiped /\ [BootNext]_boot => wiped'
BY DEF BootNext, Core0, AwaitCore0, Core, Reset_Handler, AwaitCore1, vTaskStartScheduler,
  ResetClock, ZeroBss, EnterMain, prvSetupHardware, Allocate, Allocated, Initialise,
  CountRead, CountWrite, TakeCurrent, prvAddTaskToReadyQueue, Created, TellCore,
  InstallHandlers, EnableGic, vPortStartFirstTask, vPortGICInterruptHandler, mem, boot

(* Unless core 1 has zeroed what core 0 had written, two cores that run     *)
(* tasks are in a state that FromaSched begins in: no task is lost or       *)
(* counted twice, and each core runs the most important of its own.         *)
THEOREM TheSchedulerBegins == BootSpec => []HandsOver
<1>1. BootInit => wiped \/ BootInv
  BY BootStarts
<1>2. (wiped \/ BootInv) /\ [BootNext]_boot => (wiped \/ BootInv)'
  BY BootKept, WipedStays
<1>3. wiped \/ BootInv => HandsOver
  BY BootImplies DEF HandsOver
<1> QED
  BY <1>1, <1>2, <1>3, PTL DEF BootSpec
=============================================================================
