------------------------ MODULE FromaCoRoutinesProofs ------------------------
(***************************************************************************)
(* Co-routines: proofs about FromaCoRoutines, for every number of          *)
(* co-routines, priority, capacity of the queue, width of the tick count   *)
(* and set of calls.                                                       *)
(***************************************************************************)
EXTENDS FromaCoRoutines, FromaSequences

-----------------------------------------------------------------------------
(* The inductive invariant, in seven parts.                                 *)

Typed ==
  /\ ticks \in Nat /\ count \in Nat /\ passed \in Nat
  /\ ready \in [Levels -> Seq(CoRoutines)] /\ top \in Levels
  /\ delayed \in [{1, 2} -> Seq(CoRoutines)] /\ current \in {1, 2}
  /\ wake \in [CoRoutines -> Nat]
  /\ pending \in Seq(CoRoutines) /\ waiting \in [Sides -> Seq(CoRoutines)]
  /\ messages \in 0 .. Capacity
  /\ state \in [CoRoutines -> {"start"} \cup Sides]
  /\ running \in CoRoutines \cup {None}
  /\ pc \in Places \cup CoRoutines
  /\ op \in ({"none"} \cup Sides) \X (0 .. Width - 1)
  /\ at \in Nat

(* No list repeats an item, and no two that share items share one.          *)
Once ==
  /\ \A p \in Levels : IsInjective(ready[p]) /\ \A c \in ToSet(ready[p]) : Priority[c] = p
  /\ \A n \in {1, 2} : IsInjective(delayed[n])
  /\ ToSet(delayed[1]) \cap ToSet(delayed[2]) = {}
  /\ \A s \in Sides : IsInjective(waiting[s])
  /\ ToSet(waiting["send"]) \cap ToSet(waiting["receive"]) = {}
  /\ IsInjective(pending) /\ pc \notin ToSet(pending)

(* Who waits for an event, or has been woken from it, is delayed, and who   *)
(* runs is ready: nothing is delayed before the first has run.              *)
Homes ==
  /\ \A c \in CoRoutines : /\ ~(InReady(c) /\ InDelayed(c))
                           /\ InEvent(c) \/ InPending(c) => InDelayed(c)
                           /\ ~(InEvent(c) /\ InPending(c))
  /\ pc # "creating" => running \in CoRoutines
  /\ pc \in {"run", "nop", "full"} => InReady(running)
  /\ pc = "nop" => op[1] \in Sides
  /\ pc = "creating" => \A n \in {1, 2} : delayed[n] = <<>>

(* A waiter goes on with the call in which it blocked, and is to return     *)
(* from first.                                                              *)
Resumes ==
  \A s \in Sides : \A c \in ToSet(waiting[s]) :
    ~(c = running /\ pc \in Listing) => state[c] = s

(* The sender that is being listed is on no event list until it is linked;  *)
(* then it is on its list, which keeps an entry even if an interrupt takes  *)
(* the sender off it, and the iterator is within the list.                  *)
Inserting ==
  /\ pc \in Listing => /\ op[1] = "send" /\ op[2] > 0
                       /\ running \notin ToSet(waiting["receive"])
  /\ pc \in {"walk", "step", "link"} =>
       /\ at <= Len(waiting["send"])
       /\ InDelayed(running) /\ ~InEvent(running) /\ ~InPending(running)
  /\ pc = "step" => at = 0 \/ at < Len(waiting["send"])
  /\ pc \in {"linked", "listed", "counting"} => waiting["send"] # <<>>

(* NoLostWakeup, of a sender that is being listed as well.                  *)
Unserved(s) == waiting[s] # <<>> \/ (s = "send" /\ pc \in Listing)
Excused(s) == torn \/ (late /\ s = "send")
Served ==
  \A s \in Sides :
    Unserved(s) /\ ~Excused(s) => Supply(s) <= Cardinality(OnTheirWay(s))

(* The cycle of the count that count is in: a co-routine on the current     *)
(* list wakes later in it, one on the other list in the next; both lists    *)
(* are in the order of the times.                                           *)
Begin == count - W(count)
InOrder(s) == \A i, j \in DOMAIN s : i <= j => wake[s[i]] <= wake[s[j]]
InCycles ==
  /\ \A c \in ToSet(delayed[current]) :
       /\ count <= wake[c] /\ wake[c] < Begin + Width
       /\ pc # "due" => count < wake[c]
  /\ \A c \in ToSet(delayed[overflow]) :
       Begin + Width <= wake[c] /\ wake[c] < Begin + 2 * Width
  /\ \A n \in {1, 2} : InOrder(delayed[n])

IInv == Typed /\ Once /\ Homes /\ Resumes /\ InCycles /\ Inserting /\ Served

-----------------------------------------------------------------------------
(* The constants.                                                           *)
LEMMA ConstantsTyped ==
  /\ Priority \in [CoRoutines -> Levels] /\ 0 \in Levels /\ Levels \subseteq Nat
  /\ Width \in Nat /\ Width > 1 /\ Capacity \in Nat /\ Capacity > 0
  /\ None \notin CoRoutines /\ CoRoutines \cap Places = {}
  /\ IsFiniteSet(CoRoutines)
BY CoRoutinesAssumption DEF Priority, Levels

(* What a portTickType holds of a time in the cycle of c, or in the next.   *)
LEMMA Cycles ==
  ASSUME NEW c \in Nat
  PROVE  LET b == c - W(c)
         IN  /\ b \in Nat /\ b <= c /\ c < b + Width /\ W(c) \in 0 .. Width - 1
             /\ \A x \in Nat : b <= x /\ x < b + Width => W(x) = x - b
             /\ \A x \in Nat : b + Width <= x /\ x < b + 2 * Width => W(x) = x - b - Width
<1> DEFINE n == Width
<1>1. n \in Nat \ {0}
  BY ConstantsTyped
<1> HIDE DEF n
<1> DEFINE b == c - (c % n)
<1>2. /\ b \in Nat /\ b <= c /\ c < b + n /\ c % n \in 0 .. n - 1
      /\ \A x \in Nat : b <= x /\ x < b + n => x % n = x - b
      /\ \A x \in Nat : b + n <= x /\ x < b + 2 * n => x % n = x - b - n
  BY <1>1, CycleOf, Zenon
<1> QED
  BY <1>2 DEF W, n

LEMMA Wrapped == \A x \in Nat : W(x) \in Nat
<1> TAKE x \in Nat
<1>1. x % Width \in 0 .. Width - 1 /\ Width \in Nat
  BY ConstantsTyped, Division
<1> QED
  BY <1>1 DEF W

-----------------------------------------------------------------------------
(* What the list operations do.                                             *)

LEMMA SidesAre == Sides = {"send", "receive"} /\ \A s \in Sides : Other(s) \in Sides /\ Other(s) # s
BY DEF Sides, Other

(* prvAddCoRoutineToReadyQueue.                                             *)
LEMMA ReadyJoined ==
  ASSUME Typed, Once, NEW c \in CoRoutines, ~InReady(c), AddToReady(c)
  PROVE  /\ ready' \in [Levels -> Seq(CoRoutines)] /\ top' \in Levels
         /\ \A p \in Levels : /\ IsInjective(ready'[p])
                              /\ \A d \in ToSet(ready'[p]) : Priority[d] = p
         /\ \A d \in CoRoutines : InReady(d)' <=> InReady(d) \/ d = c
<1> DEFINE q == Priority[c]
<1>1. q \in Levels /\ \A d \in CoRoutines : Priority[d] \in Levels
  BY ConstantsTyped
<1>2. ready[q] \in Seq(CoRoutines) /\ IsInjective(ready[q]) /\ c \notin ToSet(ready[q])
  BY <1>1 DEF Typed, Once, InReady
<1>3. /\ Append(ready[q], c) \in Seq(CoRoutines) /\ IsInjective(Append(ready[q], c))
      /\ ToSet(Append(ready[q], c)) = ToSet(ready[q]) \cup {c}
  BY <1>2, AppendNew
<1>4. /\ ready' \in [Levels -> Seq(CoRoutines)] /\ ready'[q] = Append(ready[q], c)
      /\ \A p \in Levels : p # q => ready'[p] = ready[p]
  BY <1>1, <1>3 DEF Typed, AddToReady
<1>5. top' \in Levels
  BY <1>1 DEF Typed, AddToReady
<1>6. \A p \in Levels : ToSet(ready'[p]) = ToSet(ready[p]) \cup (IF p = q THEN {c} ELSE {})
  BY <1>3, <1>4
<1>7. \A p \in Levels : /\ IsInjective(ready'[p])
                        /\ \A d \in ToSet(ready'[p]) : Priority[d] = p
  BY <1>1, <1>3, <1>4, <1>6 DEF Once
<1>8. \A d \in CoRoutines : InReady(d)' <=> InReady(d) \/ d = c
  BY <1>1, <1>6 DEF InReady
<1> QED
  BY <1>4, <1>5, <1>7, <1>8

(* A list that entries leave stays in order.                                *)
LEMMA LeavesInOrder ==
  ASSUME NEW s \in Seq(CoRoutines), wake \in [CoRoutines -> Nat], InOrder(s),
         NEW r \in Seq(CoRoutines), NEW f \in [1 .. Len(r) -> 1 .. Len(s)],
         \A i, j \in 1 .. Len(r) : i < j => f[i] < f[j],
         \A i \in 1 .. Len(r) : r[i] = s[f[i]]
  PROVE  InOrder(r)
<1>1. DOMAIN r = 1 .. Len(r) /\ DOMAIN s = 1 .. Len(s) /\ Len(r) \in Nat /\ Len(s) \in Nat
  OBVIOUS
<1>2. ASSUME NEW i \in 1 .. Len(r), NEW j \in 1 .. Len(r), i <= j
      PROVE  wake[r[i]] <= wake[r[j]]
  <2>1. f[i] \in 1 .. Len(s) /\ f[j] \in 1 .. Len(s)
    OBVIOUS
  <2>2. f[i] <= f[j]
    <3>1. CASE i = j
      BY <2>1, <3>1
    <3>2. CASE i < j
      BY <2>1, <3>2
    <3> QED
      BY <1>1, <1>2, <3>1, <3>2
  <2>3. wake[s[f[i]]] <= wake[s[f[j]]]
    BY <1>1, <2>1, <2>2 DEF InOrder
  <2> QED
    BY <2>3
<1> QED
  BY <1>1, <1>2 DEF InOrder

LEMMA DropInOrder ==
  ASSUME NEW s \in Seq(CoRoutines), wake \in [CoRoutines -> Nat], IsInjective(s), InOrder(s),
         NEW c
  PROVE  /\ Drop(s, c) \in Seq(CoRoutines) /\ IsInjective(Drop(s, c))
         /\ ToSet(Drop(s, c)) = ToSet(s) \ {c} /\ InOrder(Drop(s, c))
<1> DEFINE T == {c}
           r == Without(s, T)
<1> HIDE DEF T
<1>1. r \in Seq(CoRoutines) /\ IsInjective(r) /\ ToSet(r) = ToSet(s) \ T
  BY WithoutOnce
<1>2. /\ r \in Seq(CoRoutines) /\ ToSet(r) = ToSet(s) \ T
      /\ \E f \in [1 .. Len(r) -> 1 .. Len(s)] :
           /\ \A i, j \in 1 .. Len(r) : i < j => f[i] < f[j]
           /\ \A i \in 1 .. Len(r) : r[i] = s[f[i]]
  BY WithoutEntries
<1> HIDE DEF r
<1>3. InOrder(r)
  <2>1. PICK f \in [1 .. Len(r) -> 1 .. Len(s)] :
          /\ \A i, j \in 1 .. Len(r) : i < j => f[i] < f[j]
          /\ \A i \in 1 .. Len(r) : r[i] = s[f[i]]
    BY <1>2
  <2> QED
    BY <1>1, <2>1, LeavesInOrder
<1> QED
  BY <1>1, <1>3 DEF Drop, r, T

LEMMA TailInOrder ==
  ASSUME NEW s \in Seq(CoRoutines), wake \in [CoRoutines -> Nat], IsInjective(s), InOrder(s),
         s # <<>>
  PROVE  /\ Tail(s) \in Seq(CoRoutines) /\ IsInjective(Tail(s))
         /\ Head(s) \in ToSet(s) /\ Head(s) \in CoRoutines
         /\ ToSet(Tail(s)) = ToSet(s) \ {Head(s)} /\ InOrder(Tail(s))
         /\ \A c \in ToSet(s) : wake[Head(s)] <= wake[c]
<1>1. /\ Tail(s) \in Seq(CoRoutines) /\ IsInjective(Tail(s)) /\ Head(s) \in ToSet(s)
      /\ ToSet(Tail(s)) = ToSet(s) \ {Head(s)}
  BY TailOnce
<1>2. /\ Len(s) \in Nat /\ Len(s) > 0 /\ Len(Tail(s)) = Len(s) - 1 /\ Head(s) = s[1]
      /\ \A i \in 1 .. Len(Tail(s)) : Tail(s)[i] = s[i + 1]
  OBVIOUS
<1> DEFINE r == Tail(s)
           f == [i \in 1 .. Len(r) |-> i + 1]
<1>3. InOrder(r)
  <2>1. f \in [1 .. Len(r) -> 1 .. Len(s)]
    BY <1>2
  <2>2. \A i, j \in 1 .. Len(r) : i < j => f[i] < f[j]
    BY <1>2
  <2>3. \A i \in 1 .. Len(r) : r[i] = s[f[i]]
    BY <1>2
  <2> HIDE DEF f
  <2> QED
    BY <1>1, <2>1, <2>2, <2>3, LeavesInOrder
<1>4. \A c \in ToSet(s) : wake[s[1]] <= wake[c]
  <2>1. DOMAIN s = 1 .. Len(s) /\ ToSet(s) = {s[n] : n \in 1 .. Len(s)}
    BY EntriesOf
  <2>2. \A n \in 1 .. Len(s) : wake[s[1]] <= wake[s[n]]
    BY <1>2, <2>1 DEF InOrder
  <2> QED
    BY <2>1, <2>2
<1>5. Head(s) \in CoRoutines
  BY <1>1, EntriesOf
<1> QED
  BY <1>1, <1>2, <1>3, <1>4, <1>5

-----------------------------------------------------------------------------
(* Numbers of co-routines: of some, of one more and of one less.            *)
LEMMA Numbers ==
  ASSUME NEW A, A \subseteq CoRoutines, NEW B, B \subseteq CoRoutines
  PROVE  /\ Cardinality(A) \in Nat /\ Cardinality(B) \in Nat
         /\ A \subseteq B => Cardinality(A) <= Cardinality(B)
         /\ \A x \in CoRoutines : x \notin A /\ A \cup {x} \subseteq B =>
              Cardinality(A) + 1 <= Cardinality(B)
         /\ \A x \in CoRoutines : A \ {x} \subseteq B =>
              Cardinality(A) <= Cardinality(B) + 1
<1>1. IsFiniteSet(A) /\ IsFiniteSet(B)
  BY ConstantsTyped, FS_Subset
<1>2. Cardinality(A) \in Nat /\ Cardinality(B) \in Nat
  BY <1>1, FS_CardinalityType
<1>3. A \subseteq B => Cardinality(A) <= Cardinality(B)
  BY <1>1, FS_Subset
<1>4. ASSUME NEW x \in CoRoutines, x \notin A, A \cup {x} \subseteq B
      PROVE  Cardinality(A) + 1 <= Cardinality(B)
  <2>1. Cardinality(A \cup {x}) = Cardinality(A) + 1
    BY <1>1, <1>4, FS_AddElement
  <2>2. Cardinality(A \cup {x}) <= Cardinality(B)
    BY <1>1, <1>4, FS_Subset
  <2> QED
    BY <2>1, <2>2
<1>5. ASSUME NEW x \in CoRoutines, A \ {x} \subseteq B
      PROVE  Cardinality(A) <= Cardinality(B) + 1
  <2>1. Cardinality(B \cup {x}) = IF x \in B THEN Cardinality(B) ELSE Cardinality(B) + 1
    BY <1>1, FS_AddElement
  <2>2. A \subseteq B \cup {x} /\ IsFiniteSet(B \cup {x})
    BY <1>1, <1>5, FS_AddElement
  <2>3. Cardinality(A) <= Cardinality(B \cup {x})
    BY <2>2, FS_Subset
  <2> QED
    BY <1>2, <2>1, <2>3
<1> QED
  BY <1>2, <1>3, <1>4, <1>5

(* The steps that move no messages and have nobody on its way give up.      *)
LEMMA NoneLost ==
  ASSUME Served, messages' = messages, messages \in 0 .. Capacity,
         late' = late, torn' = torn, pc \notin Listing, pc' \notin Listing,
         \A s \in Sides : /\ waiting'[s] # <<>> => waiting[s] # <<>>
                          /\ OnTheirWay(s) \subseteq OnTheirWay(s)'
  PROVE  Served'
<1> SUFFICES ASSUME NEW s \in Sides, Unserved(s)', ~Excused(s)'
             PROVE  Supply(s)' <= Cardinality(OnTheirWay(s)')
  BY DEF Served
<1>1. Supply(s)' = Supply(s) /\ Supply(s) \in Int
  BY ConstantsTyped DEF Supply
<1>2. OnTheirWay(s) \subseteq CoRoutines /\ OnTheirWay(s)' \subseteq CoRoutines
  BY DEF OnTheirWay
<1>3. Supply(s) <= Cardinality(OnTheirWay(s))
  <2>1. Unserved(s) /\ ~Excused(s)
    BY DEF Unserved, Excused
  <2> QED
    BY <2>1 DEF Served
<1> DEFINE A == OnTheirWay(s)
           B == OnTheirWay(s)'
<1>4. A \subseteq B /\ A \subseteq CoRoutines /\ B \subseteq CoRoutines
  BY <1>2
<1> HIDE DEF A, B
<1>5. Cardinality(A) \in Nat /\ Cardinality(B) \in Nat /\ Cardinality(A) <= Cardinality(B)
  BY <1>4, Numbers
<1> QED
  BY <1>1, <1>3, <1>5 DEF A, B

(* Who stays on a delayed list while the count does is in its cycle.        *)
LEMMA FewerInCycles ==
  ASSUME InCycles, current \in {1, 2}, count' = count, current' = current, wake' = wake,
         \A n \in {1, 2} : /\ InOrder(delayed[n])'
                           /\ ToSet(delayed'[n]) \subseteq ToSet(delayed[n]),
         pc = "due" => pc' = "due"
  PROVE  InCycles'
<1> DEFINE b == Begin
           o == overflow
<1>1. Begin' = b /\ overflow' = o /\ current \in {1, 2} /\ o \in {1, 2}
  BY DEF Begin, overflow
<1> HIDE DEF b, o
<1>2. \A c \in ToSet(delayed'[current]) :
        /\ count <= wake[c] /\ wake[c] < b + Width
        /\ pc' # "due" => count < wake[c]
  BY <1>1 DEF InCycles, b
<1>3. \A c \in ToSet(delayed'[o]) : b + Width <= wake[c] /\ wake[c] < b + 2 * Width
  BY <1>1 DEF InCycles, b, o
<1> QED
  BY <1>1, <1>2, <1>3 DEF InCycles

-----------------------------------------------------------------------------
(* A co-routine wakes: it leaves the delayed list and the list of those     *)
(* who wait with it, or of those an interrupt has woken.                    *)
Shrinks(c) ==
  /\ delayed' \in [{1, 2} -> Seq(CoRoutines)]
  /\ \A n \in {1, 2} : /\ IsInjective(delayed'[n]) /\ InOrder(delayed'[n])
                       /\ ToSet(delayed'[n]) = ToSet(delayed[n]) \ {c}
Forgets(c) ==
  /\ waiting' \in [Sides -> Seq(CoRoutines)]
  /\ \A s \in Sides : /\ IsInjective(waiting'[s])
                      /\ ToSet(waiting'[s]) = ToSet(waiting[s]) \ {c}
  /\ pending' \in Seq(CoRoutines) /\ IsInjective(pending')
  /\ ToSet(pending') = ToSet(pending) \ {c}
Woke(c) ==
  /\ InDelayed(c) /\ AddToReady(c) /\ Shrinks(c) /\ Forgets(c)
  /\ (pc = "due" /\ pc' = "due") \/ (pc = c /\ pc' = "pending")
  /\ UNCHANGED <<time, current, wake, messages, state, running, op, insertion>>

(* Where no sender is being listed, none is half listed.                    *)
LEMMA NoneInserting ==
  ASSUME pc' \notin Listing
  PROVE  Inserting'
BY DEF Inserting, Listing

LEMMA WokeKeeps ==
  ASSUME IInv, NEW c \in CoRoutines, Woke(c)
  PROVE  IInv'
<1>1. /\ Typed /\ Once /\ Homes /\ Resumes /\ InCycles /\ Served
      /\ ~InReady(c) /\ InDelayed(c)
  BY DEF IInv, Homes, Woke
<1>2. /\ ticks' = ticks /\ count' = count /\ passed' = passed /\ current' = current
      /\ wake' = wake /\ messages' = messages /\ state' = state /\ running' = running
      /\ op' = op /\ at' = at /\ late' = late /\ torn' = torn
  BY DEF Woke, time, insertion
<1>3. /\ pc \in {"due"} \cup CoRoutines /\ pc' \in {"due", "pending"}
      /\ pc = "due" => pc' = "due"
      /\ "due" \notin CoRoutines /\ "pending" \notin CoRoutines
      /\ pc \notin {"creating", "run", "nop"}
      /\ pc \notin Listing /\ pc' \notin Listing
  BY ConstantsTyped DEF Woke, Places, Listing
<1>4. /\ ready' \in [Levels -> Seq(CoRoutines)] /\ top' \in Levels
      /\ \A p \in Levels : /\ IsInjective(ready'[p])
                           /\ \A d \in ToSet(ready'[p]) : Priority[d] = p
      /\ \A d \in CoRoutines : InReady(d)' <=> InReady(d) \/ d = c
  BY <1>1, ReadyJoined DEF Woke
<1>5. Shrinks(c) /\ Forgets(c)
  BY DEF Woke
<1>6. Typed'
  BY <1>1, <1>2, <1>3, <1>4, <1>5 DEF Typed, Shrinks, Forgets, Places
<1>7. \A d \in CoRoutines : /\ InDelayed(d)' <=> InDelayed(d) /\ d # c
                            /\ InEvent(d)' <=> InEvent(d) /\ d # c
  BY <1>5 DEF InDelayed, InEvent, Shrinks, Forgets
<1>8. \A d \in CoRoutines : InPending(d)' => InPending(d) /\ d # c
  BY <1>3, <1>5 DEF InPending, Forgets
<1>9. Once'
  <2>1. pc' \notin ToSet(pending')
    BY <1>1, <1>3, <1>5, EntriesOf DEF Forgets
  <2> QED
    BY <1>1, <1>4, <1>5, <2>1 DEF Once, Shrinks, Forgets, Sides
<1>10. Homes'
  <2>1. running' \in CoRoutines /\ pc' \notin {"creating", "run", "nop", "full"}
    BY <1>1, <1>2, <1>3 DEF Homes
  <2> QED
    BY <1>1, <1>4, <1>7, <1>8, <2>1 DEF Homes
<1>11. Resumes'
  BY <1>1, <1>2, <1>3, <1>5 DEF Resumes, Forgets
<1>12. InCycles'
  <2>1. \A n \in {1, 2} : InOrder(delayed[n])'
    BY <1>2, <1>5 DEF InOrder, Shrinks
  <2>2. \A n \in {1, 2} : ToSet(delayed'[n]) \subseteq ToSet(delayed[n])
    BY <1>5 DEF Shrinks
  <2> QED
    BY <1>1, <1>2, <1>3, <2>1, <2>2, FewerInCycles DEF Typed
<1>13. Served'
  <2>1. \A s \in Sides : waiting'[s] # <<>> => waiting[s] # <<>>
    BY <1>1, <1>5, NoEntries DEF Typed, Forgets
  <2>2. \A s \in Sides : OnTheirWay(s) \subseteq OnTheirWay(s)'
    BY <1>2, <1>3, <1>5 DEF OnTheirWay, Forgets
  <2> QED
    BY <1>1, <1>2, <1>3, <2>1, <2>2, NoneLost DEF Typed
<1>14. Inserting'
  BY <1>3, NoneInserting
<1> QED
  BY <1>6, <1>9, <1>10, <1>11, <1>12, <1>13, <1>14 DEF IInv


LEMMA MovePendingWakes ==
  ASSUME IInv, MovePending
  PROVE  pc \in CoRoutines /\ Woke(pc)
<1> DEFINE c == pc
<1>1. Typed /\ Once /\ Homes /\ InCycles /\ c \in CoRoutines
  BY DEF IInv, MovePending
<1>2. InPending(c)
  BY DEF InPending
<1>3. InDelayed(c) /\ c \notin ToSet(pending) /\ \A s \in Sides : c \notin ToSet(waiting[s])
  BY <1>1, <1>2 DEF Homes, Once, InEvent
<1>4. Shrinks(c)
  <2>1. ASSUME NEW n \in {1, 2}
        PROVE  LET s == Drop(delayed[n], c)
               IN  /\ s \in Seq(CoRoutines) /\ IsInjective(s)
                   /\ ToSet(s) = ToSet(delayed[n]) \ {c} /\ InOrder(s)
    <3>1. delayed[n] \in Seq(CoRoutines) /\ IsInjective(delayed[n]) /\ InOrder(delayed[n])
      BY <1>1 DEF Typed, Once, InCycles
    <3>2. wake \in [CoRoutines -> Nat]
      BY <1>1 DEF Typed
    <3> QED
      BY <3>1, <3>2, DropInOrder
  <2>2. delayed' = [n \in {1, 2} |-> Drop(delayed[n], c)]
    BY DEF MovePending
  <2> QED
    BY <2>1, <2>2 DEF Shrinks
<1>5. Forgets(c)
  <2>1. waiting' = waiting /\ pending' = pending
    BY DEF MovePending, queue
  <2> QED
    BY <1>1, <1>3, <2>1 DEF Forgets, Typed, Once
<1> QED
  BY <1>1, <1>3, <1>4, <1>5 DEF Woke, MovePending, time, queue

LEMMA FirstIs ==
  ASSUME Typed, Once, InCycles, delayed[current] # <<>>
  PROVE  /\ First \in CoRoutines /\ First \in ToSet(delayed[current])
         /\ Tail(delayed[current]) \in Seq(CoRoutines) /\ IsInjective(Tail(delayed[current]))
         /\ InOrder(Tail(delayed[current]))
         /\ ToSet(Tail(delayed[current])) = ToSet(delayed[current]) \ {First}
         /\ \A c \in ToSet(delayed[current]) : wake[First] <= wake[c]
<1>1. delayed[current] \in Seq(CoRoutines) /\ IsInjective(delayed[current])
      /\ InOrder(delayed[current]) /\ wake \in [CoRoutines -> Nat]
  BY DEF Typed, Once, InCycles
<1> QED
  BY <1>1, TailInOrder DEF First

LEMMA WakeDelayedWakes ==
  ASSUME IInv, WakeDelayed
  PROVE  First \in CoRoutines /\ Woke(First)
<1> DEFINE c == First
<1>1. Typed /\ Once /\ Homes /\ InCycles
  BY DEF IInv
<1>2. delayed[current] # <<>> /\ current \in {1, 2}
  BY <1>1 DEF WakeDelayed, IsDue, Typed
<1>3. /\ c \in CoRoutines /\ c \in ToSet(delayed[current])
      /\ Tail(delayed[current]) \in Seq(CoRoutines) /\ IsInjective(Tail(delayed[current]))
      /\ InOrder(Tail(delayed[current]))
      /\ ToSet(Tail(delayed[current])) = ToSet(delayed[current]) \ {c}
  BY <1>1, <1>2, FirstIs
<1>4. InDelayed(c)
  BY <1>2, <1>3 DEF InDelayed
<1>5. delayed' = [delayed EXCEPT ![current] = Tail(delayed[current])]
  BY DEF WakeDelayed
<1> HIDE DEF c
<1>6. Shrinks(c)
  <2>1. delayed'[current] = Tail(delayed[current])
        /\ \A n \in {1, 2} : n # current => delayed'[n] = delayed[n]
        /\ delayed' \in [{1, 2} -> Seq(CoRoutines)]
    BY <1>1, <1>2, <1>3, <1>5 DEF Typed
  <2>2. \A n \in {1, 2} : n # current => c \notin ToSet(delayed[n])
    BY <1>1, <1>2, <1>3 DEF Once
  <2> QED
    BY <1>1, <1>3, <2>1, <2>2 DEF Shrinks, Once, InCycles
<1>7. Forgets(c)
  <2>1. \A s \in Sides : waiting[s] \in Seq(CoRoutines) /\ IsInjective(waiting[s])
    BY <1>1 DEF Typed, Once
  <2>2. \A s \in Sides : /\ Drop(waiting[s], c) \in Seq(CoRoutines)
                         /\ IsInjective(Drop(waiting[s], c))
                         /\ ToSet(Drop(waiting[s], c)) = ToSet(waiting[s]) \ {c}
    BY <2>1, WithoutOnce DEF Drop
  <2>3. pending \in Seq(CoRoutines) /\ IsInjective(pending)
    BY <1>1 DEF Typed, Once
  <2>4. /\ Drop(pending, c) \in Seq(CoRoutines) /\ IsInjective(Drop(pending, c))
        /\ ToSet(Drop(pending, c)) = ToSet(pending) \ {c}
    BY <2>3, WithoutOnce DEF Drop
  <2>5. waiting' = [s \in Sides |-> Drop(waiting[s], c)] /\ pending' = Drop(pending, c)
    BY DEF WakeDelayed, c
  <2> QED
    BY <2>2, <2>4, <2>5 DEF Forgets
<1>8. AddToReady(c) /\ pc = "due" /\ pc' = "due"
      /\ UNCHANGED <<time, current, wake, messages, state, running, op, insertion>>
  BY DEF WakeDelayed, c, Goto
<1> QED
  BY <1>3, <1>4, <1>6, <1>7, <1>8, Zenon DEF Woke, c

(* The first is woken at its time: it is in the cycle of the count, and the *)
(* count has not gone past it.                                              *)
LEMMA DueNow ==
  ASSUME Typed, Once, InCycles, delayed[current] # <<>>
  PROVE  /\ W(count) >= W(wake[First]) => count = wake[First]
         /\ W(count) < W(wake[First]) =>
              \A c \in ToSet(delayed[current]) : count < wake[c]
<1> DEFINE b == Begin
           f == wake[First]
<1>1. /\ First \in CoRoutines /\ First \in ToSet(delayed[current])
      /\ \A c \in ToSet(delayed[current]) : f <= wake[c]
  BY FirstIs
<1>2. count <= f /\ f < b + Width /\ f \in Nat /\ count \in Nat /\ Width \in Nat
  BY <1>1, ConstantsTyped DEF InCycles, Typed
<1>3. \A c \in ToSet(delayed[current]) : c \in CoRoutines
  <2>1. delayed[current] \in Seq(CoRoutines)
    BY DEF Typed
  <2> QED
    BY <2>1, EntriesOf
<1>4. \A c \in ToSet(delayed[current]) : wake[c] \in Nat
  BY <1>3 DEF Typed
<1>5. b \in Nat /\ b <= count /\ \A x \in Nat : b <= x /\ x < b + Width => W(x) = x - b
  BY <1>2, Cycles DEF Begin
<1> HIDE DEF b, f
<1>6. W(count) = count - b /\ W(f) = f - b
  BY <1>2, <1>5
<1>7. W(count) >= W(f) => count = f
  BY <1>2, <1>5, <1>6
<1>8. W(count) < W(f) => count < f
  BY <1>2, <1>5, <1>6
<1> QED
  BY <1>1, <1>2, <1>4, <1>7, <1>8 DEF f


(* The steps that leave the lists and the messages as they are.             *)
LEMMA SameHomes ==
  ASSUME ready' = ready, delayed' = delayed, waiting' = waiting
  PROVE  \A c \in CoRoutines : /\ InReady(c)' <=> InReady(c)
                               /\ InDelayed(c)' <=> InDelayed(c)
                               /\ InEvent(c)' <=> InEvent(c)
BY DEF InReady, InDelayed, InEvent

Quiet ==
  /\ UNCHANGED <<ready, delayed, pending, waiting, messages, wake, state, torn>>
  /\ ticks' \in Nat /\ passed' \in Nat /\ top' \in Levels
  /\ op' \in ({"none"} \cup Sides) \X (0 .. Width - 1)
  /\ pc \in Places /\ pc' \in Places
  /\ running' \in CoRoutines
  /\ pc' # "creating"
  /\ pc' \in {"run", "nop", "full"} => InReady(running')
  /\ pc' = "nop" => op'[1] \in Sides
  /\ pc \in Listing => running' = running /\ pc' \in Listing
  /\ at' \in Nat /\ Inserting'

LEMMA QuietKeeps ==
  ASSUME IInv, Quiet, UNCHANGED <<count, current>>,
         pc = "due" => pc' = "due",
         \A s \in Sides : Unserved(s)' /\ ~Excused(s)' =>
           \/ Unserved(s) /\ ~Excused(s) /\ OnTheirWay(s) \subseteq OnTheirWay(s)'
           \/ Supply(s) <= 0
  PROVE  IInv'
<1>1. Typed /\ Once /\ Homes /\ Resumes /\ InCycles /\ Served
  BY DEF IInv
<1>2. /\ ready' = ready /\ delayed' = delayed /\ pending' = pending /\ waiting' = waiting
      /\ messages' = messages /\ wake' = wake /\ state' = state
      /\ count' = count /\ current' = current
  BY DEF Quiet
<1>3. pc \notin CoRoutines /\ pc' \notin CoRoutines
  BY ConstantsTyped DEF Quiet
<1>4. Typed'
  BY <1>1, <1>2 DEF Typed, Quiet
<1>5. Once'
  <2>1. pc' \notin ToSet(pending')
    BY <1>1, <1>2, <1>3, EntriesOf DEF Typed
  <2> QED
    BY <1>1, <1>2, <2>1 DEF Once
<1>6. Homes'
  <2>1. \A c \in CoRoutines : /\ InReady(c)' <=> InReady(c)
                              /\ InDelayed(c)' <=> InDelayed(c)
                              /\ InEvent(c)' <=> InEvent(c)
    BY <1>2, SameHomes
  <2>2. \A c \in CoRoutines : InPending(c)' <=> InPending(c)
    BY <1>2, <1>3 DEF InPending
  <2>3. pc' \in {"run", "nop", "full"} => InReady(running)'
    BY <1>2 DEF Quiet, InReady
  <2> QED
    BY <1>1, <2>1, <2>2, <2>3 DEF Homes, Quiet
<1>7. Resumes'
  BY <1>1, <1>2 DEF Resumes, Quiet
<1>8. InCycles'
  <2>1. \A n \in {1, 2} : InOrder(delayed[n])'
    BY <1>1, <1>2 DEF InCycles, InOrder
  <2> QED
    BY <1>1, <1>2, <2>1, FewerInCycles DEF Typed
<1>9. Served'
  <2> SUFFICES ASSUME NEW s \in Sides, Unserved(s)', ~Excused(s)'
               PROVE  Supply(s)' <= Cardinality(OnTheirWay(s)')
    BY DEF Served
  <2> DEFINE A == OnTheirWay(s)
             B == OnTheirWay(s)'
  <2>1. A \subseteq CoRoutines /\ B \subseteq CoRoutines
    BY DEF OnTheirWay
  <2>2. Supply(s)' = Supply(s) /\ Supply(s) \in Int
    BY <1>1, <1>2, ConstantsTyped DEF Supply, Typed
  <2>3. (A \subseteq B /\ Supply(s) <= Cardinality(A)) \/ Supply(s) <= 0
    BY <1>1 DEF Served
  <2> HIDE DEF A, B
  <2>4. Cardinality(A) \in Nat /\ Cardinality(B) \in Nat
        /\ (A \subseteq B => Cardinality(A) <= Cardinality(B))
    BY <2>1, Numbers
  <2>5. Supply(s)' <= Cardinality(B)
    BY <2>2, <2>3, <2>4
  <2> QED
    BY <2>5 DEF B
<1> QED
  BY <1>4, <1>5, <1>6, <1>7, <1>8, <1>9 DEF IInv, Quiet


LEMMA QuietSteps ==
  ASSUME IInv, \/ Begins \/ ReadTicks \/ NoneReady \/ Proceed \/ Missed
               \/ \E s \in Sides, n \in 0 .. Width - 1 : Call(s, n)
               \/ /\ pc = "run" /\ op[1] \in Sides /\ ~CanDo(op[1]) /\ op' = <<"none", 0>>
                  /\ UNCHANGED <<time, lists, queue, state, running, pc, insertion>>
  PROVE  IInv'
<1>1. Typed /\ Homes /\ 0 \in Levels /\ Width \in Nat /\ Width > 1 /\ 0 \in 0 .. Width - 1
  BY ConstantsTyped DEF IInv
<1>2. /\ UNCHANGED <<ready, delayed, pending, waiting, messages, wake, state, count, current>>
      /\ ticks' = ticks /\ top' \in {top, 0} /\ UNCHANGED <<at, late, torn>>
  BY Zenon DEF Begins, ReadTicks, NoneReady, Proceed, Missed, Call, time, lists, queue, insertion
<1>3. passed' \in Nat
  <2>1. passed' \in {passed, W(ticks - count)}
    BY Zenon DEF Begins, ReadTicks, NoneReady, Proceed, Missed, Call, time
  <2>2. ticks - count \in Int
    BY <1>1 DEF Typed
  <2> DEFINE x == ticks - count
  <2> HIDE DEF x
  <2>3. W(x) \in Nat
    BY <1>1, <2>2 DEF W, x
  <2> QED
    BY <1>1, <2>1, <2>3 DEF Typed, x
<1>4. \/ pc \in {"creating", "idle"} /\ pc' = "pending" /\ running # None /\ UNCHANGED <<op, running>>
      \/ pc = "pending" /\ pc' = "count" /\ UNCHANGED <<op, running>>
      \/ pc = "count" /\ pc' = "idle" /\ UNCHANGED <<op, running>>
      \/ pc = "run" /\ pc' = "nop" /\ op[1] \in Sides /\ UNCHANGED <<op, running>>
      \/ pc = "nop" /\ pc' = "run" /\ op' = <<"none", 0>> /\ ~CanDo(op[1]) /\ UNCHANGED running
      \/ /\ pc = "run" /\ pc' = "run" /\ op' = <<"none", 0>> /\ ~CanDo(op[1])
         /\ op[1] \in Sides /\ UNCHANGED running
      \/ /\ pc = "run" /\ pc' = "run" /\ op[1] = "none" /\ UNCHANGED running
         /\ \E s \in Sides, n \in 0 .. Width - 1 : op' = <<s, n>>
  BY Zenon DEF Begins, ReadTicks, NoneReady, Proceed, Missed, Call, Goto
<1>5. op' \in ({"none"} \cup Sides) \X (0 .. Width - 1)
  <2>1. <<"none", 0>> \in ({"none"} \cup Sides) \X (0 .. Width - 1)
    BY <1>1
  <2>2. \A s \in Sides, n \in 0 .. Width - 1 : <<s, n>> \in ({"none"} \cup Sides) \X (0 .. Width - 1)
    OBVIOUS
  <2> QED
    BY <1>1, <1>4, <2>1, <2>2, Zenon DEF Typed
<1>6. /\ pc \in Places /\ pc' \in Places /\ pc' # "creating" /\ running' = running
      /\ pc # "due" /\ pc \notin Listing /\ pc' \notin Listing
      /\ Inserting'
  <2>1. pc \notin Listing /\ pc' \notin Listing
    BY <1>4 DEF Listing
  <2> QED
    BY <1>4, <2>1, NoneInserting DEF Places
<1>7. running \in CoRoutines
  BY <1>1, <1>4 DEF Homes, Typed
<1>8. pc' \in {"run", "nop", "full"} => pc \in {"run", "nop"}
  BY <1>4
<1>9. pc' = "nop" => op'[1] \in Sides
  BY <1>4
<1>10. Quiet
  BY <1>1, <1>2, <1>3, <1>5, <1>6, <1>7, <1>8, <1>9 DEF Quiet, Typed, Homes
<1>11. ASSUME NEW s \in Sides
       PROVE  OnTheirWay(s) \subseteq OnTheirWay(s)' \/ Supply(s) <= 0
  <2>1. CASE pc' \notin {"run", "nop"}
    BY <1>2, <1>6, <2>1 DEF OnTheirWay
  <2>2. CASE op[1] \notin Sides /\ pc = "run"
    BY <1>2, <1>6, <2>2 DEF OnTheirWay
  <2>3. CASE pc \in {"run", "nop"} /\ op' = op
    BY <1>2, <1>6, <2>3 DEF OnTheirWay
  <2>4. CASE /\ pc \in {"run", "nop"} /\ op' = <<"none", 0>>
             /\ op[1] \in Sides /\ ~CanDo(op[1])
    <3>1. CASE op[1] = s
      BY <1>1, <2>4, <3>1, ConstantsTyped DEF Typed, Supply, CanDo, Sides
    <3>2. CASE op[1] # s
      BY <1>2, <1>6, <2>4, <3>2 DEF OnTheirWay
    <3> QED
      BY <3>1, <3>2
  <2>5. pc = "nop" => op[1] \in Sides
    BY <1>1 DEF Homes
  <2>6. "none" \notin Sides
    BY DEF Sides
  <2> QED
    BY <1>4, <2>1, <2>2, <2>3, <2>4, <2>5, <2>6
<1>12. \A s \in Sides : Unserved(s)' /\ ~Excused(s)' => Unserved(s) /\ ~Excused(s)
  BY <1>2, <1>6 DEF Unserved, Excused
<1> QED
  BY <1>2, <1>6, <1>10, <1>11, <1>12, QuietKeeps


LEMMA TickKeeps ==
  ASSUME IInv, Tick
  PROVE  IInv'
<1>1. /\ ticks' = ticks + 1 /\ ticks \in Nat
      /\ UNCHANGED <<count, passed, lists, queue, state, running, pc, op, insertion>>
  BY DEF IInv, Typed, Tick
<1>2. /\ UNCHANGED <<count, passed, ready, top, delayed, current, wake, pending, waiting,
                     messages, state, running, pc, op, at, late, torn>>
      /\ ticks' \in Nat
  BY <1>1 DEF lists, queue, insertion
<1>3. Typed' /\ Once' /\ Homes' /\ Resumes'
  BY <1>2 DEF IInv, Typed, Once, Homes, Resumes, InReady, InDelayed, InEvent, InPending
<1>4. InCycles' /\ Served'
  BY <1>2, Zenon DEF IInv, InCycles, InOrder, Begin, overflow, Served, Unserved, Excused, Supply,
                     OnTheirWay
<1>5. Inserting'
  BY <1>2, Zenon DEF IInv, Inserting, InDelayed, InEvent, InPending
<1> QED
  BY <1>3, <1>4, <1>5 DEF IInv

LEMMA CreateKeeps ==
  ASSUME IInv, NEW c \in CoRoutines, xCoRoutineCreate(c)
  PROVE  IInv'
<1>1. Typed /\ Once /\ Homes /\ Resumes /\ InCycles /\ Served
  BY DEF IInv
<1>2. /\ UNCHANGED <<ticks, count, passed, delayed, current, wake, pending, waiting, messages,
                     state, op, at, late, torn>>
      /\ pc = "creating" /\ pc' = "creating" /\ AddToReady(c)
      /\ running' \in {running, c}
  BY Zenon DEF xCoRoutineCreate, time, queue, Goto, insertion
<1>3. /\ ~InReady(c) /\ pc \notin CoRoutines /\ pc \notin Listing
      /\ \A n \in {1, 2} : delayed[n] = <<>> /\ ToSet(delayed[n]) = {}
  <2>1. ~InReady(c)
    BY ConstantsTyped DEF xCoRoutineCreate, InReady
  <2>2. \A n \in {1, 2} : delayed[n] = <<>>
    BY <1>1, <1>2 DEF Homes
  <2>3. pc \notin CoRoutines /\ pc \notin Listing
    BY <1>2, ConstantsTyped DEF Places, Listing
  <2> QED
    BY <2>1, <2>2, <2>3 DEF ToSet
<1>4. /\ ready' \in [Levels -> Seq(CoRoutines)] /\ top' \in Levels
      /\ \A p \in Levels : /\ IsInjective(ready'[p])
                           /\ \A d \in ToSet(ready'[p]) : Priority[d] = p
  BY <1>1, <1>2, <1>3, ReadyJoined
<1>5. Typed'
  BY <1>1, <1>2, <1>4 DEF Typed
<1>6. Once'
  BY <1>1, <1>2, <1>4 DEF Once
<1>7. Homes'
  <2>1. \A d \in CoRoutines : ~InDelayed(d) /\ ~InDelayed(d)'
    BY <1>2, <1>3 DEF InDelayed
  <2>2. \A d \in CoRoutines : /\ InEvent(d)' <=> InEvent(d)
                              /\ InPending(d)' <=> InPending(d)
    BY <1>2 DEF InEvent, InPending
  <2>3. \A n \in {1, 2} : delayed'[n] = <<>>
    BY <1>2, <1>3
  <2> QED
    BY <1>1, <1>2, <2>1, <2>2, <2>3 DEF Homes
<1>8. Resumes'
  BY <1>1, <1>2, <1>3 DEF Resumes
<1>9. InCycles'
  BY <1>1, <1>2, Zenon DEF InCycles, InOrder, Begin, overflow
<1>10. Served'
  <2>1. \A s \in Sides : OnTheirWay(s) \subseteq OnTheirWay(s)'
    BY <1>2, <1>3 DEF OnTheirWay
  <2> QED
    BY <1>1, <1>2, <1>3, <2>1, NoneLost DEF Typed
<1>11. Inserting'
  BY <1>2, <1>3, NoneInserting
<1> QED
  BY <1>5, <1>6, <1>7, <1>8, <1>9, <1>10, <1>11 DEF IInv

LEMMA TakePendingKeeps ==
  ASSUME IInv, TakePending
  PROVE  IInv'
<1>1. Typed /\ Once /\ Homes /\ Resumes /\ InCycles /\ Served
  BY DEF IInv
<1>2. /\ UNCHANGED <<ticks, count, passed, ready, top, delayed, current, wake, waiting,
                     messages, state, running, op, at, late, torn>>
      /\ pc = "pending" /\ pc' = Head(pending) /\ pending' = Tail(pending) /\ pending # <<>>
  BY Zenon DEF TakePending, time, lists, Goto, insertion
<1>3. /\ pending' \in Seq(CoRoutines) /\ IsInjective(pending') /\ pc' \in ToSet(pending)
      /\ ToSet(pending') = ToSet(pending) \ {pc'}
  BY <1>1, <1>2, TailOnce DEF Typed, Once
<1>4. /\ pc' \in CoRoutines /\ "pending" \notin CoRoutines
      /\ pc' \notin {"creating", "run", "nop", "due", "full"}
      /\ pc \notin Listing /\ pc' \notin Listing
  <2>1. pc' \in CoRoutines
    BY <1>1, <1>3, EntriesOf DEF Typed
  <2> QED
    BY <1>2, <2>1, ConstantsTyped DEF Places, Listing
<1>5. Typed'
  BY <1>1, <1>2, <1>3, <1>4 DEF Typed
<1>6. Once'
  BY <1>1, <1>2, <1>3 DEF Once
<1>7. Homes'
  <2>1. \A c \in CoRoutines : /\ InReady(c)' <=> InReady(c)
                              /\ InDelayed(c)' <=> InDelayed(c)
                              /\ InEvent(c)' <=> InEvent(c)
    BY <1>2, SameHomes
  <2>2. \A c \in CoRoutines : InPending(c)' <=> InPending(c)
    BY <1>2, <1>3, <1>4 DEF InPending
  <2> QED
    BY <1>1, <1>2, <1>4, <2>1, <2>2 DEF Homes
<1>8. Resumes'
  BY <1>1, <1>2, <1>4 DEF Resumes
<1>9. InCycles'
  <2>1. \A n \in {1, 2} : InOrder(delayed[n])'
    BY <1>1, <1>2 DEF InCycles, InOrder
  <2> QED
    BY <1>1, <1>2, <2>1, FewerInCycles DEF Typed
<1>10. Served'
  <2>1. \A s \in Sides : OnTheirWay(s) \subseteq OnTheirWay(s)'
    BY <1>2, <1>4 DEF OnTheirWay
  <2> QED
    BY <1>1, <1>2, <1>4, <2>1, NoneLost DEF Typed
<1>11. Inserting'
  BY <1>4, NoneInserting
<1> QED
  BY <1>5, <1>6, <1>7, <1>8, <1>9, <1>10, <1>11 DEF IInv


(* The scan down from uxTopCoRoutineReadyPriority ends at the highest       *)
(* priority that has a co-routine ready, if one has.                        *)
LEMMA HighestFound ==
  ASSUME Typed, \E p \in 0 .. top : ready[p] # <<>>
  PROVE  Highest \in Levels /\ ready[Highest] # <<>>
<1>1. top \in Nat /\ 0 .. top \subseteq Levels
  BY CoRoutinesAssumption DEF Typed, Levels
<1> DEFINE B == {n \in 0 .. top : ready[top - n] # <<>>}
<1>2. B \subseteq 0 .. top /\ B # {}
  <2>1. PICK p \in 0 .. top : ready[p] # <<>>
    OBVIOUS
  <2>2. top - p \in 0 .. top /\ top - (top - p) = p
    BY <1>1
  <2>3. top - p \in B
    BY <2>1, <2>2
  <2> QED
    BY <2>3
<1>3. PICK m \in B : \A n \in B : m <= n
  <2> HIDE DEF B
  <2> QED
    BY <1>1, <1>2, Least
<1>4. top - m \in 0 .. top /\ ready[top - m] # <<>>
  BY <1>1
<1>5. ASSUME NEW r \in top - m + 1 .. top PROVE ready[r] = <<>>
  <2>1. top - r \in 0 .. top /\ top - r < m /\ r = top - (top - r)
    BY <1>1, <1>5
  <2>2. m \in 0 .. top /\ ~(m <= top - r)
    BY <1>1, <1>2, <1>3, <2>1
  <2>3. top - r \notin B
    BY <1>3, <2>2
  <2> QED
    BY <2>1, <2>3
<1>6. \E p \in 0 .. top : ready[p] # <<>> /\ \A r \in p + 1 .. top : ready[r] = <<>>
  BY <1>4, <1>5
<1>7. Highest \in 0 .. top /\ ready[Highest] # <<>>
  BY <1>6 DEF Highest
<1> QED
  BY <1>1, <1>7

LEMMA SelectKeeps ==
  ASSUME IInv, Select
  PROVE  IInv'
<1>1. Typed /\ Once /\ Homes /\ Resumes /\ InCycles /\ Served
  BY DEF IInv
<1> DEFINE p == Highest
           h == Head(ready[p])
<1>2. p \in Levels /\ ready[p] # <<>>
  BY <1>1, HighestFound DEF Select
<1>3. /\ UNCHANGED <<ticks, count, passed, delayed, current, wake, pending, waiting, messages,
                     state, at, late, torn>>
      /\ pc = "count" /\ pc' = "run" /\ top' = p /\ running' = h
      /\ ready' = [ready EXCEPT ![p] = Append(Tail(ready[p]), h)]
      /\ op' = IF state[running'] \in Sides THEN <<state[running'], 0>> ELSE <<"none", 0>>
  BY DEF Select, time, queue, Goto, insertion
<1>4. ready[p] \in Seq(CoRoutines) /\ IsInjective(ready[p])
  BY <1>1, <1>2 DEF Typed, Once
<1>5. /\ Append(Tail(ready[p]), h) \in Seq(CoRoutines)
      /\ IsInjective(Append(Tail(ready[p]), h))
      /\ ToSet(Append(Tail(ready[p]), h)) = ToSet(ready[p])
      /\ h \in ToSet(ready[p]) /\ h \in CoRoutines
  <2> DEFINE r == ready[p]
  <2>1. r \in Seq(CoRoutines) /\ IsInjective(r) /\ r # <<>>
    BY <1>2, <1>4
  <2> HIDE DEF r
  <2>2. /\ Append(Tail(r), Head(r)) \in Seq(CoRoutines)
        /\ IsInjective(Append(Tail(r), Head(r)))
        /\ ToSet(Append(Tail(r), Head(r))) = ToSet(r)
    BY <2>1, RotateOnce
  <2>3. Head(r) \in ToSet(r) /\ Head(r) \in CoRoutines
    BY <2>1, TailOnce, EntriesOf
  <2> QED
    BY <2>2, <2>3 DEF r
<1> HIDE DEF p, h
<1>6. /\ ready' \in [Levels -> Seq(CoRoutines)]
      /\ \A q \in Levels : /\ ToSet(ready'[q]) = ToSet(ready[q])
                           /\ IsInjective(ready'[q])
  BY <1>1, <1>2, <1>3, <1>5 DEF Typed, Once
<1>7. \A c \in CoRoutines : Priority[c] \in Levels
  BY ConstantsTyped
<1>8. \A c \in CoRoutines : /\ InReady(c)' <=> InReady(c)
                            /\ InDelayed(c)' <=> InDelayed(c)
                            /\ InEvent(c)' <=> InEvent(c)
  BY <1>3, <1>6, <1>7 DEF InReady, InDelayed, InEvent
<1>9. /\ pc \notin CoRoutines /\ pc' \notin CoRoutines /\ pc' \in Places
      /\ pc \notin Listing /\ pc' \notin Listing
  BY <1>3, ConstantsTyped DEF Places, Listing
<1>10. InReady(h)
  BY <1>1, <1>2, <1>5 DEF InReady, Once
<1>11. state[running'] \in {"start"} \cup Sides /\ running' \in CoRoutines
  BY <1>1, <1>3, <1>5 DEF Typed
<1>12. op' \in ({"none"} \cup Sides) \X (0 .. Width - 1)
  <2>1. 0 \in 0 .. Width - 1
    BY ConstantsTyped
  <2> QED
    BY <1>3, <1>11, <2>1
<1>13. Typed'
  BY <1>1, <1>2, <1>3, <1>6, <1>9, <1>11, <1>12 DEF Typed
<1>14. Once'
  <2>1. pc' \notin ToSet(pending')
    BY <1>1, <1>3, <1>9, EntriesOf DEF Typed
  <2> QED
    BY <1>1, <1>3, <1>6, <2>1 DEF Once
<1>15. Homes'
  <2>1. \A c \in CoRoutines : InPending(c)' <=> InPending(c)
    BY <1>3, <1>9 DEF InPending
  <2>2. InReady(running)'
    <3>1. Priority' = Priority /\ running' = h /\ h \in CoRoutines
      BY <1>3, <1>5 DEF h
    <3>2. InReady(running)' <=> h \in ToSet(ready'[Priority[h]])
      BY <3>1 DEF InReady
    <3>3. h \in ToSet(ready[Priority[h]])
      BY <1>10 DEF InReady
    <3> QED
      BY <1>6, <1>7, <3>1, <3>2, <3>3
  <2> QED
    BY <1>1, <1>3, <1>8, <1>11, <2>1, <2>2 DEF Homes
<1>16. Resumes'
  BY <1>1, <1>3, <1>9 DEF Resumes
<1>17. InCycles'
  <2>1. \A n \in {1, 2} : InOrder(delayed[n])'
    BY <1>1, <1>3 DEF InCycles, InOrder
  <2> QED
    BY <1>1, <1>3, <2>1, FewerInCycles DEF Typed
<1>18. Served'
  <2>1. ASSUME NEW s \in Sides PROVE OnTheirWay(s) \subseteq OnTheirWay(s)'
    <3>1. state[running'] = s => op'[1] = s
      BY <1>3
    <3> QED
      BY <1>3, <1>9, <3>1 DEF OnTheirWay
  <2> QED
    BY <1>1, <1>3, <1>9, <2>1, NoneLost DEF Typed
<1>19. Inserting'
  BY <1>9, NoneInserting
<1> QED
  BY <1>13, <1>14, <1>15, <1>16, <1>17, <1>18, <1>19 DEF IInv


(* The rest of the invariant, when the count and the place change only.     *)
LEMMA CountingKeeps ==
  ASSUME IInv, count' \in Nat, passed' \in Nat, current' \in {1, 2},
         UNCHANGED <<ticks, ready, top, delayed, wake, queue, state, running, op,
                     insertion>>,
         pc \in {"count", "due"}, pc' \in {"count", "due"}
  PROVE  Typed' /\ Once' /\ Homes' /\ Resumes' /\ Inserting' /\ Served'
<1>1. Typed /\ Once /\ Homes /\ Resumes /\ Served
  BY DEF IInv
<1>2. UNCHANGED <<pending, waiting, messages, at, late, torn>>
  BY DEF queue, insertion
<1>3. /\ pc \notin CoRoutines /\ pc' \notin CoRoutines /\ pc' \in Places
      /\ pc \notin Listing /\ pc' \notin Listing
  BY ConstantsTyped DEF Places, Listing
<1>4. Typed'
  BY <1>1, <1>2, <1>3 DEF Typed
<1>5. Once'
  <2>1. pc' \notin ToSet(pending')
    BY <1>1, <1>2, <1>3, EntriesOf DEF Typed
  <2> QED
    BY <1>1, <1>2, <2>1 DEF Once
<1>6. Homes'
  <2>1. \A c \in CoRoutines : /\ InReady(c)' <=> InReady(c)
                              /\ InDelayed(c)' <=> InDelayed(c)
                              /\ InEvent(c)' <=> InEvent(c)
    BY <1>2, SameHomes
  <2>2. \A c \in CoRoutines : InPending(c)' <=> InPending(c)
    BY <1>2, <1>3 DEF InPending
  <2> QED
    BY <1>1, <1>2, <2>1, <2>2 DEF Homes
<1>7. Resumes'
  BY <1>1, <1>2, <1>3 DEF Resumes
<1>8. Served'
  <2>1. \A s \in Sides : OnTheirWay(s) \subseteq OnTheirWay(s)'
    BY <1>2, <1>3 DEF OnTheirWay
  <2> QED
    BY <1>1, <1>2, <1>3, <2>1, NoneLost DEF Typed
<1>9. Inserting'
  BY <1>3, NoneInserting
<1> QED
  BY <1>4, <1>5, <1>6, <1>7, <1>8, <1>9

LEMMA NoneDueKeeps ==
  ASSUME IInv, NoneDue
  PROVE  IInv'
<1>1. Typed /\ Once /\ InCycles
  BY DEF IInv
<1>2. /\ UNCHANGED <<ticks, count, passed, ready, top, delayed, current, wake, queue, state,
                     running, op, insertion>>
      /\ pc = "due" /\ pc' = "count" /\ ~IsDue
  BY Zenon DEF NoneDue, time, lists, Goto
<1>3. Typed' /\ Once' /\ Homes' /\ Resumes' /\ Inserting' /\ Served'
  BY <1>1, <1>2, CountingKeeps DEF Typed
<1>4. \A c \in ToSet(delayed[current]) : count < wake[c]
  <2>1. CASE delayed[current] = <<>>
    BY <2>1 DEF ToSet
  <2>2. CASE delayed[current] # <<>>
    <3>1. W(count) < W(wake[First]) => \A c \in ToSet(delayed[current]) : count < wake[c]
      BY <1>1, <2>2, DueNow
    <3>2. ~(W(count) >= W(wake[First]))
      BY <1>2, <2>2 DEF IsDue
    <3>3. W(count) \in Nat /\ W(wake[First]) \in Nat
      <4>1. First \in CoRoutines
        BY <1>1, <2>2, FirstIs
      <4>2. count \in Nat /\ wake[First] \in Nat
        BY <1>1, <4>1 DEF Typed
      <4> QED
        BY <4>2, Cycles
    <3> QED
      BY <3>1, <3>2, <3>3
  <2> QED
    BY <2>1, <2>2
<1>5. InCycles'
  <2>1. Begin' = Begin /\ overflow' = overflow
    BY <1>2 DEF Begin, overflow
  <2>2. \A n \in {1, 2} : InOrder(delayed[n])'
    BY <1>1, <1>2 DEF InCycles, InOrder
  <2> QED
    BY <1>1, <1>2, <1>4, <2>1, <2>2 DEF InCycles
<1> QED
  BY <1>3, <1>5 DEF IInv

LEMMA CountTickKeeps ==
  ASSUME IInv, CountTick
  PROVE  IInv'
<1> DEFINE b == Begin
           o == overflow
           w == Width
<1>1. Typed /\ Once /\ InCycles /\ current \in {1, 2} /\ o \in {1, 2} /\ o # current
  BY DEF IInv, Typed, overflow
<1>2. /\ UNCHANGED <<ticks, ready, top, delayed, wake, queue, state, running, op, insertion>>
      /\ pc = "count" /\ pc' = "due" /\ passed > 0
      /\ count' = count + 1 /\ passed' = passed - 1
      /\ current' = IF W(count') = 0 THEN o ELSE current
  BY DEF CountTick, Goto
<1>3. count \in Nat /\ passed \in Nat /\ w \in Nat /\ w > 1
  BY <1>1, ConstantsTyped DEF Typed
<1>4. Typed' /\ Once' /\ Homes' /\ Resumes' /\ Inserting' /\ Served'
  <2>1. count' \in Nat /\ passed' \in Nat /\ current' \in {1, 2}
    BY <1>1, <1>2, <1>3
  <2> QED
    BY <1>2, <2>1, CountingKeeps
<1>5. /\ b \in Nat /\ b <= count /\ count < b + w
      /\ \A x \in Nat : b <= x /\ x < b + w => W(x) = x - b
      /\ \A x \in Nat : b + w <= x /\ x < b + 2 * w => W(x) = x - b - w
  BY <1>3, Cycles DEF Begin
<1>6. \A n \in {1, 2} : \A c \in ToSet(delayed[n]) : wake[c] \in Nat
  <2>1. \A n \in {1, 2} : delayed[n] \in Seq(CoRoutines)
    BY <1>1 DEF Typed
  <2>2. \A n \in {1, 2} : \A c \in ToSet(delayed[n]) : c \in CoRoutines
    BY <2>1, EntriesOf
  <2> QED
    BY <1>1, <2>2 DEF Typed
<1>7. /\ \A c \in ToSet(delayed[current]) : count < wake[c] /\ wake[c] < b + w
      /\ \A c \in ToSet(delayed[o]) : b + w <= wake[c] /\ wake[c] < b + 2 * w
      /\ \A n \in {1, 2} : InOrder(delayed[n])
  BY <1>1, <1>2 DEF InCycles
<1>8. Begin' = count' - W(count') /\ overflow' = 3 - current' /\ o = 3 - current
  BY DEF Begin, overflow
<1> HIDE DEF b, o, w
<1>9. \A n \in {1, 2} : InOrder(delayed[n])'
  BY <1>2, <1>7 DEF InOrder
<1>10. ASSUME count + 1 < b + w
      PROVE  /\ \A c \in ToSet(delayed'[current']) : count' <= wake'[c] /\ wake'[c] < Begin' + w
             /\ \A c \in ToSet(delayed'[overflow']) :
                  Begin' + w <= wake'[c] /\ wake'[c] < Begin' + 2 * w
  <2>1. W(count') = count' - b /\ W(count') # 0
    BY <1>2, <1>3, <1>5, <1>10
  <2>2. current' = current /\ Begin' = b /\ overflow' = o
    BY <1>2, <1>3, <1>5, <1>8, <2>1
  <2>3. \A c \in ToSet(delayed'[current']) : count' <= wake'[c] /\ wake'[c] < Begin' + w
    BY <1>1, <1>2, <1>3, <1>6, <1>7, <2>2
  <2>4. \A c \in ToSet(delayed'[overflow']) :
          Begin' + w <= wake'[c] /\ wake'[c] < Begin' + 2 * w
    BY <1>2, <1>7, <2>2
  <2> QED
    BY <2>3, <2>4
<1>11. ASSUME count + 1 = b + w
      PROVE  /\ \A c \in ToSet(delayed'[current']) : count' <= wake'[c] /\ wake'[c] < Begin' + w
             /\ \A c \in ToSet(delayed'[overflow']) :
                  Begin' + w <= wake'[c] /\ wake'[c] < Begin' + 2 * w
  <2>1. W(count') = 0
    BY <1>2, <1>3, <1>5, <1>11
  <2>2. current' = o /\ Begin' = b + w /\ overflow' = current
    BY <1>1, <1>2, <1>3, <1>5, <1>8, <1>11, <2>1
  <2>3. ToSet(delayed[current]) = {}
    BY <1>1, <1>3, <1>5, <1>6, <1>7, <1>11
  <2>4. \A c \in ToSet(delayed'[current']) : count' <= wake'[c] /\ wake'[c] < Begin' + w
    BY <1>1, <1>2, <1>3, <1>5, <1>6, <1>7, <1>11, <2>2
  <2>5. ToSet(delayed'[overflow']) = {}
    BY <1>2, <2>2, <2>3
  <2> QED
    BY <2>4, <2>5
<1>12. count + 1 < b + w \/ count + 1 = b + w
  BY <1>3, <1>5
<1>13. /\ \A c \in ToSet(delayed'[current']) : count' <= wake'[c] /\ wake'[c] < Begin' + w
       /\ \A c \in ToSet(delayed'[overflow']) :
            Begin' + w <= wake'[c] /\ wake'[c] < Begin' + 2 * w
  BY <1>10, <1>11, <1>12
<1>14. InCycles'
  BY <1>2, <1>9, <1>13 DEF InCycles, w
<1> QED
  BY <1>4, <1>14 DEF IInv


-----------------------------------------------------------------------------
(* A co-routine goes to sleep.                                              *)

LEMMA PlacedIs ==
  ASSUME NEW s \in Seq(CoRoutines), wake \in [CoRoutines -> Nat], NEW v \in Nat
  PROVE  /\ Placed(s, v) \in 0 .. Len(s)
         /\ \A m \in 1 .. Placed(s, v) : W(wake[s[m]]) <= W(v)
         /\ Placed(s, v) < Len(s) => W(wake[s[Placed(s, v) + 1]]) > W(v)
<1> DEFINE N == Len(s)
           f == [m \in 1 .. N |-> W(wake[s[m]])]
           P(n) == /\ \A m \in 1 .. n : W(wake[s[m]]) <= W(v)
                   /\ n < N => W(wake[s[n + 1]]) > W(v)
<1>1. N \in Nat /\ \A m \in 1 .. N : s[m] \in CoRoutines
  BY EntriesOf
<1>2. \A x \in Nat : W(x) \in Int
  BY Wrapped
<1>3. W(v) \in Int /\ \A m \in 1 .. N : f[m] \in Int
  BY <1>1, <1>2
<1>4. \E n \in 0 .. N : (\A m \in 1 .. n : f[m] <= W(v)) /\ (n < N => f[n + 1] > W(v))
  <2> HIDE DEF f, N
  <2> QED
    BY <1>1, <1>3, SortedPlace
<1>5. \E n \in 0 .. N : P(n)
  <2> HIDE DEF N
  <2>1. PICK n \in 0 .. N : (\A m \in 1 .. n : f[m] <= W(v)) /\ (n < N => f[n + 1] > W(v))
    BY <1>4
  <2>2. /\ \A m \in 1 .. n : f[m] = W(wake[s[m]])
        /\ n < N => f[n + 1] = W(wake[s[n + 1]])
    BY <1>1
  <2> QED
    BY <2>1, <2>2
<1>6. Placed(s, v) = CHOOSE n \in 0 .. N : P(n)
  BY DEF Placed
<1> HIDE DEF P
<1>7. Placed(s, v) \in 0 .. N /\ P(Placed(s, v))
  BY <1>5, <1>6
<1> QED
  BY <1>7 DEF P

LEMMA BehindIs ==
  ASSUME NEW s \in Seq(CoRoutines), NEW c \in CoRoutines
  PROVE  Behind(s, c) \in 0 .. Len(s)
<1> DEFINE N == Len(s)
           f == [m \in 1 .. N |-> 0 - Priority[s[m]]]
           v == 0 - Priority[c]
           P(n) == /\ \A m \in 1 .. n : Priority[s[m]] >= Priority[c]
                   /\ n < N => Priority[s[n + 1]] < Priority[c]
<1>1. N \in Nat /\ \A m \in 1 .. N : s[m] \in CoRoutines
  BY EntriesOf
<1>2. \A d \in CoRoutines : Priority[d] \in Int
  <2>1. \A d \in CoRoutines : Priority[d] \in Levels
    BY ConstantsTyped
  <2>2. Levels \subseteq Int
    BY DEF Levels
  <2> QED
    BY <2>1, <2>2
<1>3. v \in Int /\ \A m \in 1 .. N : f[m] \in Int
  BY <1>1, <1>2
<1>4. \E n \in 0 .. N : (\A m \in 1 .. n : f[m] <= v) /\ (n < N => f[n + 1] > v)
  <2> HIDE DEF f, N, v
  <2> QED
    BY <1>1, <1>3, SortedPlace
<1>5. \E n \in 0 .. N : P(n)
  <2> HIDE DEF N
  <2>1. PICK n \in 0 .. N : (\A m \in 1 .. n : f[m] <= v) /\ (n < N => f[n + 1] > v)
    BY <1>4
  <2>2. \A m \in 1 .. n : Priority[s[m]] >= Priority[c]
    <3> TAKE m \in 1 .. n
    <3>1. m \in 1 .. N /\ s[m] \in CoRoutines
      BY <1>1
    <3>2. f[m] = 0 - Priority[s[m]] /\ f[m] <= v
      BY <2>1, <3>1
    <3>3. Priority[s[m]] \in Int /\ Priority[c] \in Int /\ v = 0 - Priority[c]
      BY <1>2, <3>1
    <3> HIDE DEF f, v
    <3> QED
      BY <3>2, <3>3
  <2>3. n < N => Priority[s[n + 1]] < Priority[c]
    BY <1>1, <1>2, <2>1
  <2> QED
    BY <2>2, <2>3
<1>6. Behind(s, c) = CHOOSE n \in 0 .. N : P(n)
  BY DEF Behind
<1> HIDE DEF P
<1> QED
  BY <1>5, <1>6

(* The cycle of a time to wake at is the one Later tells, and within it the *)
(* wrapped times compare as the times do.                                   *)
LEMMA LaterIs ==
  ASSUME Typed, Once, InCycles, pc # "due", NEW n \in 1 .. Width - 1
  PROVE  LET v == count + n
             l == IF Later(v) THEN overflow ELSE current
         IN  /\ v \in Nat /\ l \in {1, 2}
             /\ l = current => count < v /\ v < Begin + Width
             /\ l # current => Begin + Width <= v /\ v < Begin + 2 * Width
             /\ \A c \in ToSet(delayed[l]) : W(wake[c]) <= W(v) <=> wake[c] <= v
<1> DEFINE v == count + n
           l == IF Later(v) THEN overflow ELSE current
           b == Begin
           w == Width
<1>1. count \in Nat /\ w \in Nat /\ w > 1 /\ v \in Nat /\ count < v /\ n \in 1 .. w - 1
  BY ConstantsTyped DEF Typed
<1>2. /\ b \in Nat /\ b <= count /\ count < b + w
      /\ \A x \in Nat : b <= x /\ x < b + w => W(x) = x - b
      /\ \A x \in Nat : b + w <= x /\ x < b + 2 * w => W(x) = x - b - w
  BY <1>1, Cycles DEF Begin
<1>3. current \in {1, 2} /\ overflow \in {1, 2} /\ overflow # current
  BY DEF Typed, overflow
<1>4. \A m \in {1, 2} : \A c \in ToSet(delayed[m]) : wake[c] \in Nat
  <2>1. \A m \in {1, 2} : delayed[m] \in Seq(CoRoutines)
    BY DEF Typed
  <2>2. \A m \in {1, 2} : \A c \in ToSet(delayed[m]) : c \in CoRoutines
    BY <2>1, EntriesOf
  <2> QED
    BY <2>2 DEF Typed
<1>5. /\ \A c \in ToSet(delayed[current]) : count < wake[c] /\ wake[c] < b + w
      /\ \A c \in ToSet(delayed[overflow]) : b + w <= wake[c] /\ wake[c] < b + 2 * w
  BY DEF InCycles
<1>6. v = count + n
  OBVIOUS
<1> HIDE DEF b, w, v
<1>7. W(count) = count - b
  BY <1>1, <1>2
<1>8. CASE v < b + w
  <2>1. W(v) = v - b /\ ~Later(v)
    BY <1>1, <1>2, <1>7, <1>8 DEF Later
  <2>2. l = current
    BY <2>1
  <2>3. \A c \in ToSet(delayed[current]) : W(wake[c]) <= W(v) <=> wake[c] <= v
    BY <1>1, <1>2, <1>3, <1>4, <1>5, <2>1
  <2> QED
    BY <1>1, <1>3, <1>8, <2>2, <2>3 DEF v, b, w
<1>9. CASE ~(v < b + w)
  <2>1. b + w <= v /\ v < b + 2 * w
    BY <1>1, <1>2, <1>6, <1>9
  <2>2. W(v) = v - b - w
    BY <1>1, <1>2, <2>1
  <2>3. Later(v)
    BY <1>1, <1>2, <1>6, <1>7, <2>2 DEF Later
  <2>4. l = overflow
    BY <2>3
  <2>5. \A c \in ToSet(delayed[overflow]) : W(wake[c]) <= W(v) <=> wake[c] <= v
    BY <1>1, <1>2, <1>3, <1>4, <1>5, <2>2
  <2> QED
    BY <1>1, <1>3, <2>1, <2>4, <2>5 DEF v, b, w
<1> QED
  BY <1>8, <1>9

(* vCoRoutineAddToDelayedList, called by the running co-routine.            *)
LEMMA Sleeps ==
  ASSUME Typed, Once, Homes, InCycles, pc \in {"run", "full"}, NEW n \in 1 .. Width - 1,
         AddToDelayedList(n), count' = count, pc' # "due"
  PROVE  /\ ready' \in [Levels -> Seq(CoRoutines)]
         /\ \A p \in Levels : /\ IsInjective(ready'[p])
                              /\ \A d \in ToSet(ready'[p]) : Priority[d] = p
         /\ \A d \in CoRoutines : /\ InReady(d)' <=> InReady(d) /\ d # running
                                  /\ InDelayed(d)' <=> InDelayed(d) \/ d = running
         /\ delayed' \in [{1, 2} -> Seq(CoRoutines)]
         /\ \A m \in {1, 2} : IsInjective(delayed'[m])
         /\ ToSet(delayed'[1]) \cap ToSet(delayed'[2]) = {}
         /\ wake' \in [CoRoutines -> Nat]
         /\ InCycles'
<1> DEFINE r == running
           v == count + n
           l == IF Later(v) THEN overflow ELSE current
           s == delayed[l]
           k == Placed(s, v)
<1>1. /\ r \in CoRoutines /\ InReady(r) /\ ~InDelayed(r)
  BY DEF Homes
<1>2. /\ ready' = [ready EXCEPT ![Priority[r]] = Drop(ready[Priority[r]], r)]
      /\ wake' = [wake EXCEPT ![r] = v]
      /\ delayed' = [delayed EXCEPT ![l] = InsertAt(s, k + 1, r)]
      /\ current' = current /\ top' = top
  BY DEF AddToDelayedList
<1>3. /\ v \in Nat /\ l \in {1, 2}
      /\ l = current => count < v /\ v < Begin + Width
      /\ l # current => Begin + Width <= v /\ v < Begin + 2 * Width
      /\ \A c \in ToSet(delayed[l]) : W(wake[c]) <= W(v) <=> wake[c] <= v
  BY LaterIs
<1>4. /\ current \in {1, 2} /\ overflow \in {1, 2} /\ overflow # current
      /\ \A m \in {1, 2} : m # current <=> m = overflow
      /\ overflow' = overflow /\ Begin' = Begin
  BY <1>2 DEF Typed, overflow, Begin
<1> HIDE DEF r, v, l
<1>5. /\ s \in Seq(CoRoutines) /\ IsInjective(s) /\ InOrder(s) /\ wake \in [CoRoutines -> Nat]
      /\ r \notin ToSet(s)
  BY <1>1, <1>3 DEF Typed, Once, InCycles, InDelayed
<1>6. /\ k \in 0 .. Len(s)
      /\ \A m \in 1 .. k : W(wake[s[m]]) <= W(v)
      /\ k < Len(s) => W(wake[s[k + 1]]) > W(v)
  <2> HIDE DEF s
  <2> QED
    BY <1>3, <1>5, PlacedIs
<1>7. /\ wake' \in [CoRoutines -> Nat]
      /\ \A c \in CoRoutines : wake'[c] = IF c = r THEN v ELSE wake[c]
  BY <1>1, <1>2, <1>3, <1>5
<1> DEFINE q == InsertAt(s, k + 1, r)
<1>8. q \in Seq(CoRoutines) /\ IsInjective(q) /\ ToSet(q) = ToSet(s) \cup {r}
  <2> HIDE DEF s, k
  <2>1. r \in CoRoutines \ ToSet(s)
    BY <1>1, <1>5
  <2>2. q \in Seq(CoRoutines)
    BY <1>1, <1>5, <1>6, InsertEntries
  <2>3. IsInjective(q) /\ ToSet(q) = ToSet(s) \cup {r}
    BY <1>5, <1>6, <2>1, InsertNew
  <2> QED
    BY <2>2, <2>3
<1>9. OrderedBy(q, wake')
  <2>1. DOMAIN s = 1 .. Len(s) /\ Len(s) \in Nat /\ ToSet(s) = {s[m] : m \in 1 .. Len(s)}
    BY <1>5, EntriesOf
  <2>2. \A i, j \in 1 .. Len(s) : i <= j => wake[s[i]] <= wake[s[j]]
    BY <1>5, <2>1 DEF InOrder
  <2>3. \A m \in 1 .. Len(s) : W(wake[s[m]]) <= W(v) <=> wake[s[m]] <= v
    BY <1>3, <2>1
  <2> HIDE DEF s, k
  <2>4. \A m \in 1 .. k : m \in 1 .. Len(s)
    BY <1>6, <2>1
  <2>5. \A m \in 1 .. k : wake[s[m]] <= v
    BY <1>6, <2>3, <2>4
  <2>6. k < Len(s) => wake[s[k + 1]] > v
    <3>1. HAVE k < Len(s)
    <3>2. k + 1 \in 1 .. Len(s)
      BY <1>6, <2>1, <3>1
    <3>3. W(wake[s[k + 1]]) > W(v) /\ s[k + 1] \in CoRoutines
      BY <1>5, <1>6, <3>1, <3>2, EntriesOf
    <3>4. wake[s[k + 1]] \in Nat
      BY <1>5, <3>3
    <3>5. W(wake[s[k + 1]]) \in Nat /\ W(v) \in Nat
      BY <1>3, <3>4, Wrapped
    <3> QED
      BY <1>3, <2>3, <3>2, <3>3, <3>4, <3>5
  <2>7. OrderedBy(s, wake) /\ PlaceOfTime(s, wake, v, k)
    BY <1>6, <2>2, <2>5, <2>6 DEF OrderedBy, PlaceOfTime
  <2> QED
    BY <1>1, <1>2, <1>3, <1>5, <2>7, InsertInOrder
<1> HIDE DEF q, s, k
<1>10. /\ delayed' \in [{1, 2} -> Seq(CoRoutines)] /\ delayed'[l] = q
       /\ \A m \in {1, 2} : m # l => delayed'[m] = delayed[m]
  BY <1>2, <1>3, <1>8 DEF Typed, q
<1>11. \A m \in {1, 2} : ToSet(delayed'[m]) =
         IF m = l THEN ToSet(delayed[m]) \cup {r} ELSE ToSet(delayed[m])
  BY <1>8, <1>10 DEF s
<1>12. \A m \in {1, 2} : IsInjective(delayed'[m])
  BY <1>8, <1>10 DEF Once
<1>13. ToSet(delayed'[1]) \cap ToSet(delayed'[2]) = {}
  <2>1. \A m \in {1, 2} : r \notin ToSet(delayed[m])
    BY <1>1 DEF InDelayed
  <2> QED
    BY <1>3, <1>11, <2>1 DEF Once
<1>14. \A d \in CoRoutines : InDelayed(d)' <=> InDelayed(d) \/ d = r
  BY <1>3, <1>11 DEF InDelayed
<1>15. /\ ready' \in [Levels -> Seq(CoRoutines)]
       /\ \A p \in Levels : /\ IsInjective(ready'[p])
                            /\ ToSet(ready'[p]) = ToSet(ready[p]) \ {r}
  <2> DEFINE p == Priority[r]
             t == ready[p]
  <2>1. p \in Levels /\ \A d \in CoRoutines : Priority[d] \in Levels
    BY <1>1, ConstantsTyped
  <2> HIDE DEF p
  <2>2. t \in Seq(CoRoutines) /\ IsInjective(t)
    BY <2>1 DEF Typed, Once
  <2> HIDE DEF t
  <2>3. /\ Drop(t, r) \in Seq(CoRoutines) /\ IsInjective(Drop(t, r))
        /\ ToSet(Drop(t, r)) = ToSet(t) \ {r}
    BY <2>2, WithoutOnce DEF Drop
  <2>4. /\ ready' \in [Levels -> Seq(CoRoutines)] /\ ready'[p] = Drop(t, r)
        /\ \A i \in Levels : i # p => ready'[i] = ready[i]
    BY <1>2, <2>1, <2>3 DEF Typed, t, p
  <2>5. \A i \in Levels : i # p => r \notin ToSet(ready[i])
    BY DEF Once, p
  <2> QED
    BY <2>1, <2>3, <2>4, <2>5 DEF Once, t
<1>16. \A p \in Levels : \A d \in ToSet(ready'[p]) : Priority[d] = p
  BY <1>15 DEF Once
<1>17. \A d \in CoRoutines : InReady(d)' <=> InReady(d) /\ d # r
  <2>1. \A d \in CoRoutines : Priority[d] \in Levels
    BY ConstantsTyped
  <2> QED
    BY <1>15, <2>1 DEF InReady
<1>18. InCycles'
  <2>1. \A m \in {1, 2} : InOrder(delayed[m])'
    <3>1. ASSUME NEW m \in {1, 2}, m = l PROVE InOrder(delayed[m])'
      <4>1. delayed'[m] = q /\ DOMAIN q = 1 .. Len(q)
        BY <1>8, <1>10, <3>1, EntriesOf
      <4> QED
        BY <1>9, <4>1 DEF InOrder, OrderedBy
    <3>2. ASSUME NEW m \in {1, 2}, m # l PROVE InOrder(delayed[m])'
      <4>1. delayed[m] \in Seq(CoRoutines) /\ InOrder(delayed[m]) /\ r \notin ToSet(delayed[m])
        BY <1>1 DEF Typed, InCycles, InDelayed
      <4>2. DOMAIN delayed[m] = 1 .. Len(delayed[m])
            /\ \A i \in 1 .. Len(delayed[m]) : delayed[m][i] \in CoRoutines /\ delayed[m][i] # r
        BY <4>1, EntriesOf
      <4>3. \A i \in DOMAIN delayed[m] : wake'[delayed[m][i]] = wake[delayed[m][i]]
        BY <1>7, <4>2
      <4>4. delayed'[m] = delayed[m]
        BY <1>10, <3>2
      <4> QED
        BY <4>1, <4>3, <4>4 DEF InOrder
    <3> QED
      BY <3>1, <3>2
  <2>2. \A m \in {1, 2} : \A c \in ToSet(delayed[m]) : c \in CoRoutines /\ c # r
    <3>1. \A m \in {1, 2} : delayed[m] \in Seq(CoRoutines) /\ r \notin ToSet(delayed[m])
      BY <1>1 DEF Typed, InDelayed
    <3> QED
      BY <3>1, EntriesOf
  <2>3. \A c \in ToSet(delayed'[current]) :
          count < wake'[c] /\ wake'[c] < Begin + Width
    <3>1. \A c \in ToSet(delayed[current]) : count < wake[c] /\ wake[c] < Begin + Width
      BY DEF InCycles
    <3> QED
      BY <1>1, <1>3, <1>4, <1>7, <1>11, <2>2, <3>1
  <2>4. \A c \in ToSet(delayed'[overflow]) :
          Begin + Width <= wake'[c] /\ wake'[c] < Begin + 2 * Width
    <3>1. \A c \in ToSet(delayed[overflow]) :
            Begin + Width <= wake[c] /\ wake[c] < Begin + 2 * Width
      BY DEF InCycles
    <3> QED
      BY <1>1, <1>3, <1>4, <1>7, <1>11, <2>2, <3>1
  <2>5. \A c \in ToSet(delayed'[current']) :
          /\ count' <= wake'[c] /\ wake'[c] < Begin' + Width
          /\ pc' # "due" => count' < wake'[c]
    <3>1. \A c \in ToSet(delayed'[current]) : wake'[c] \in Nat /\ count \in Nat
      BY <1>4, <1>7, <1>10, EntriesOf DEF Typed
    <3> QED
      BY <1>2, <1>4, <2>3, <3>1
  <2>6. \A c \in ToSet(delayed'[overflow']) :
          Begin' + Width <= wake'[c] /\ wake'[c] < Begin' + 2 * Width
    BY <1>4, <2>4
  <2> QED
    BY <2>1, <2>5, <2>6 DEF InCycles
<1> QED
  BY <1>7, <1>10, <1>12, <1>13, <1>14, <1>15, <1>16, <1>17, <1>18 DEF r

(* The running co-routine returns, asleep or not, and goes on at the next   *)
(* time it runs: it waits for an event only if that is not there yet.       *)
Joins(place) ==
  /\ waiting' \in [Sides -> Seq(CoRoutines)]
  /\ \A s \in Sides : /\ IsInjective(waiting'[s])
                      /\ ToSet(waiting'[s]) =
                           IF s = place THEN ToSet(waiting[s]) \cup {running} ELSE ToSet(waiting[s])
Rests ==
  /\ ready' \in [Levels -> Seq(CoRoutines)]
  /\ \A p \in Levels : /\ IsInjective(ready'[p])
                       /\ \A d \in ToSet(ready'[p]) : Priority[d] = p
  /\ \A d \in CoRoutines : /\ InDelayed(d) => InDelayed(d)'
                           /\ ~(InReady(d)' /\ InDelayed(d)')
  /\ delayed' \in [{1, 2} -> Seq(CoRoutines)]
  /\ \A m \in {1, 2} : IsInjective(delayed'[m])
  /\ ToSet(delayed'[1]) \cap ToSet(delayed'[2]) = {}
  /\ wake' \in [CoRoutines -> Nat]
  /\ InCycles'

LEMMA ReturnsKeeps ==
  ASSUME IInv, pc = "run", NEW place \in {"start"} \cup Sides, Returns(place),
         UNCHANGED <<ticks, count, passed, current, top, pending, messages, running, op,
                   insertion>>,
         Rests, Joins(place),
         place \in Sides => InDelayed(running)' /\ ~CanDo(place) /\ op[1] = place,
         place = "start" => op[1] = "none"
  PROVE  IInv'
<1>1. Typed /\ Once /\ Homes /\ Resumes /\ Served
  BY DEF IInv
<1>2. /\ ticks' = ticks /\ count' = count /\ passed' = passed /\ current' = current
      /\ top' = top /\ pending' = pending /\ messages' = messages /\ running' = running
      /\ op' = op /\ pc' = "idle" /\ state' = [state EXCEPT ![running] = place]
      /\ UNCHANGED <<at, late, torn>>
  BY DEF Returns, insertion
<1>3. running \in CoRoutines /\ InReady(running) /\ ~InDelayed(running)
  BY <1>1 DEF Homes
<1>4. /\ \A d \in CoRoutines : state'[d] = IF d = running THEN place ELSE state[d]
      /\ state' \in [CoRoutines -> {"start"} \cup Sides]
  BY <1>1, <1>2, <1>3 DEF Typed
<1>5. /\ pc \notin CoRoutines /\ pc' \notin CoRoutines /\ pc' \in Places
      /\ pc \notin Listing /\ pc' \notin Listing
  BY <1>2, ConstantsTyped DEF Places, Listing
<1>6. /\ waiting' \in [Sides -> Seq(CoRoutines)]
      /\ \A s \in Sides : /\ IsInjective(waiting'[s])
                          /\ ToSet(waiting'[s]) =
                               IF s = place THEN ToSet(waiting[s]) \cup {running} ELSE ToSet(waiting[s])
  BY DEF Joins
<1>7. \A s \in Sides : running \notin ToSet(waiting[s])
  BY <1>1, <1>3 DEF Homes, InEvent
<1>8. "send" \in Sides /\ "receive" \in Sides /\ "start" \notin Sides /\ "none" \notin Sides
  BY DEF Sides
<1>9. Typed'
  BY <1>1, <1>2, <1>4, <1>5, <1>6 DEF Typed, Rests
<1>10. Once'
  <2>1. pc' \notin ToSet(pending')
    BY <1>1, <1>2, <1>5, EntriesOf DEF Typed
  <2>2. ToSet(waiting'["send"]) \cap ToSet(waiting'["receive"]) = {}
    BY <1>1, <1>6, <1>7, <1>8 DEF Once
  <2> QED
    BY <1>1, <1>2, <1>6, <2>1, <2>2 DEF Once, Rests
<1>11. Homes'
  <2>1. \A d \in CoRoutines : InPending(d)' <=> InPending(d)
    BY <1>2, <1>5 DEF InPending
  <2>2. \A d \in CoRoutines : InEvent(d)' <=> InEvent(d) \/ (d = running /\ place \in Sides)
    BY <1>6 DEF InEvent
  <2>3. ~InPending(running)
    BY <1>1, <1>3 DEF Homes
  <2>4. \A d \in CoRoutines : /\ ~(InReady(d)' /\ InDelayed(d)')
                              /\ InEvent(d)' \/ InPending(d)' => InDelayed(d)'
                              /\ ~(InEvent(d)' /\ InPending(d)')
    BY <1>1, <2>1, <2>2, <2>3 DEF Homes, Rests
  <2> QED
    BY <1>2, <1>3, <2>4 DEF Homes
<1>12. Resumes'
  <2>1. \A s \in Sides : \A c \in ToSet(waiting[s]) : c \in CoRoutines
    <3>1. \A s \in Sides : waiting[s] \in Seq(CoRoutines)
      BY <1>1 DEF Typed
    <3> QED
      BY <3>1, EntriesOf
  <2>2. \A s \in Sides : \A c \in ToSet(waiting'[s]) : state'[c] = s
    BY <1>1, <1>3, <1>4, <1>5, <1>6, <1>7, <2>1 DEF Resumes
  <2> QED
    BY <2>2 DEF Resumes
<1>13. InCycles'
  BY DEF Rests
<1>14. Served'
  <2> SUFFICES ASSUME NEW s \in Sides, Unserved(s)', ~Excused(s)'
               PROVE  Supply(s)' <= Cardinality(OnTheirWay(s)')
    BY DEF Served
  <2> DEFINE A == OnTheirWay(s)
             B == OnTheirWay(s)'
  <2>1. A \subseteq CoRoutines /\ B \subseteq CoRoutines
    BY DEF OnTheirWay
  <2>2. Supply(s)' = Supply(s) /\ Supply(s) \in Int
    BY <1>1, <1>2, ConstantsTyped DEF Supply, Typed
  <2>3. CASE s = place
    <3>1. Supply(s) <= 0
      BY <1>1, <2>3, ConstantsTyped DEF CanDo, Supply, Sides, Typed
    <3> HIDE DEF A, B
    <3>2. Cardinality(B) \in Nat
      BY <2>1, Numbers
    <3>3. Supply(s)' <= Cardinality(B)
      BY <2>2, <3>1, <3>2
    <3> QED
      BY <3>3 DEF B
  <2>4. CASE s # place
    <3>1. waiting[s] # <<>>
      <4>1. waiting[s] \in Seq(CoRoutines) /\ waiting'[s] \in Seq(CoRoutines)
        BY <1>1, <1>6 DEF Typed
      <4>2. ToSet(waiting'[s]) = ToSet(waiting[s])
        BY <1>6, <2>4
      <4>3. waiting'[s] # <<>>
        BY <1>5 DEF Unserved
      <4> QED
        BY <4>1, <4>2, <4>3, NoEntries
    <3>2. Supply(s) <= Cardinality(A)
      <4>1. Unserved(s) /\ ~Excused(s)
        BY <1>2, <3>1 DEF Unserved, Excused
      <4> QED
        BY <1>1, <4>1 DEF Served
    <3>3. op[1] # s
      BY <1>8, <2>4
    <3>4. A \subseteq B
      BY <1>2, <1>4, <1>5, <1>6, <2>4, <3>3 DEF OnTheirWay
    <3> HIDE DEF A, B
    <3>5. Cardinality(A) \in Nat /\ Cardinality(B) \in Nat /\ Cardinality(A) <= Cardinality(B)
      BY <2>1, <3>4, Numbers
    <3>6. Supply(s)' <= Cardinality(B)
      BY <2>2, <3>2, <3>5
    <3> QED
      BY <3>6 DEF B
  <2> QED
    BY <2>3, <2>4
<1>15. Inserting'
  BY <1>5, NoneInserting
<1> QED
  BY <1>9, <1>10, <1>11, <1>12, <1>13, <1>14, <1>15 DEF IInv

LEMMA DelayKeeps ==
  ASSUME IInv, NEW n \in 0 .. Width - 1, Delay(n)
  PROVE  IInv'
<1>1. Typed /\ Once /\ Homes /\ InCycles
  BY DEF IInv
<1>2. /\ pc = "run" /\ op[1] = "none" /\ Returns("start") /\ pc' = "idle"
      /\ UNCHANGED <<ticks, count, passed, pending, waiting, messages, running, op,
                     insertion>>
  BY DEF Delay, time, queue, Returns
<1>3. Rests /\ current' = current /\ top' = top
  <2>1. CASE n > 0
    <3>1. AddToDelayedList(n) /\ n \in 1 .. Width - 1 /\ count' = count /\ pc' # "due"
      BY <1>2, <2>1 DEF Delay
    <3>2. Rests
      BY <1>1, <1>2, <3>1, Sleeps DEF Rests, Homes
    <3> QED
      BY <3>1, <3>2 DEF AddToDelayedList
  <2>2. CASE ~(n > 0)
    <3>1. UNCHANGED <<ready, top, delayed, current, wake>>
      BY <2>2 DEF Delay, lists
    <3>2. InCycles'
      <4>1. \A m \in {1, 2} : InOrder(delayed[m])'
        BY <1>1, <3>1 DEF InCycles, InOrder
      <4> QED
        BY <1>1, <1>2, <3>1, <4>1, FewerInCycles DEF Typed
    <3>3. \A d \in CoRoutines : /\ InReady(d)' <=> InReady(d)
                                /\ InDelayed(d)' <=> InDelayed(d)
      BY <1>2, <3>1, SameHomes
    <3> QED
      BY <1>1, <3>1, <3>2, <3>3 DEF Rests, Typed, Once, Homes
  <2> QED
    BY <2>1, <2>2
<1>4. Joins("start")
  BY <1>1, <1>2 DEF Joins, Typed, Once, Sides
<1>5. "start" \notin Sides
  BY DEF Sides
<1> QED
  BY <1>2, <1>3, <1>4, <1>5, ReturnsKeeps

LEMMA BlockKeeps ==
  ASSUME IInv, Block
  PROVE  IInv'
<1> DEFINE side == "receive"
           n == op[2]
<1>1. Typed /\ Once /\ Homes /\ InCycles
  BY DEF IInv
<1>2. /\ pc = "run" /\ op[1] = side /\ side \in Sides /\ ~CanDo(side)
      /\ UNCHANGED <<ticks, count, passed, pending, messages, running, insertion>>
      /\ n \in 0 .. Width - 1
  BY <1>1 DEF Block, time, Typed, Sides
<1>3. CASE n > 0
  <2>1. /\ AddToDelayedList(n) /\ n \in 1 .. Width - 1 /\ count' = count
        /\ Returns(side) /\ pc' = "idle" /\ op' = op
        /\ waiting' = [waiting EXCEPT ![side] =
                         InsertAt(waiting[side], Behind(waiting[side], running) + 1, running)]
    BY <1>2, <1>3 DEF Block, Returns
  <2>2. running \in CoRoutines /\ InReady(running) /\ ~InDelayed(running)
    BY <1>1, <1>2 DEF Homes
  <2> HIDE DEF side, n
  <2>3. Rests /\ InDelayed(running)'
    BY <1>1, <1>2, <2>1, <2>2, Sleeps DEF Rests, Homes
  <2>4. current' = current /\ top' = top
    BY <2>1 DEF AddToDelayedList
  <2>5. Joins(side)
    <3> DEFINE t == waiting[side]
               k == Behind(t, running)
    <3>1. t \in Seq(CoRoutines) /\ IsInjective(t) /\ running \in CoRoutines \ ToSet(t)
      BY <1>1, <1>2, <2>2 DEF Typed, Once, Homes, InEvent
    <3> HIDE DEF t
    <3>2. k \in 0 .. Len(t)
      BY <3>1, BehindIs
    <3> HIDE DEF k
    <3> DEFINE u == InsertAt(t, k + 1, running)
    <3>3. u \in Seq(CoRoutines)
      BY <3>1, <3>2, InsertEntries
    <3>4. IsInjective(u) /\ ToSet(u) = ToSet(t) \cup {running}
      BY <3>1, <3>2, InsertNew
    <3> HIDE DEF u
    <3>5. waiting' = [waiting EXCEPT ![side] = u]
      BY <2>1 DEF u, k, t
    <3>6. /\ waiting' \in [Sides -> Seq(CoRoutines)] /\ waiting'[side] = u
          /\ \A s \in Sides : s # side => waiting'[s] = waiting[s]
      BY <1>1, <1>2, <3>3, <3>5 DEF Typed
    <3> QED
      BY <1>1, <3>4, <3>6 DEF Joins, Once, t
  <2>6. op[1] = side /\ side # "start"
    BY <1>2 DEF side, Sides
  <2> QED
    BY <1>2, <2>1, <2>3, <2>4, <2>5, <2>6, ReturnsKeeps
<1>4. CASE ~(n > 0)
  <2>1. /\ op' = <<"none", 0>> /\ UNCHANGED <<lists, waiting, state, pc>>
    BY <1>4 DEF Block
  <2>2. UNCHANGED <<time, lists, queue, state, running, pc, insertion>>
    BY <1>2, <2>1 DEF time, queue
  <2> QED
    BY <1>2, <2>1, <2>2, QuietSteps
<1> QED
  BY <1>3, <1>4

-----------------------------------------------------------------------------
(* A sender is listed with interrupts enabled.                              *)

(* It finds the queue full: there is no room whose news it could miss yet.  *)
LEMMA IsFullKeeps ==
  ASSUME IInv, IsFull
  PROVE  IInv'
<1>1. Typed /\ Homes /\ Width \in Nat
  BY ConstantsTyped DEF IInv
<1>2. /\ pc = "run" /\ op[1] = "send" /\ ~CanDo("send") /\ "send" \in Sides
      /\ UNCHANGED <<time, lists, queue, state, running, at, torn>>
  BY DEF IsFull, Sides
<1>3. CASE op[2] > 0
  <2>1. pc' = "full" /\ late' = FALSE /\ op' = op
    BY <1>3 DEF IsFull
  <2>2. running \in CoRoutines /\ InReady(running) /\ running \notin ToSet(waiting["receive"])
    BY <1>1, <1>2 DEF Homes, InEvent, Sides
  <2>3. /\ UNCHANGED <<ready, delayed, pending, waiting, messages, wake, state, torn, count,
                       current>>
        /\ ticks' = ticks /\ passed' = passed /\ top' = top /\ running' = running /\ at' = at
    BY <1>2 DEF time, lists, queue
  <2>4. Inserting'
    BY <1>2, <1>3, <2>1, <2>2, <2>3 DEF Inserting
  <2>5. pc \in Places /\ pc' \in Places /\ pc \notin Listing /\ pc' \in Listing
    BY <1>2, <2>1 DEF Places, Listing
  <2>6. Quiet
    BY <1>1, <1>2, <2>1, <2>2, <2>3, <2>4, <2>5 DEF Quiet, Typed
  <2>7. ASSUME NEW s \in Sides, Unserved(s)', ~Excused(s)'
        PROVE  \/ Unserved(s) /\ ~Excused(s) /\ OnTheirWay(s) \subseteq OnTheirWay(s)'
               \/ Supply(s) <= 0
    <3>1. CASE s = "send"
      BY <1>1, <1>2, <3>1, ConstantsTyped DEF Typed, Supply, CanDo
    <3>2. CASE s # "send"
      <4>1. Unserved(s) /\ ~Excused(s)
        BY <2>3, <2>7, <3>2 DEF Unserved, Excused
      <4>2. OnTheirWay(s) \subseteq OnTheirWay(s)'
        BY <1>2, <2>1, <2>3, <2>5, <3>2 DEF OnTheirWay
      <4> QED
        BY <4>1, <4>2
    <3> QED
      BY <3>1, <3>2
  <2>8. pc # "due"
    BY <1>2
  <2> QED
    BY <2>3, <2>6, <2>7, <2>8, QuietKeeps
<1>4. CASE ~(op[2] > 0)
  <2>1. op' = <<"none", 0>> /\ UNCHANGED <<time, lists, queue, state, running, pc, insertion>>
    BY <1>2, <1>4 DEF IsFull, insertion
  <2> QED
    BY <1>2, <2>1, QuietSteps
<1> QED
  BY <1>3, <1>4

(* The iterator walks, and the new entry is completed.                      *)
LEMMA WalkKeeps ==
  ASSUME IInv, Look \/ Advance \/ SetContainer \/ ReadItems
  PROVE  IInv'
<1>1. Typed /\ Homes /\ Inserting
  BY DEF IInv
<1>2. UNCHANGED <<time, lists, queue, state, running, op, late, torn>>
  BY DEF Look, Advance, SetContainer, ReadItems, insertion
<1>3. \/ /\ pc = "walk" /\ at' = at
         /\ (pc' = "step" /\ at < Len(waiting["send"])) \/ pc' = "link"
      \/ /\ pc = "step" /\ pc' = "walk"
         /\ at' = IF at < Len(waiting["send"]) THEN at + 1 ELSE 0
      \/ pc = "linked" /\ pc' = "listed" /\ at' = at
      \/ pc = "listed" /\ pc' = "counting" /\ at' = at
  BY DEF Look, Advance, SetContainer, ReadItems, insertion, Goto
<1>4. /\ UNCHANGED <<ready, delayed, pending, waiting, messages, wake, state, torn, late, count,
                     current>>
      /\ ticks' = ticks /\ passed' = passed /\ top' = top /\ running' = running /\ op' = op
  BY <1>2 DEF time, lists, queue
<1>5. /\ pc \in Places /\ pc' \in Places /\ pc \in Listing /\ pc' \in Listing
      /\ pc # "due" /\ pc # "creating" /\ pc' # "creating" /\ pc' \notin {"run", "nop", "full"}
  BY <1>3 DEF Places, Listing
<1>6. running \in CoRoutines
  BY <1>1, <1>5 DEF Homes
<1>7. waiting["send"] \in Seq(CoRoutines) /\ Len(waiting["send"]) \in Nat /\ at \in Nat
  BY <1>1 DEF Typed, Sides
<1>8. at' \in Nat
  BY <1>3, <1>7
<1>9. Inserting'
  <2>1. /\ op'[1] = "send" /\ op'[2] > 0 /\ running' \notin ToSet(waiting'["receive"])
    BY <1>1, <1>4, <1>5 DEF Inserting
  <2>2. pc' \in {"walk", "step", "link"} =>
          /\ at' <= Len(waiting'["send"])
          /\ InDelayed(running)' /\ ~InEvent(running)' /\ ~InPending(running)'
    <3>1. HAVE pc' \in {"walk", "step", "link"}
    <3>2. pc \in {"walk", "step"}
      BY <1>3, <3>1
    <3>3. /\ at <= Len(waiting["send"])
          /\ InDelayed(running) /\ ~InEvent(running) /\ ~InPending(running)
      BY <1>1, <3>2 DEF Inserting
    <3>4. at' <= Len(waiting["send"])
      BY <1>3, <1>7, <3>2, <3>3
    <3>5. pc' # running
      BY <1>5, <1>6, ConstantsTyped
    <3>6. InDelayed(running)' /\ ~InEvent(running)' /\ ~InPending(running)'
      BY <1>4, <3>3, <3>5 DEF InDelayed, InEvent, InPending
    <3> QED
      BY <1>4, <3>4, <3>6
  <2>3. pc' = "step" => at' = 0 \/ at' < Len(waiting'["send"])
    BY <1>3, <1>4
  <2>4. pc' \in {"linked", "listed", "counting"} => waiting'["send"] # <<>>
    BY <1>1, <1>3, <1>4 DEF Inserting
  <2> QED
    BY <2>1, <2>2, <2>3, <2>4 DEF Inserting
<1>10. Quiet
  BY <1>1, <1>4, <1>5, <1>6, <1>8, <1>9 DEF Quiet, Typed
<1>11. ASSUME NEW s \in Sides, Unserved(s)', ~Excused(s)'
       PROVE  Unserved(s) /\ ~Excused(s) /\ OnTheirWay(s) \subseteq OnTheirWay(s)'
  <2>1. Unserved(s) /\ ~Excused(s)
    BY <1>4, <1>5, <1>11 DEF Unserved, Excused
  <2>2. OnTheirWay(s) \subseteq OnTheirWay(s)'
    BY <1>4, <1>5 DEF OnTheirWay, Listing
  <2> QED
    BY <2>1, <2>2
<1> QED
  BY <1>4, <1>5, <1>10, <1>11, QuietKeeps

(* What is served stays so while the sender is listed.                      *)
LEMMA ServedListing ==
  ASSUME Served, messages' = messages, messages \in 0 .. Capacity,
         late' = late, torn' = torn, pc \in Listing,
         \A s \in Sides : /\ Unserved(s)' => Unserved(s)
                          /\ OnTheirWay(s) \subseteq OnTheirWay(s)'
  PROVE  Served'
<1> SUFFICES ASSUME NEW s \in Sides, Unserved(s)', ~Excused(s)'
             PROVE  Supply(s)' <= Cardinality(OnTheirWay(s)')
  BY DEF Served
<1>1. Supply(s)' = Supply(s) /\ Supply(s) \in Int
  BY ConstantsTyped DEF Supply
<1>2. Supply(s) <= Cardinality(OnTheirWay(s))
  <2>1. Unserved(s) /\ ~Excused(s)
    BY DEF Excused
  <2> QED
    BY <2>1 DEF Served
<1> DEFINE A == OnTheirWay(s)
           B == OnTheirWay(s)'
<1>3. A \subseteq B /\ A \subseteq CoRoutines /\ B \subseteq CoRoutines
  BY DEF OnTheirWay
<1> HIDE DEF A, B
<1>4. Cardinality(A) \in Nat /\ Cardinality(B) \in Nat /\ Cardinality(A) <= Cardinality(B)
  BY <1>3, Numbers
<1> QED
  BY <1>1, <1>2, <1>4 DEF A, B

(* It goes to sleep before it is on the list.                               *)
LEMMA BlockSenderKeeps ==
  ASSUME IInv, BlockSender
  PROVE  IInv'
<1> DEFINE n == op[2]
<1>1. Typed /\ Once /\ Homes /\ Resumes /\ InCycles /\ Inserting /\ Served
  BY DEF IInv
<1>2. /\ pc = "full" /\ pc' = "walk" /\ at' = 0 /\ AddToDelayedList(n)
      /\ UNCHANGED <<ticks, count, passed, pending, waiting, messages, state, running, op, late,
                     torn>>
      /\ pc \in Listing /\ pc' \in Listing
  BY DEF BlockSender, Goto, time, queue, Listing
<1>3. n \in 1 .. Width - 1 /\ op[1] = "send" /\ running \notin ToSet(waiting["receive"])
  BY <1>1, <1>2, ConstantsTyped DEF Typed, Inserting
<1>4. running \in CoRoutines /\ InReady(running) /\ ~InDelayed(running)
  BY <1>1, <1>2 DEF Homes
<1> HIDE DEF n
<1>5. /\ ready' \in [Levels -> Seq(CoRoutines)]
      /\ \A p \in Levels : /\ IsInjective(ready'[p])
                           /\ \A d \in ToSet(ready'[p]) : Priority[d] = p
      /\ \A d \in CoRoutines : /\ InReady(d)' <=> InReady(d) /\ d # running
                               /\ InDelayed(d)' <=> InDelayed(d) \/ d = running
      /\ delayed' \in [{1, 2} -> Seq(CoRoutines)]
      /\ \A m \in {1, 2} : IsInjective(delayed'[m])
      /\ ToSet(delayed'[1]) \cap ToSet(delayed'[2]) = {}
      /\ wake' \in [CoRoutines -> Nat]
      /\ InCycles'
  BY <1>1, <1>2, <1>3, Sleeps
<1>6. current' = current /\ top' = top
  BY <1>2 DEF AddToDelayedList
<1>7. pc \notin CoRoutines /\ pc' \notin CoRoutines /\ pc' \in Places
  BY <1>2, ConstantsTyped DEF Places
<1>8. Typed'
  BY <1>1, <1>2, <1>5, <1>6, <1>7 DEF Typed
<1>9. Once'
  <2>1. pc' \notin ToSet(pending')
    BY <1>1, <1>2, <1>7, EntriesOf DEF Typed
  <2> QED
    BY <1>1, <1>2, <1>5, <2>1 DEF Once
<1>10. \A d \in CoRoutines : /\ InEvent(d)' <=> InEvent(d)
                             /\ InPending(d)' <=> InPending(d)
  BY <1>2, <1>7 DEF InEvent, InPending
<1>11. Homes'
  BY <1>1, <1>2, <1>4, <1>5, <1>10 DEF Homes
<1>12. Resumes'
  BY <1>1, <1>2 DEF Resumes
<1>13. Inserting'
  <2>1. InDelayed(running)' /\ ~InEvent(running)' /\ ~InPending(running)'
    <3>1. ~InEvent(running) /\ ~InPending(running)
      BY <1>1, <1>4 DEF Homes
    <3>2. InDelayed(running)'
      <4>1. \A d \in CoRoutines : InDelayed(d)' <=> d \in ToSet(delayed'[1]) \/ d \in ToSet(delayed'[2])
        BY DEF InDelayed
      <4>2. running \in ToSet(delayed'[1]) \/ running \in ToSet(delayed'[2])
        BY <1>4, <1>5, <4>1
      <4> QED
        BY <1>2, <4>2 DEF InDelayed
    <3>3. ~InEvent(running)' /\ ~InPending(running)'
      BY <1>2, <1>4, <1>7, <3>1 DEF InEvent, InPending
    <3> QED
      BY <3>2, <3>3
  <2>2. 0 <= Len(waiting["send"])
    BY <1>1 DEF Typed, Sides
  <2> QED
    BY <1>2, <1>1, <1>3, <2>1, <2>2 DEF Inserting
<1>14. Served'
  <2>1. \A s \in Sides : /\ Unserved(s)' => Unserved(s)
                         /\ OnTheirWay(s) \subseteq OnTheirWay(s)'
    BY <1>2 DEF Unserved, OnTheirWay
  <2> QED
    BY <1>1, <1>2, <2>1, ServedListing DEF Typed
<1> QED
  BY <1>5, <1>8, <1>9, <1>11, <1>12, <1>13, <1>14 DEF IInv

(* It is linked behind the iterator.                                        *)
LEMMA LinkKeeps ==
  ASSUME IInv, Link
  PROVE  IInv'
<1> DEFINE t == waiting["send"]
           u == InsertAt(t, at + 1, running)
<1>1. Typed /\ Once /\ Homes /\ Resumes /\ InCycles /\ Inserting /\ Served
  BY DEF IInv
<1>2. /\ pc = "link" /\ pc' = "linked" /\ at' = 0
      /\ waiting' = [waiting EXCEPT !["send"] = u]
      /\ UNCHANGED <<ticks, count, passed, ready, top, delayed, current, wake, pending, messages,
                     state, running, op, late, torn>>
      /\ pc \in Listing /\ pc' \in Listing /\ "send" \in Sides /\ "receive" \in Sides
  BY DEF Link, Goto, time, lists, Listing, Sides
<1>3. /\ running \in CoRoutines /\ at <= Len(t) /\ op[1] = "send" /\ op[2] > 0
      /\ InDelayed(running) /\ ~InEvent(running) /\ ~InPending(running)
      /\ running \notin ToSet(waiting["receive"])
  BY <1>1, <1>2 DEF Homes, Inserting
<1>4. /\ t \in Seq(CoRoutines) /\ IsInjective(t) /\ at \in 0 .. Len(t)
      /\ running \in CoRoutines \ ToSet(t)
  BY <1>1, <1>2, <1>3 DEF Typed, Once, InEvent
<1> HIDE DEF t
<1>5. u \in Seq(CoRoutines)
  BY <1>4, InsertEntries
<1>6. IsInjective(u) /\ ToSet(u) = ToSet(t) \cup {running}
  BY <1>4, InsertNew
<1> HIDE DEF u
<1>7. /\ waiting' \in [Sides -> Seq(CoRoutines)] /\ waiting'["send"] = u
      /\ waiting'["receive"] = waiting["receive"]
  BY <1>1, <1>2, <1>5 DEF Typed
<1>8. Sides = {"send", "receive"} /\ "send" # "receive"
  BY DEF Sides
<1>9. pc \notin CoRoutines /\ pc' \notin CoRoutines /\ pc' \in Places
  BY <1>2, ConstantsTyped DEF Places, Listing
<1>10. Typed'
  BY <1>1, <1>2, <1>7, <1>9 DEF Typed
<1>11. Once'
  <2>1. pc' \notin ToSet(pending')
    BY <1>1, <1>2, <1>9, EntriesOf DEF Typed
  <2>2. \A s \in Sides : IsInjective(waiting'[s])
    BY <1>1, <1>6, <1>7, <1>8 DEF Once
  <2>3. ToSet(waiting'["send"]) \cap ToSet(waiting'["receive"]) = {}
    BY <1>1, <1>3, <1>6, <1>7 DEF Once, t
  <2> QED
    BY <1>1, <1>2, <2>1, <2>2, <2>3 DEF Once
<1>12. \A d \in CoRoutines : /\ InReady(d)' <=> InReady(d)
                             /\ InDelayed(d)' <=> InDelayed(d)
                             /\ InEvent(d)' <=> InEvent(d) \/ d = running
                             /\ InPending(d)' <=> InPending(d)
  <2>1. \A d \in CoRoutines : InEvent(d)' <=> InEvent(d) \/ d = running
    BY <1>6, <1>7, <1>8 DEF InEvent, t
  <2>2. \A d \in CoRoutines : /\ InReady(d)' <=> InReady(d)
                              /\ InDelayed(d)' <=> InDelayed(d)
                              /\ InPending(d)' <=> InPending(d)
    BY <1>2, <1>9 DEF InReady, InDelayed, InPending
  <2> QED
    BY <2>1, <2>2
<1>13. Homes'
  BY <1>1, <1>2, <1>3, <1>12 DEF Homes
<1>14. Resumes'
  <2>1. \A c \in ToSet(waiting'["send"]) : c # running => state[c] = "send"
    BY <1>1, <1>6, <1>7, <1>8 DEF Resumes, t
  <2>2. \A c \in ToSet(waiting'["receive"]) : c # running => state[c] = "receive"
    BY <1>1, <1>7, <1>8 DEF Resumes
  <2> QED
    BY <1>2, <1>8, <2>1, <2>2 DEF Resumes
<1>15. InCycles'
  <2>1. \A m \in {1, 2} : InOrder(delayed[m])'
    BY <1>1, <1>2 DEF InCycles, InOrder
  <2> QED
    BY <1>1, <1>2, <2>1, FewerInCycles DEF Typed
<1>16. Inserting'
  <2>1. u # <<>>
    BY <1>6 DEF ToSet
  <2> QED
    BY <1>2, <1>3, <1>7, <2>1 DEF Inserting
<1>17. Served'
  <2>1. ASSUME NEW s \in Sides
        PROVE  /\ Unserved(s)' => Unserved(s)
               /\ OnTheirWay(s) \subseteq OnTheirWay(s)'
    <3>1. Unserved(s)' => Unserved(s)
      BY <1>2, <1>7, <1>8 DEF Unserved
    <3>2. \A c \in CoRoutines : c # running => (c \in ToSet(waiting'[s]) <=> c \in ToSet(waiting[s]))
      BY <1>6, <1>7, <1>8 DEF t
    <3>3. OnTheirWay(s) \subseteq OnTheirWay(s)'
      BY <1>2, <3>2 DEF OnTheirWay
    <3> QED
      BY <3>1, <3>3
  <2> QED
    BY <1>1, <1>2, <2>1, ServedListing DEF Typed
<1> QED
  BY <1>10, <1>11, <1>13, <1>14, <1>15, <1>16, <1>17 DEF IInv

(* It is counted, and returns.                                              *)
LEMMA WriteItemsKeeps ==
  ASSUME IInv, WriteItems
  PROVE  IInv'
<1>1. Typed /\ Once /\ Homes /\ Resumes /\ InCycles /\ Inserting /\ Served
  BY DEF IInv
<1>2. /\ pc = "counting" /\ pc' = "idle" /\ state' = [state EXCEPT ![running] = "send"]
      /\ UNCHANGED <<ticks, count, passed, ready, top, delayed, current, wake, pending, waiting,
                     messages, running, op, at, late, torn>>
      /\ pc \in Listing /\ pc' \notin Listing /\ "send" \in Sides
  BY DEF WriteItems, Returns, time, lists, queue, insertion, Listing, Sides
<1>3. running \in CoRoutines /\ running \notin ToSet(waiting["receive"])
  BY <1>1, <1>2 DEF Homes, Inserting
<1>4. /\ \A d \in CoRoutines : state'[d] = IF d = running THEN "send" ELSE state[d]
      /\ state' \in [CoRoutines -> {"start"} \cup Sides]
  BY <1>1, <1>2, <1>3 DEF Typed
<1>5. pc \notin CoRoutines /\ pc' \notin CoRoutines /\ pc' \in Places
  BY <1>2, ConstantsTyped DEF Places
<1>6. Typed'
  BY <1>1, <1>2, <1>4, <1>5 DEF Typed
<1>7. Once'
  <2>1. pc' \notin ToSet(pending')
    BY <1>1, <1>2, <1>5, EntriesOf DEF Typed
  <2> QED
    BY <1>1, <1>2, <2>1 DEF Once
<1>8. Homes'
  <2>1. \A c \in CoRoutines : /\ InReady(c)' <=> InReady(c)
                              /\ InDelayed(c)' <=> InDelayed(c)
                              /\ InEvent(c)' <=> InEvent(c)
    BY <1>2, SameHomes
  <2>2. \A c \in CoRoutines : InPending(c)' <=> InPending(c)
    BY <1>2, <1>5 DEF InPending
  <2> QED
    BY <1>1, <1>2, <1>3, <2>1, <2>2 DEF Homes
<1>9. Resumes'
  <2>1. \A s \in Sides : \A c \in ToSet(waiting[s]) : c \in CoRoutines
    <3>1. \A s \in Sides : waiting[s] \in Seq(CoRoutines)
      BY <1>1 DEF Typed
    <3> QED
      BY <3>1, EntriesOf
  <2>2. \A s \in Sides : running \in ToSet(waiting[s]) => s = "send"
    BY <1>3 DEF Sides
  <2> QED
    BY <1>1, <1>2, <1>4, <2>1, <2>2 DEF Resumes
<1>10. InCycles'
  <2>1. \A m \in {1, 2} : InOrder(delayed[m])'
    BY <1>1, <1>2 DEF InCycles, InOrder
  <2> QED
    BY <1>1, <1>2, <2>1, FewerInCycles DEF Typed
<1>11. Served'
  <2>1. ASSUME NEW s \in Sides
        PROVE  /\ Unserved(s)' => Unserved(s)
               /\ OnTheirWay(s) \subseteq OnTheirWay(s)'
    <3>1. Unserved(s)' => Unserved(s)
      BY <1>2 DEF Unserved
    <3>2. running \in ToSet(pending) => running \notin ToSet(waiting["send"])
      BY <1>1, <1>2, <1>3 DEF Homes, InPending, InEvent
    <3>3. OnTheirWay(s) \subseteq OnTheirWay(s)'
      BY <1>2, <1>4, <3>2 DEF OnTheirWay
    <3> QED
      BY <3>1, <3>3
  <2> QED
    BY <1>1, <1>2, <2>1, ServedListing DEF Typed
<1>12. Inserting'
  BY <1>2, NoneInserting
<1> QED
  BY <1>6, <1>7, <1>8, <1>9, <1>10, <1>11, <1>12 DEF IInv

-----------------------------------------------------------------------------
(* A message comes or goes, by the running co-routine or by an interrupt,   *)
(* and the first who waits for that is woken.                               *)
Wakened(o, h) ==
  /\ waiting[o] # <<>> /\ h \in ToSet(waiting[o]) /\ h \in CoRoutines
  /\ waiting' \in [Sides -> Seq(CoRoutines)]
  /\ \A s \in Sides : /\ IsInjective(waiting'[s])
                      /\ ToSet(waiting'[s]) = ToSet(waiting[s]) \ {h}
  /\ pending' \in Seq(CoRoutines) /\ IsInjective(pending')
  /\ ToSet(pending') = ToSet(pending) \cup {h}

(* Who is counted is on the list, and who is not is being linked.           *)
LEMMA SomeItems ==
  ASSUME Typed, Inserting, NEW o \in Sides
  PROVE  /\ Items(o) \in Nat
         /\ Items(o) # 0 => waiting[o] # <<>>
         /\ o = "receive" \/ pc \notin Listing => (Items(o) = 0 <=> waiting[o] = <<>>)
<1>1. waiting[o] \in Seq(CoRoutines) /\ Len(waiting[o]) \in Nat
  BY DEF Typed
<1>2. Len(waiting[o]) = 0 <=> waiting[o] = <<>>
  BY <1>1
<1>3. CASE o = "send" /\ pc \in {"linked", "listed", "counting"}
  <2>1. Items(o) = Len(waiting[o]) - 1 /\ waiting[o] # <<>> /\ pc \in Listing
    BY <1>3 DEF Items, Inserting, Listing
  <2> QED
    BY <1>1, <1>2, <1>3, <2>1
<1>4. CASE ~(o = "send" /\ pc \in {"linked", "listed", "counting"})
  <2>1. Items(o) = Len(waiting[o]) - 0
    BY <1>4 DEF Items
  <2> QED
    BY <1>1, <1>2, <2>1
<1> QED
  BY <1>3, <1>4

LEMMA WakesOne ==
  ASSUME Typed, Once, Homes, Inserting, NEW o \in Sides, Wakes(o)
  PROVE  \/ Items(o) = 0 /\ waiting' = waiting /\ pending' = pending
         \/ \E h \in CoRoutines : Wakened(o, h)
<1>1. CASE Items(o) = 0
  BY <1>1 DEF Wakes
<1>2. CASE Items(o) # 0
  <2> DEFINE t == waiting[o]
             h == Head(t)
  <2>1. t \in Seq(CoRoutines) /\ IsInjective(t) /\ t # <<>>
    <3>1. waiting[o] # <<>>
      BY <1>2, SomeItems
    <3> QED
      BY <3>1 DEF Typed, Once
  <2>2. /\ pending' = Append(pending, h)
        /\ waiting' = [waiting EXCEPT ![o] = Tail(t)]
    BY <1>2 DEF Wakes
  <2> HIDE DEF t
  <2>3. /\ Tail(t) \in Seq(CoRoutines) /\ IsInjective(Tail(t)) /\ h \in ToSet(t)
        /\ ToSet(Tail(t)) = ToSet(t) \ {h}
    BY <2>1, TailOnce
  <2>4. h \in CoRoutines
    BY <2>1, <2>3, EntriesOf
  <2> HIDE DEF h
  <2>5. /\ waiting' \in [Sides -> Seq(CoRoutines)] /\ waiting'[o] = Tail(t)
        /\ \A s \in Sides : s # o => waiting'[s] = waiting[s]
    BY <2>2, <2>3 DEF Typed
  <2>6. \A s \in Sides : s # o => h \notin ToSet(waiting[s])
    BY <2>3 DEF Once, t, Sides
  <2>7. \A s \in Sides : /\ IsInjective(waiting'[s])
                         /\ ToSet(waiting'[s]) = ToSet(waiting[s]) \ {h}
    BY <2>3, <2>5, <2>6 DEF Once, t
  <2>8. h \notin ToSet(pending) /\ pending \in Seq(CoRoutines) /\ IsInjective(pending)
    BY <2>3, <2>4 DEF Typed, Once, Homes, InEvent, InPending, t
  <2>9. /\ pending' \in Seq(CoRoutines) /\ IsInjective(pending')
        /\ ToSet(pending') = ToSet(pending) \cup {h}
    BY <2>2, <2>4, <2>8, AppendNew
  <2>10. Wakened(o, h)
    BY <2>1, <2>3, <2>4, <2>5, <2>7, <2>9 DEF Wakened, t
  <2> QED
    BY <2>4, <2>10
<1> QED
  BY <1>1, <1>2

(* What the one who moves the message does besides.                         *)
Mover(side) ==
  \/ UNCHANGED <<state, pc, op>>
  \/ /\ pc = "nop" /\ op[1] = side /\ op' = <<"none", 0>> /\ pc' \in {"run", "idle"}
     /\ \A c \in CoRoutines : c # running => state'[c] = state[c]
     /\ state' \in [CoRoutines -> {"start"} \cup Sides]

LEMMA MoverKeeps ==
  ASSUME IInv, NEW side \in Sides, CanDo(side), Moves(side), Wakes(Other(side)), Mover(side),
         UNCHANGED <<ticks, count, passed, ready, top, delayed, current, wake, running, torn>>,
         at' \in Nat, Inserting', late => late',
         side = "receive" /\ pc \in Listing /\ Items("send") = 0 => late'
  PROVE  IInv'
<1> DEFINE o == Other(side)
<1>1. Typed /\ Once /\ Homes /\ Resumes /\ InCycles /\ Inserting /\ Served
  BY DEF IInv
<1>2. /\ o \in Sides /\ o # side /\ \A s \in Sides : s = side \/ s = o
      /\ "send" \in Sides /\ "receive" \in Sides /\ "none" \notin Sides
  BY DEF Sides, Other
<1>3. /\ messages' \in 0 .. Capacity
      /\ Supply(side)' = Supply(side) - 1 /\ Supply(o)' = Supply(o) + 1
      /\ Supply(side) \in Int /\ Supply(o) \in Int
  BY <1>1, ConstantsTyped DEF Typed, Supply, CanDo, Moves, Other, Sides
<1>4. PICK h \in CoRoutines \cup {None} :
        \/ h = None /\ Items(o) = 0 /\ waiting' = waiting /\ pending' = pending
        \/ h \in CoRoutines /\ Wakened(o, h)
  BY <1>1, <1>2, WakesOne
<1>5. /\ waiting' \in [Sides -> Seq(CoRoutines)]
      /\ \A s \in Sides : /\ IsInjective(waiting'[s])
                          /\ ToSet(waiting'[s]) = ToSet(waiting[s]) \ {h}
      /\ pending' \in Seq(CoRoutines) /\ IsInjective(pending')
      /\ \A d \in CoRoutines : d \in ToSet(pending') <=> d \in ToSet(pending) \/ d = h
  <2>1. CASE h = None
    <3>1. h \notin CoRoutines
      BY <2>1, ConstantsTyped
    <3>2. waiting' = waiting /\ pending' = pending
      BY <1>4, <3>1
    <3>3. \A s \in Sides : h \notin ToSet(waiting[s])
      <4>1. \A s \in Sides : waiting[s] \in Seq(CoRoutines)
        BY <1>1 DEF Typed
      <4> QED
        BY <3>1, <4>1, EntriesOf
    <3> QED
      BY <1>1, <3>1, <3>2, <3>3 DEF Typed, Once
  <2>2. CASE h \in CoRoutines
    <3>1. Wakened(o, h)
      BY <1>4, <2>2, ConstantsTyped
    <3> QED
      BY <3>1 DEF Wakened
  <2> QED
    BY <2>1, <2>2
<1>6. h \in CoRoutines => /\ h \in ToSet(waiting[o]) /\ InEvent(h) /\ InDelayed(h)
                          /\ ~InPending(h) /\ ~InReady(h)
                          /\ ~(h = running /\ pc \in Listing) => state[h] = o
  <2>1. HAVE h \in CoRoutines
  <2>2. h \in ToSet(waiting[o])
    BY <1>4, <2>1, ConstantsTyped DEF Wakened
  <2>3. InEvent(h)
    BY <1>2, <2>2 DEF InEvent
  <2> QED
    BY <1>1, <1>2, <2>1, <2>2, <2>3 DEF Homes, Resumes
<1>7. \A d \in CoRoutines : /\ InReady(d)' <=> InReady(d)
                            /\ InDelayed(d)' <=> InDelayed(d)
                            /\ InEvent(d)' <=> InEvent(d) /\ d # h
  BY <1>5 DEF InReady, InDelayed, InEvent
<1>8. /\ pc' = pc \/ (pc = "nop" /\ pc' \in {"run", "idle"})
      /\ pc' \in Places \cup CoRoutines
      /\ pc' \notin CoRoutines \/ pc' = pc
      /\ pc # "nop" => UNCHANGED <<state, pc, op>>
      /\ pc' \in Listing <=> pc \in Listing
  <2>1. "run" \notin CoRoutines /\ "idle" \notin CoRoutines
    BY ConstantsTyped DEF Places
  <2> QED
    BY <1>1, <2>1 DEF Mover, Typed, Places, Listing
<1>9. Typed'
  <2>1. state' \in [CoRoutines -> {"start"} \cup Sides]
    BY <1>1 DEF Mover, Typed
  <2>2. op' \in ({"none"} \cup Sides) \X (0 .. Width - 1)
    <3>1. 0 \in 0 .. Width - 1
      BY ConstantsTyped
    <3> QED
      BY <1>1, <3>1 DEF Mover, Typed
  <2> QED
    BY <1>1, <1>3, <1>5, <1>8, <2>1, <2>2 DEF Typed
<1>10. Once'
  <2>1. pc' \notin ToSet(pending')
    <3>1. CASE pc' \in CoRoutines
      <4>1. pc' = pc /\ pc \notin ToSet(pending)
        BY <1>1, <1>8, <3>1 DEF Once
      <4>2. pc # h
        BY <1>6, <3>1, <4>1 DEF InPending
      <4> QED
        BY <1>5, <3>1, <4>1, <4>2
    <3>2. CASE pc' \notin CoRoutines
      BY <1>5, <3>2, EntriesOf
    <3> QED
      BY <3>1, <3>2
  <2>2. ToSet(waiting'["send"]) \cap ToSet(waiting'["receive"]) = {}
    BY <1>1, <1>2, <1>5 DEF Once
  <2> QED
    BY <1>1, <1>5, <2>1, <2>2 DEF Once
<1>11. Homes'
  <2>1. \A d \in CoRoutines : InPending(d)' <=> InPending(d) \/ d = h
    <3>1. \A d \in CoRoutines : pc' = d <=> pc = d
      <4>1. "nop" \notin CoRoutines
        BY ConstantsTyped DEF Places
      <4> QED
        BY <1>8, <4>1
    <3> QED
      BY <1>5, <3>1 DEF InPending
  <2>2. \A d \in CoRoutines : /\ ~(InReady(d)' /\ InDelayed(d)')
                              /\ InEvent(d)' \/ InPending(d)' => InDelayed(d)'
                              /\ ~(InEvent(d)' /\ InPending(d)')
    BY <1>1, <1>6, <1>7, <2>1 DEF Homes
  <2>3. pc' \in {"run", "nop", "full"} => InReady(running)'
    BY <1>1, <1>8 DEF Homes, InReady
  <2>4. pc' = "nop" => op'[1] \in Sides
    BY <1>1, <1>8 DEF Homes, Mover
  <2> QED
    BY <1>1, <1>8, <2>2, <2>3, <2>4 DEF Homes
<1>12. \A s \in Sides : \A c \in ToSet(waiting[s]) :
         /\ c \in CoRoutines /\ state'[c] = state[c]
         /\ pc \in {"run", "nop"} => c # running
  <2> TAKE s \in Sides
  <2> TAKE c \in ToSet(waiting[s])
  <2>1. c \in CoRoutines
    <3>1. waiting[s] \in Seq(CoRoutines)
      BY <1>1 DEF Typed
    <3> QED
      BY <3>1, EntriesOf
  <2>2. InEvent(c)
    BY DEF InEvent
  <2>3. pc \in {"run", "nop"} => c # running
    BY <1>1, <2>1, <2>2 DEF Homes
  <2> QED
    BY <2>1, <2>3 DEF Mover
<1>13. Resumes'
  <2>1. \A s \in Sides : \A c \in ToSet(waiting'[s]) :
          ~(c = running /\ pc \in Listing) => state'[c] = s
    BY <1>1, <1>5, <1>12 DEF Resumes
  <2> QED
    BY <1>8, <2>1 DEF Resumes
<1>14. InCycles'
  <2>1. \A n \in {1, 2} : InOrder(delayed[n])'
    BY <1>1 DEF InCycles, InOrder
  <2> QED
    BY <1>1, <1>8, <2>1, FewerInCycles DEF Typed
<1> DEFINE A(s) == OnTheirWay(s)
           B(s) == OnTheirWay(s)'
<1>15. \A s \in Sides : A(s) \subseteq CoRoutines /\ B(s) \subseteq CoRoutines
  BY DEF OnTheirWay
<1>16. Unserved(side)' /\ ~Excused(side)' => Supply(side)' <= Cardinality(B(side))
  <2>1. HAVE Unserved(side)' /\ ~Excused(side)'
  <2>2. Unserved(side) /\ ~Excused(side)
    <3>1. waiting[side] \in Seq(CoRoutines) /\ waiting'[side] \in Seq(CoRoutines)
      BY <1>1, <1>5 DEF Typed
    <3>2. waiting'[side] # <<>> => waiting[side] # <<>>
      BY <1>5, <3>1, NoEntries
    <3> QED
      BY <1>8, <2>1, <3>2 DEF Unserved, Excused
  <2>3. Supply(side) <= Cardinality(A(side))
    BY <1>1, <2>2 DEF Served
  <2>4. A(side) \subseteq B(side) \/ (A(side) \ {running} \subseteq B(side) /\ running \in CoRoutines)
    <3>1. CASE UNCHANGED <<state, pc, op>>
      BY <1>5, <3>1 DEF OnTheirWay
    <3>2. CASE /\ pc = "nop" /\ pc' \in {"run", "idle"}
               /\ \A c \in CoRoutines : c # running => state'[c] = state[c]
      <4>1. A(side) \ {running} \subseteq B(side)
        BY <1>5, <1>8, <3>2 DEF OnTheirWay
      <4> QED
        BY <1>1, <3>2, <4>1 DEF Homes
    <3> QED
      BY <3>1, <3>2 DEF Mover
  <2> DEFINE a == A(side)
             b == B(side)
  <2>5. a \subseteq CoRoutines /\ b \subseteq CoRoutines
    BY <1>15
  <2> HIDE DEF a, b
  <2>6. /\ Cardinality(a) \in Nat /\ Cardinality(b) \in Nat
        /\ a \subseteq b => Cardinality(a) <= Cardinality(b)
        /\ \A x \in CoRoutines : a \ {x} \subseteq b => Cardinality(a) <= Cardinality(b) + 1
    BY <2>5, Numbers
  <2>7. Cardinality(a) <= Cardinality(b) + 1
    BY <2>4, <2>6 DEF a, b
  <2> QED
    BY <1>3, <2>3, <2>6, <2>7 DEF a, b
<1>17. Unserved(o)' /\ ~Excused(o)' => Supply(o)' <= Cardinality(B(o))
  <2>1. HAVE Unserved(o)' /\ ~Excused(o)'
  <2>2. h \in CoRoutines /\ waiting[o] # <<>>
    <3>1. CASE h \in CoRoutines
      BY <1>4, <3>1, ConstantsTyped DEF Wakened
    <3>2. CASE Items(o) = 0 /\ waiting' = waiting
      <4>1. waiting[o] # <<>> \/ (o = "send" /\ pc \in Listing)
        BY <1>8, <2>1, <3>2 DEF Unserved
      <4>2. o = "send" /\ pc \in Listing
        <5>1. o = "receive" \/ o = "send"
          BY <1>2 DEF Sides
        <5> QED
          BY <1>1, <1>2, <3>2, <4>1, <5>1, SomeItems
      <4>3. side = "receive"
        BY <1>2, <4>2
      <4> QED
        BY <2>1, <3>2, <4>2, <4>3 DEF Excused
    <3> QED
      BY <1>4, <3>1, <3>2
  <2>3. Supply(o) <= Cardinality(A(o))
    <3>1. Unserved(o) /\ ~Excused(o)
      BY <2>1, <2>2 DEF Unserved, Excused
    <3> QED
      BY <1>1, <1>2, <3>1 DEF Served
  <2>4. h \notin A(o)
    <3>1. h \in ToSet(waiting[o]) /\ h \notin ToSet(pending)
      BY <1>6, <2>2 DEF InPending
    <3> QED
      BY <3>1 DEF OnTheirWay
  <2>5. h \in B(o)
    <3>1. /\ h \notin ToSet(waiting'[o]) /\ h \in ToSet(pending')
          /\ pc \in {"run", "nop"} => h # running
      BY <1>2, <1>5, <1>6, <1>12, <2>2
    <3>2. CASE h = running /\ pc \in Listing
      <4>1. running \notin ToSet(waiting["receive"])
        BY <1>1, <3>2 DEF Inserting
      <4>2. o = "send"
        BY <1>2, <1>6, <2>2, <3>2, <4>1 DEF Sides
      <4> QED
        BY <1>8, <2>2, <3>1, <3>2, <4>2 DEF OnTheirWay
    <3>3. CASE ~(h = running /\ pc \in Listing)
      <4>1. state'[h] = o
        BY <1>2, <1>6, <1>12, <2>2, <3>3
      <4> QED
        BY <1>8, <2>2, <3>1, <3>3, <4>1 DEF OnTheirWay
    <3> QED
      BY <3>2, <3>3
  <2>6. A(o) \subseteq B(o)
    <3>1. CASE UNCHANGED <<state, pc, op>>
      BY <1>2, <1>5, <3>1 DEF OnTheirWay
    <3>2. CASE /\ pc = "nop" /\ op[1] = side /\ pc' \in {"run", "idle"}
               /\ \A c \in CoRoutines : c # running => state'[c] = state[c]
      <4>1. running \notin A(o)
        BY <1>2, <3>2 DEF OnTheirWay, Listing
      <4> QED
        BY <1>2, <1>5, <1>8, <3>2, <4>1 DEF OnTheirWay
    <3> QED
      BY <3>1, <3>2 DEF Mover
  <2> DEFINE a == A(o)
             b == B(o)
  <2>7. a \subseteq CoRoutines /\ b \subseteq CoRoutines /\ h \notin a /\ a \cup {h} \subseteq b
    BY <1>2, <1>15, <2>4, <2>5, <2>6
  <2> HIDE DEF a, b
  <2>8. /\ Cardinality(a) \in Nat /\ Cardinality(b) \in Nat
        /\ Cardinality(a) + 1 <= Cardinality(b)
    BY <2>2, <2>7, Numbers
  <2> QED
    BY <1>3, <2>3, <2>8 DEF a, b
<1>18. Served'
  BY <1>2, <1>16, <1>17 DEF Served
<1> QED
  BY <1>9, <1>10, <1>11, <1>13, <1>14, <1>18 DEF IInv

LEMMA TransferKeeps ==
  ASSUME IInv, Transfer
  PROVE  IInv'
<1> DEFINE side == op[1]
<1>1. side \in Sides /\ state \in [CoRoutines -> {"start"} \cup Sides]
  BY DEF IInv, Homes, Transfer, Typed
<1>2. /\ CanDo(side) /\ Moves(side) /\ Wakes(Other(side))
      /\ UNCHANGED <<ticks, count, passed, ready, top, delayed, current, wake, running, at, late,
                     torn>>
  BY DEF Transfer, time, lists, insertion
<1>3. /\ pc = "nop" /\ op' = <<"none", 0>>
      /\ \/ pc' = "idle" /\ state' = [state EXCEPT ![running] = "start"]
         \/ pc' = "run" /\ state' = state
  BY DEF Transfer, Returns
<1>4. Mover(side)
  BY <1>1, <1>3 DEF Mover
<1>5. pc \notin Listing /\ Inserting' /\ at' \in Nat
  <2>1. pc' \notin Listing /\ pc \notin Listing
    BY <1>3 DEF Listing
  <2> QED
    BY <1>2, <2>1, NoneInserting DEF IInv, Typed
<1> HIDE DEF side
<1> QED
  BY <1>1, <1>2, <1>4, <1>5, MoverKeeps

(* What an interrupt sends wakes a receiver, and never the sender that is   *)
(* being listed.                                                            *)
LEMMA SendFromISRKeeps ==
  ASSUME IInv, SendFromISR
  PROVE  IInv'
<1>1. Typed /\ Once /\ Homes /\ Inserting
  BY DEF IInv
<1>2. /\ CanDo("send") /\ Moves("send") /\ Wakes("receive") /\ Mover("send")
      /\ UNCHANGED <<ticks, count, passed, ready, top, delayed, current, wake, running, state, pc,
                     op, at, late, torn>>
      /\ "send" \in Sides /\ "receive" \in Sides /\ Other("send") = "receive"
  BY DEF SendFromISR, Mover, time, lists, insertion, Sides, Other
<1>3. /\ waiting'["send"] = waiting["send"]
      /\ ToSet(waiting'["receive"]) \subseteq ToSet(waiting["receive"])
      /\ ToSet(pending') \subseteq ToSet(pending) \cup ToSet(waiting["receive"])
  <2>1. CASE Items("receive") = 0
    BY <1>2, <2>1 DEF Wakes
  <2>2. CASE Items("receive") # 0
    <3> DEFINE t == waiting["receive"]
               h == Head(t)
    <3>1. t # <<>> /\ t \in Seq(CoRoutines) /\ IsInjective(t)
      BY <1>1, <1>2, <2>2, SomeItems DEF Typed, Once
    <3>2. pending' = Append(pending, h) /\ waiting' = [waiting EXCEPT !["receive"] = Tail(t)]
      BY <1>2, <2>2 DEF Wakes
    <3> HIDE DEF t
    <3>3. h \in ToSet(t) /\ ToSet(Tail(t)) = ToSet(t) \ {h}
      BY <3>1, TailOnce
    <3>4. h \in CoRoutines
      BY <3>1, <3>3, EntriesOf
    <3> HIDE DEF h
    <3>5. waiting'["send"] = waiting["send"] /\ waiting'["receive"] = Tail(t)
      BY <1>1, <1>2, <3>2 DEF Typed
    <3>6. h \notin ToSet(pending) /\ pending \in Seq(CoRoutines) /\ IsInjective(pending)
      BY <1>1, <1>2, <3>3, <3>4 DEF Typed, Once, Homes, InEvent, InPending, t
    <3>7. ToSet(Append(pending, h)) = ToSet(pending) \cup {h}
      BY <3>4, <3>6, AppendNew
    <3> QED
      BY <3>2, <3>3, <3>5, <3>7 DEF t
  <2> QED
    BY <2>1, <2>2
<1>4. Inserting'
  <2>1. pc \in Listing => running \notin ToSet(waiting'["receive"])
    BY <1>1, <1>3 DEF Inserting
  <2>2. ASSUME pc \in {"walk", "step", "link"}
        PROVE  InDelayed(running)' /\ ~InEvent(running)' /\ ~InPending(running)'
    <3>1. pc \in Listing
      BY <2>2 DEF Listing
    <3>2. /\ InDelayed(running) /\ ~InEvent(running) /\ ~InPending(running)
          /\ running \notin ToSet(waiting["receive"])
      BY <1>1, <2>2, <3>1 DEF Inserting
    <3>3. InDelayed(running)'
      BY <1>2, <3>2 DEF InDelayed
    <3>4. ~InEvent(running)'
      BY <1>2, <1>3, <3>2 DEF InEvent, Sides
    <3>5. ~InPending(running)'
      BY <1>2, <1>3, <3>2 DEF InPending
    <3> QED
      BY <3>3, <3>4, <3>5
  <2> QED
    BY <1>1, <1>2, <1>3, <2>1, <2>2 DEF Inserting
<1>5. at' \in Nat /\ (late => late')
  BY <1>1, <1>2 DEF Typed
<1> QED
  BY <1>2, <1>4, <1>5, MoverKeeps

(* What an interrupt takes wakes the first sender: the iterator goes with   *)
(* the entry it is at, unless that is the one taken off.                    *)
LEMMA IteratorStays ==
  ASSUME IInv, ReceiveFromISR, ~Tears
  PROVE  Inserting' /\ at' \in Nat
<1> DEFINE t == waiting["send"]
<1>1. Typed /\ Once /\ Homes /\ Inserting
  BY DEF IInv
<1>2. /\ Wakes("send") /\ at' = IF at > 0 THEN at - 1 ELSE 0
      /\ UNCHANGED <<delayed, running, pc, op>>
      /\ "send" \in Sides /\ "receive" \in Sides
  BY DEF ReceiveFromISR, lists, Sides
<1>3. t \in Seq(CoRoutines) /\ IsInjective(t) /\ Len(t) \in Nat /\ at \in Nat
  BY <1>1, <1>2 DEF Typed, Once
<1>4. at' \in Nat /\ at' <= at /\ (at > 0 => at' = at - 1)
  BY <1>2, <1>3
<1>5. CASE Items("send") = 0
  <2>1. waiting' = waiting /\ pending' = pending
    BY <1>2, <1>5 DEF Wakes
  <2>2. pc \in {"walk", "step", "link"} =>
          InDelayed(running)' /\ ~InEvent(running)' /\ ~InPending(running)'
    BY <1>1, <1>2, <2>1 DEF Inserting, InDelayed, InEvent, InPending
  <2>3. pc \in {"walk", "step", "link"} => at' <= Len(t)
    BY <1>1, <1>3, <1>4 DEF Inserting
  <2>4. pc = "step" => at' = 0 \/ at' < Len(t)
    BY <1>1, <1>3, <1>4 DEF Inserting
  <2> QED
    BY <1>1, <1>2, <1>4, <2>1, <2>2, <2>3, <2>4 DEF Inserting
<1>6. CASE Items("send") # 0
  <2> DEFINE h == Head(t)
  <2>1. t # <<>> /\ Items("send") > 0
    <3>1. Items("send") \in Nat /\ waiting["send"] # <<>>
      BY <1>1, <1>2, <1>6, SomeItems
    <3> QED
      BY <1>6, <3>1
  <2>2. pending' = Append(pending, h) /\ waiting' = [waiting EXCEPT !["send"] = Tail(t)]
    BY <1>2, <1>6 DEF Wakes
  <2>3. /\ h \in ToSet(t) /\ ToSet(Tail(t)) = ToSet(t) \ {h} /\ Len(Tail(t)) = Len(t) - 1
        /\ Tail(t) \in Seq(CoRoutines)
    <3> HIDE DEF t
    <3>1. h \in ToSet(t) /\ ToSet(Tail(t)) = ToSet(t) \ {h}
      BY <1>3, <2>1, TailOnce
    <3> QED
      BY <1>3, <2>1, <3>1
  <2>4. h \in CoRoutines
    BY <1>3, <2>3, EntriesOf
  <2>5. h \notin ToSet(pending) /\ pending \in Seq(CoRoutines) /\ IsInjective(pending)
    BY <1>1, <1>2, <2>3, <2>4 DEF Typed, Once, Homes, InEvent, InPending
  <2> HIDE DEF h
  <2>6. ToSet(pending') = ToSet(pending) \cup {h}
    BY <2>2, <2>4, <2>5, AppendNew
  <2>7. waiting'["send"] = Tail(t) /\ waiting'["receive"] = waiting["receive"]
    BY <1>1, <1>2, <2>2 DEF Typed
  <2>8. ASSUME pc \in {"walk", "step", "link"}
        PROVE  /\ at' <= Len(Tail(t)) /\ (pc = "step" => at' = 0 \/ at' < Len(Tail(t)))
               /\ InDelayed(running)' /\ ~InEvent(running)' /\ ~InPending(running)'
    <3>1. /\ at <= Len(t) /\ (pc = "step" => at = 0 \/ at < Len(t))
          /\ InDelayed(running) /\ ~InEvent(running) /\ ~InPending(running)
      BY <1>1, <2>8 DEF Inserting
    <3>2. Len(t) >= 1
      BY <1>3, <2>1
    <3>3. at' <= Len(t) - 1 /\ (pc = "step" => at' = 0 \/ at' < Len(t) - 1)
      BY <1>2, <1>3, <3>1, <3>2
    <3>4. running \notin ToSet(t) /\ running \notin ToSet(waiting["receive"])
      BY <1>2, <3>1 DEF InEvent
    <3>5. InDelayed(running)' /\ ~InEvent(running)'
      BY <1>2, <2>3, <2>7, <3>1, <3>4 DEF InDelayed, InEvent, Sides
    <3>6. ~InPending(running)'
      BY <1>2, <2>3, <2>6, <3>1, <3>4 DEF InPending
    <3> QED
      BY <2>3, <3>3, <3>5, <3>6
  <2>9. pc \in {"linked", "listed", "counting"} => Tail(t) # <<>>
    <3>1. HAVE pc \in {"linked", "listed", "counting"}
    <3>2. Items("send") = Len(t) - 1
      BY <3>1 DEF Items
    <3> DEFINE r == Tail(t)
    <3>3. Len(r) > 0 /\ r \in Seq(CoRoutines)
      BY <1>3, <2>1, <2>3, <3>2
    <3> HIDE DEF r
    <3>4. r # <<>>
      BY <3>3
    <3> QED
      BY <3>4 DEF r
  <2> HIDE DEF t
  <2> QED
    BY <1>1, <1>2, <1>4, <2>7, <2>8, <2>9 DEF Inserting
<1> QED
  BY <1>4, <1>5, <1>6

(* A list used in the middle of its change: nothing is said of it any more. *)
LEMMA TornKeeps ==
  ASSUME IInv, ReceiveFromISR, Tears
  PROVE  IInv'
<1>1. Typed /\ Once /\ Homes /\ Resumes /\ InCycles /\ Inserting
  BY DEF IInv
<1>2. /\ messages > 0 /\ messages' = messages - 1 /\ torn'
      /\ UNCHANGED <<ticks, count, passed, ready, top, delayed, current, wake, pending, waiting,
                     state, running, pc, op, at>>
  BY DEF ReceiveFromISR, CanDo, Moves, time, lists
<1>3. messages' \in 0 .. Capacity
  BY <1>1, <1>2, ConstantsTyped DEF Typed
<1>4. Typed'
  BY <1>1, <1>2, <1>3 DEF Typed
<1>5. \A c \in CoRoutines : /\ InReady(c)' <=> InReady(c)
                            /\ InDelayed(c)' <=> InDelayed(c)
                            /\ InEvent(c)' <=> InEvent(c)
                            /\ InPending(c)' <=> InPending(c)
  BY <1>2 DEF InReady, InDelayed, InEvent, InPending
<1>6. Once' /\ Resumes'
  BY <1>1, <1>2 DEF Once, Resumes
<1>10. Homes'
  BY <1>1, <1>2, <1>5 DEF Homes, InReady
<1>7. InCycles'
  BY <1>1, <1>2, Zenon DEF InCycles, InOrder, Begin, overflow
<1>8. Inserting'
  BY <1>1, <1>2 DEF Inserting, InDelayed, InEvent, InPending
<1>9. Served'
  BY <1>2 DEF Served, Excused
<1> QED
  BY <1>4, <1>6, <1>7, <1>8, <1>9, <1>10 DEF IInv

LEMMA ReceiveFromISRKeeps ==
  ASSUME IInv, ReceiveFromISR
  PROVE  IInv'
<1>1. CASE Tears
  BY <1>1, TornKeeps
<1>2. CASE ~Tears
  <2>1. /\ CanDo("receive") /\ Moves("receive") /\ Wakes("send") /\ Mover("receive")
        /\ UNCHANGED <<ticks, count, passed, ready, top, delayed, current, wake, running, torn>>
        /\ late' = (late \/ (pc \in Listing /\ Items("send") = 0))
        /\ "receive" \in Sides /\ Other("receive") = "send"
    BY <1>2 DEF ReceiveFromISR, Mover, time, lists, Sides, Other
  <2>2. Inserting' /\ at' \in Nat
    BY <1>2, IteratorStays
  <2> QED
    BY <2>1, <2>2, MoverKeeps
<1> QED
  BY <1>1, <1>2

-----------------------------------------------------------------------------
(* Init, the steps, and the invariant.                                      *)

LEMMA InitHolds ==
  ASSUME Init
  PROVE  IInv
<1>1. /\ ticks = 0 /\ count = 0 /\ passed = 0 /\ top = 0 /\ current = 1
      /\ pending = <<>> /\ messages = 0 /\ running = None /\ pc = "creating"
      /\ op = <<"none", 0>>
      /\ ready = [p \in Levels |-> <<>>] /\ delayed = [n \in {1, 2} |-> <<>>]
      /\ wake = [c \in CoRoutines |-> 0] /\ waiting = [s \in Sides |-> <<>>]
      /\ state = [c \in CoRoutines |-> "start"] /\ at = 0
  BY DEF Init
<1>2. /\ <<>> \in Seq(CoRoutines) /\ IsInjective(<<>>) /\ ToSet(<<>>) = {}
  BY DEF IsInjective, ToSet
<1>3. 0 \in Levels /\ 0 \in 0 .. Capacity /\ 0 \in 0 .. Width - 1 /\ "creating" \in Places
  BY ConstantsTyped DEF Places
<1>4. /\ \A p \in Levels : ready[p] = <<>>
      /\ \A n \in {1, 2} : delayed[n] = <<>>
      /\ \A s \in Sides : waiting[s] = <<>>
      /\ "send" \in Sides /\ "receive" \in Sides /\ overflow = 2
  BY <1>1 DEF Sides, overflow
<1>5. op \in ({"none"} \cup Sides) \X (0 .. Width - 1)
  BY <1>1, <1>3
<1>6. /\ ready \in [Levels -> Seq(CoRoutines)] /\ delayed \in [{1, 2} -> Seq(CoRoutines)]
      /\ waiting \in [Sides -> Seq(CoRoutines)]
  BY <1>1, <1>2
<1>7. Typed
  BY <1>1, <1>2, <1>3, <1>5, <1>6 DEF Typed
<1>8. Once
  BY <1>1, <1>2, <1>4 DEF Once
<1>9. Homes
  <2>1. "creating" \notin CoRoutines
    BY <1>3, ConstantsTyped
  <2>2. \A c \in CoRoutines : Priority[c] \in Levels
    BY ConstantsTyped
  <2>3. \A c \in CoRoutines : ~InReady(c) /\ ~InDelayed(c) /\ ~InEvent(c) /\ ~InPending(c)
    BY <1>1, <1>2, <1>4, <2>1, <2>2 DEF InReady, InDelayed, InEvent, InPending
  <2> QED
    BY <1>1, <1>4, <2>3 DEF Homes
<1>10. Resumes
  BY <1>2, <1>4 DEF Resumes
<1>11. InCycles
  BY <1>1, <1>2, <1>4 DEF InCycles, InOrder
<1>12. Inserting /\ Served
  <2>1. pc \notin Listing
    BY <1>1 DEF Listing
  <2> QED
    BY <1>1, <1>4, <2>1 DEF Inserting, Served, Unserved
<1> QED
  BY <1>7, <1>8, <1>9, <1>10, <1>11, <1>12 DEF IInv

LEMMA StutterKeeps ==
  ASSUME IInv, UNCHANGED vars
  PROVE  IInv'
<1>1. UNCHANGED <<ticks, count, passed, ready, top, delayed, current, wake, pending, waiting,
                  messages, state, running, pc, op, at, late, torn>>
  BY DEF vars, time, lists, queue, insertion
<1>2. Typed' /\ Once' /\ Homes' /\ Resumes'
  BY <1>1 DEF IInv, Typed, Once, Homes, Resumes, InReady, InDelayed, InEvent, InPending
<1>3. InCycles'
  BY <1>1, Zenon DEF IInv, InCycles, InOrder, Begin, overflow
<1>4. Inserting'
  BY <1>1 DEF IInv, Inserting, InDelayed, InEvent, InPending
<1>5. Served'
  BY <1>1, Zenon DEF IInv, Served, Unserved, Excused, Supply, OnTheirWay
<1> QED
  BY <1>2, <1>3, <1>4, <1>5 DEF IInv

LEMMA CallsTyped ==
  ASSUME NEW c \in Calls
  PROVE  /\ c[2] \in Operations /\ c[3] \in 0 .. Width - 1
         /\ c[2] # "delay" => c[2] \in Sides
<1>1. c \in CoRoutines \X Operations \X (0 .. Width - 1)
  BY CoRoutinesAssumption
<1> QED
  BY <1>1 DEF Operations, Sides

LEMMA NextKeeps ==
  ASSUME IInv, Next
  PROVE  IInv'
<1>1. CASE \E c \in CoRoutines : xCoRoutineCreate(c)
  BY <1>1, CreateKeeps
<1>2. CASE vCoRoutineSchedule
  <2>1. CASE Begins \/ ReadTicks \/ NoneReady
    BY <2>1, QuietSteps
  <2>2. CASE TakePending
    BY <2>2, TakePendingKeeps
  <2>3. CASE MovePending
    BY <2>3, MovePendingWakes, WokeKeeps
  <2>4. CASE CountTick
    BY <2>4, CountTickKeeps
  <2>5. CASE WakeDelayed
    BY <2>5, WakeDelayedWakes, WokeKeeps
  <2>6. CASE NoneDue
    BY <2>6, NoneDueKeeps
  <2>7. CASE Select
    BY <2>7, SelectKeeps
  <2> QED
    BY <1>2, <2>1, <2>2, <2>3, <2>4, <2>5, <2>6, <2>7 DEF vCoRoutineSchedule
<1>3. CASE CoRoutine
  <2>1. ASSUME NEW c \in Calls, c[2] = "delay", Delay(c[3]) PROVE IInv'
    BY <2>1, CallsTyped, DelayKeeps
  <2>2. ASSUME NEW c \in Calls, c[2] # "delay", Call(c[2], c[3]) PROVE IInv'
    <3>1. \E s \in Sides, n \in 0 .. Width - 1 : Call(s, n)
      BY <2>2, CallsTyped
    <3> QED
      BY <3>1, QuietSteps
  <2>3. CASE Block
    BY <2>3, BlockKeeps
  <2>4. CASE Proceed \/ Missed
    BY <2>4, QuietSteps
  <2>5. CASE Transfer
    BY <2>5, TransferKeeps
  <2>6. CASE IsFull \/ BlockSender
    BY <2>6, IsFullKeeps, BlockSenderKeeps
  <2>7. CASE Look \/ Advance \/ SetContainer \/ ReadItems
    BY <2>7, WalkKeeps
  <2>8. CASE Link \/ WriteItems
    BY <2>8, LinkKeeps, WriteItemsKeeps
  <2> QED
    BY <1>3, <2>1, <2>2, <2>3, <2>4, <2>5, <2>6, <2>7, <2>8 DEF CoRoutine
<1>4. CASE Tick
  BY <1>4, TickKeeps
<1>5. CASE SendFromISR \/ ReceiveFromISR
  BY <1>5, SendFromISRKeeps, ReceiveFromISRKeeps
<1>6. CASE Torn
  BY <1>6, StutterKeeps DEF Torn
<1> QED
  BY <1>1, <1>2, <1>3, <1>4, <1>5, <1>6 DEF Next, Follows

(* The inductive invariant holds in every behaviour of the co-routines.     *)
THEOREM Invariance == Spec => []IInv
<1>1. Init => IInv
  BY InitHolds
<1>2. IInv /\ [Next]_vars => IInv'
  BY NextKeeps, StutterKeeps
<1> QED
  BY <1>1, <1>2, PTL DEF Spec

-----------------------------------------------------------------------------
(* What the invariant is for.                                               *)

LEMMA ListedOnce ==
  ASSUME IInv
  PROVE  OneHome
<1>1. Typed /\ Once /\ Homes
  BY DEF IInv
<1>2. IsInjective(delayed[1] \o delayed[2])
  <2> DEFINE a == delayed[1]
             b == delayed[2]
  <2>1. /\ a \in Seq(CoRoutines) /\ b \in Seq(CoRoutines) /\ IsInjective(a) /\ IsInjective(b)
        /\ ToSet(a) \cap ToSet(b) = {}
    BY <1>1 DEF Typed, Once
  <2> HIDE DEF a, b
  <2>2. IsInjective(a \o b)
    BY <2>1, ConcatOnce
  <2> QED
    BY <2>2 DEF a, b
<1>3. IsInjective(waiting["send"] \o waiting["receive"])
  <2> DEFINE a == waiting["send"]
             b == waiting["receive"]
  <2>1. /\ a \in Seq(CoRoutines) /\ b \in Seq(CoRoutines) /\ IsInjective(a) /\ IsInjective(b)
        /\ ToSet(a) \cap ToSet(b) = {}
    BY <1>1 DEF Typed, Once, Sides
  <2> HIDE DEF a, b
  <2>2. IsInjective(a \o b)
    BY <2>1, ConcatOnce
  <2> QED
    BY <2>2 DEF a, b
<1>4. \A c \in CoRoutines : /\ c \in Created => InReady(c) # InDelayed(c)
                            /\ InEvent(c) \/ InPending(c) => InDelayed(c)
                            /\ ~(InEvent(c) /\ InPending(c))
  <2> TAKE c \in CoRoutines
  <2>1. /\ ~(InReady(c) /\ InDelayed(c))
        /\ InEvent(c) \/ InPending(c) => InDelayed(c)
        /\ ~(InEvent(c) /\ InPending(c))
    BY <1>1 DEF Homes
  <2>2. c \in Created => InReady(c) \/ InDelayed(c)
    BY DEF Created
  <2>3. InReady(c) \in BOOLEAN /\ InDelayed(c) \in BOOLEAN
    BY DEF InReady, InDelayed
  <2>4. c \in Created => InReady(c) # InDelayed(c)
    BY <2>1, <2>2, <2>3
  <2> QED
    BY <2>1, <2>4
<1>5. \A c \in CoRoutines : /\ pc # "creating" /\ c \in Created => InReady(c) # InDelayed(c)
                            /\ InEvent(c) \/ InPending(c) => InDelayed(c)
                            /\ ~(InEvent(c) /\ InPending(c))
  BY <1>4
<1> QED
  BY <1>1, <1>2, <1>3, <1>5 DEF OneHome, Typed, Once

(* Every co-routine is on one list by each of its items: the scheduler of   *)
(* source/croutine.c finds the item of one whose time is over on the event  *)
(* list, or on the pending list an interrupt has moved it to.  It holds with*)
(* interrupts at every step of the listing of a sender, up to the first that*)
(* uses the half changed list (queue.c:1263).                               *)
THEOREM HomesOnce == Spec => []OneHome
<1>1. IInv => OneHome
  BY ListedOnce
<1> QED
  BY <1>1, Invariance, PTL

(* No interrupt and no co-routine that gives or takes a message between two *)
(* critical sections of another leaves a waiter behind: while one waits, as *)
(* many are on their way as there are messages, or places, for them.  What  *)
(* may break it is what xQueueCRSend leaves open by blocking with interrupts*)
(* enabled: room made when no sender is listed yet, and an interrupt that   *)
(* uses the list in mid change.                                             *)
THEOREM WakeupsKept == Spec => []NoLostWakeup
<1>1. IInv => NoLostWakeup
  BY DEF IInv, Served, NoLostWakeup, Unserved, Excused
<1> QED
  BY <1>1, Invariance, PTL

(* A co-routine that no interrupt wakes leaves its delay when the count of  *)
(* the scheduler is its time, wrapped or not.                               *)
Leaving ==
  \A c \in CoRoutines : InDelayed(c) /\ ~InPending(c) /\ ~InDelayed(c)' => count = wake[c]

LEMMA LeavesOnTime ==
  ASSUME IInv, Next
  PROVE  Leaving
<1>1. Typed /\ Once /\ Homes /\ InCycles
  BY DEF IInv
<1>2. CASE delayed' = delayed
  BY <1>2 DEF Leaving, InDelayed
<1>3. ASSUME NEW d \in CoRoutines, Woke(d), InPending(d) \/ count = wake[d]
      PROVE  Leaving
  BY <1>3 DEF Leaving, Woke, Shrinks, InDelayed
<1>4. CASE MovePending
  <2>1. pc \in CoRoutines /\ Woke(pc)
    BY <1>4, MovePendingWakes
  <2> QED
    BY <1>3, <2>1 DEF InPending
<1>5. CASE WakeDelayed
  <2>1. First \in CoRoutines /\ Woke(First)
    BY <1>5, WakeDelayedWakes
  <2>2. delayed[current] # <<>> /\ W(count) >= W(wake[First])
    BY <1>5 DEF WakeDelayed, IsDue
  <2>3. count = wake[First]
    BY <1>1, <2>2, DueNow
  <2> QED
    BY <1>3, <2>1, <2>3
<1>6. ASSUME NEW n \in 1 .. Width - 1, AddToDelayedList(n), pc \in {"run", "full"}, count' = count,
             pc' # "due"
      PROVE  Leaving
  <2>1. \A d \in CoRoutines : InDelayed(d) => InDelayed(d)'
    BY <1>1, <1>6, Sleeps
  <2> QED
    BY <2>1 DEF Leaving
<1>7. CASE CoRoutine
  <2>1. ASSUME NEW n \in 0 .. Width - 1, Delay(n) PROVE Leaving
    <3>1. CASE n > 0
      BY <1>6, <2>1, <3>1 DEF Delay, Returns, time
    <3>2. CASE ~(n > 0)
      BY <1>2, <2>1, <3>2 DEF Delay, lists
    <3> QED
      BY <3>1, <3>2
  <2>2. CASE Block
    <3>1. op[2] \in 0 .. Width - 1
      BY <1>1 DEF Typed
    <3>2. CASE op[2] > 0
      <4>1. op[2] \in 1 .. Width - 1
        BY <3>1, <3>2
      <4> QED
        BY <1>6, <2>2, <3>2, <4>1 DEF Block, Returns, time
    <3>3. CASE ~(op[2] > 0)
      BY <1>2, <2>2, <3>3 DEF Block, lists
    <3> QED
      BY <3>2, <3>3
  <2>3. CASE delayed' = delayed
    BY <1>2, <2>3
  <2>4. CASE BlockSender
    <3>1. op[2] \in 0 .. Width - 1 /\ pc = "full" /\ op[2] > 0
      BY <1>1, <2>4 DEF IInv, Typed, Inserting, BlockSender, Goto, Listing
    <3>2. op[2] \in 1 .. Width - 1
      BY <3>1, ConstantsTyped
    <3> QED
      BY <1>6, <2>4, <3>1, <3>2 DEF BlockSender, Goto, time
  <2>5. \/ delayed' = delayed \/ Block \/ BlockSender
        \/ \E n \in 0 .. Width - 1 : Delay(n)
    BY <1>7, CallsTyped DEF CoRoutine, Call, Proceed, Transfer, Missed, IsFull, Look, Advance,
           Link, SetContainer, ReadItems, WriteItems, lists
  <2> QED
    BY <2>1, <2>2, <2>3, <2>4, <2>5
<1>8. delayed' = delayed \/ MovePending \/ WakeDelayed \/ CoRoutine
  BY DEF Next, Follows, vCoRoutineSchedule, xCoRoutineCreate, Begins, TakePending, ReadTicks,
         CountTick, NoneDue, Select, NoneReady, Tick, SendFromISR, ReceiveFromISR, Torn, vars, lists
<1> QED
  BY <1>2, <1>4, <1>5, <1>7, <1>8

(* prvCheckDelayedList: a co-routine that no interrupt wakes leaves the     *)
(* delayed lists exactly when the scheduler's count has come to its time,   *)
(* on either side of a wrap of the count.                                   *)
THEOREM WokenOnTime == Spec => OnTime
<1>1. IInv /\ [Next]_vars => [Leaving]_vars
  BY LeavesOnTime
<1>2. Spec => [][Leaving]_vars
  BY <1>1, Invariance, PTL DEF Spec
<1> QED
  BY <1>2 DEF OnTime, Leaving
=============================================================================
