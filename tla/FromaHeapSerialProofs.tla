------------------------ MODULE FromaHeapSerialProofs ------------------------
(***************************************************************************)
(* Proofs about two components that share nothing.                         *)
(*                                                                         *)
(* FromaHeap, for a heap of any size and any requests: the blocks stay     *)
(* apart, none is handed out twice, and the callers get what FromaHeapSpec *)
(* promises.                                                               *)
(*                                                                         *)
(* FromaSerial, for any keys, commands and size of the buffer: strings are *)
(* never cut into each other, a character is lost only across the two      *)
(* locks, and the line that the user sees is the buffer.                   *)
(***************************************************************************)
EXTENDS FromaHeap, FromaSerial, FromaSequences

-----------------------------------------------------------------------------
(* The heap.                                                                *)

(* The blocks of a heap whose free chain is s and whose handed-out blocks   *)
(* are u.                                                                   *)
Blocks(s, sz, u) ==
  /\ s \in Seq(Nat)
  /\ sz \in [DOMAIN sz -> Nat]
  /\ DOMAIN sz \subseteq Nat
  /\ u \subseteq DOMAIN sz
  /\ IsInjective(s)
  /\ ToSet(s) \cap u = {}
  /\ ToSet(s) \cup u = DOMAIN sz

(* Where the blocks lie.                                                    *)
Layout(sz) ==
  /\ \A a \in DOMAIN sz : /\ a % Alignment = 0
                          /\ a + sz[a] <= TotalHeapSize
  /\ \A a, b \in DOMAIN sz :
       a # b => a + sz[a] <= b \/ b + sz[b] <= a

(* The inductive invariant.  That a block that is handed out has room for   *)
(* its header is what keeps the bytes behind it inside the heap.            *)
IInv ==
  /\ initialised \in BOOLEAN
  /\ Blocks(Chain, Size, used)
  /\ Layout(Size)
  /\ \A b \in used : Size[b] >= heapSTRUCT_SIZE
  /\ ~initialised => used = {} /\ DOMAIN size = {}

-----------------------------------------------------------------------------
(* Arithmetic of the alignment.                                             *)

LEMMA NatDivision ==
  ASSUME NEW A \in Nat \ {0}, NEW a \in Nat
  PROVE  /\ a = A * (a \div A) + (a % A)
         /\ a \div A \in Nat
         /\ a % A \in 0 .. A - 1
OBVIOUS

LEMMA Multiple ==
  ASSUME NEW A \in Nat \ {0}, NEW q \in Nat
  PROVE  (A * q) % A = 0
OBVIOUS

LEMMA AlignedSum ==
  ASSUME NEW A \in Nat \ {0}, NEW a \in Nat, NEW b \in Nat,
         a % A = 0, b % A = 0
  PROVE  (a + b) % A = 0
<1> DEFINE k == a \div A
           m == b \div A
<1>1. a = A * k /\ b = A * m /\ k \in Nat /\ m \in Nat
  BY NatDivision
<1> HIDE DEF k, m
<1>2. a + b = A * (k + m)
  BY <1>1
<1> QED
  BY <1>1, <1>2, Multiple

LEMMA RoundUp ==
  ASSUME NEW A \in Nat \ {0}, NEW a \in Nat
  PROVE  /\ (a + A - (a % A)) % A = 0
         /\ a + A - (a % A) \in Nat
         /\ a + A - (a % A) > a
<1> DEFINE k == a \div A
           r == a % A
<1>1. a = A * k + r /\ k \in Nat /\ r \in 0 .. A - 1
  BY NatDivision
<1> HIDE DEF k, r
<1>2. a + A - r = A * (k + 1)
  BY <1>1
<1>3. k + 1 \in Nat
  BY <1>1
<1>4. (A * (k + 1)) % A = 0
  BY <1>3, Multiple
<1> QED
  BY <1>1, <1>2, <1>4 DEF r

LEMMA HeaderAligned ==
  /\ heapSTRUCT_SIZE \in Nat \ {0}
  /\ heapSTRUCT_SIZE % Alignment = 0
<1> DEFINE a == LinkSize + Alignment - (LinkSize % Alignment)
<1>1. LinkSize \in Nat /\ Alignment \in Nat \ {0}
  BY HeapAssumption
<1>2. a % Alignment = 0 /\ a \in Nat /\ a > LinkSize
  BY <1>1, RoundUp
<1> HIDE DEF a
<1>3. a \in Nat \ {0}
  BY <1>1, <1>2
<1> QED
  BY <1>2, <1>3 DEF heapSTRUCT_SIZE, a

(* A request gives room for the header and keeps the alignment.             *)
LEMMA WantedAligned ==
  ASSUME NEW n \in Nat, Wanted(n) > 0
  PROVE  /\ Wanted(n) \in Nat
         /\ Wanted(n) % Alignment = 0
         /\ Wanted(n) >= n + heapSTRUCT_SIZE
<1> DEFINE w == n + heapSTRUCT_SIZE
<1>1. w \in Nat /\ Alignment \in Nat \ {0}
  BY HeaderAligned, HeapAssumption
<1>2. n # 0
  BY DEF Wanted
<1>3. Wanted(n) = IF w % Alignment # 0
                  THEN w + Alignment - (w % Alignment) ELSE w
  BY <1>2 DEF Wanted
<1> HIDE DEF w
<1>4. CASE w % Alignment # 0
  <2>1. /\ (w + Alignment - (w % Alignment)) % Alignment = 0
        /\ w + Alignment - (w % Alignment) \in Nat
        /\ w + Alignment - (w % Alignment) > w
    BY <1>1, RoundUp
  <2>2. Wanted(n) >= w
    BY <1>1, <1>3, <1>4, <2>1
  <2> QED
    BY <1>3, <1>4, <2>1, <2>2 DEF w
<1>5. CASE w % Alignment = 0
  BY <1>1, <1>3, <1>5 DEF w
<1> QED
  BY <1>4, <1>5

-----------------------------------------------------------------------------
(* Taking a block, splitting one, giving one back.                          *)

LEMMA ChainEntry ==
  ASSUME NEW s, NEW sz, NEW u, Blocks(s, sz, u),
         NEW k \in 0 .. Len(s) - 1
  PROVE  /\ s[k + 1] \in DOMAIN sz /\ s[k + 1] \notin u
         /\ s[k + 1] \in ToSet(s)
         /\ k + 1 \in 1 .. Len(s)
<1>1. s \in Seq(Nat) /\ Len(s) \in Nat
  BY DEF Blocks
<1>2. k + 1 \in 1 .. Len(s)
  BY <1>1
<1>3. s[k + 1] \in ToSet(s)
  BY <1>1, <1>2, EntriesOf
<1> QED
  BY <1>2, <1>3 DEF Blocks

LEMMA TakeBlocks ==
  ASSUME NEW s, NEW sz, NEW u, Blocks(s, sz, u),
         NEW k \in 0 .. Len(s) - 1
  PROVE  Blocks(RemoveAt(s, k + 1), sz, u \cup {s[k + 1]})
<1>1. s[k + 1] \in DOMAIN sz /\ s[k + 1] \in ToSet(s) /\ k + 1 \in 1 .. Len(s)
  BY ChainEntry
<1>2. /\ RemoveAt(s, k + 1) \in Seq(Nat)
      /\ IsInjective(RemoveAt(s, k + 1))
      /\ ToSet(RemoveAt(s, k + 1)) = ToSet(s) \ {s[k + 1]}
  BY <1>1, RemoveEntries, RemoveOnce DEF Blocks
<1> QED
  BY <1>1, <1>2 DEF Blocks

LEMMA GiveBlocks ==
  ASSUME NEW s, NEW sz, NEW u, Blocks(s, sz, u),
         NEW k \in 0 .. Len(s), NEW b \in u
  PROVE  Blocks(InsertAt(s, k + 1, b), sz, u \ {b})
<1>1. b \in Nat \ ToSet(s) /\ b \in DOMAIN sz
  BY DEF Blocks
<1>2. s \in Seq(Nat) /\ IsInjective(s)
  BY DEF Blocks
<1>3. InsertAt(s, k + 1, b) \in Seq(Nat)
  BY <1>1, <1>2, InsertEntries
<1>4. /\ IsInjective(InsertAt(s, k + 1, b))
      /\ ToSet(InsertAt(s, k + 1, b)) = ToSet(s) \cup {b}
  BY <1>1, <1>2, InsertNew
<1> QED
  BY <1>1, <1>3, <1>4 DEF Blocks

(* The sizes after a split of block b.                                      *)
Cut(sz, b, w) ==
  [a \in DOMAIN sz \cup {b + w} |->
     IF a = b THEN w ELSE IF a = b + w THEN sz[b] - w ELSE sz[a]]

(* The rest of the block is a block that did not exist.                     *)
LEMMA CutLayout ==
  ASSUME NEW sz, sz \in [DOMAIN sz -> Nat], DOMAIN sz \subseteq Nat,
         Layout(sz), NEW b \in DOMAIN sz, NEW w \in Nat \ {0}, w < sz[b],
         w % Alignment = 0
  PROVE  /\ b + w \notin DOMAIN sz
         /\ Cut(sz, b, w) \in [DOMAIN sz \cup {b + w} -> Nat]
         /\ DOMAIN Cut(sz, b, w) = DOMAIN sz \cup {b + w}
         /\ Layout(Cut(sz, b, w))
         /\ \A a \in DOMAIN sz \ {b} : Cut(sz, b, w)[a] = sz[a]
         /\ Cut(sz, b, w)[b] = w
<1> DEFINE c == Cut(sz, b, w)
<1>1. b \in Nat /\ sz[b] \in Nat /\ b + sz[b] <= TotalHeapSize
      /\ TotalHeapSize \in Nat /\ Alignment \in Nat \ {0}
  BY HeapAssumption DEF Layout
<1>2. b + w \notin DOMAIN sz
  <2> SUFFICES ASSUME b + w \in DOMAIN sz PROVE FALSE
    OBVIOUS
  <2>1. b + w # b /\ sz[b + w] \in Nat
    BY <1>1
  <2>2. b + w + sz[b + w] <= b \/ b + sz[b] <= b + w
    BY <2>1 DEF Layout
  <2> QED
    BY <1>1, <2>1, <2>2
<1>3. /\ DOMAIN c = DOMAIN sz \cup {b + w}
      /\ \A a \in DOMAIN sz \ {b} : c[a] = sz[a]
      /\ c[b] = w
      /\ c[b + w] = sz[b] - w
  BY <1>1, <1>2 DEF Cut
<1>4. c \in [DOMAIN sz \cup {b + w} -> Nat]
  BY <1>1 DEF Cut
<1> HIDE DEF c
<1>5. ASSUME NEW a \in DOMAIN c
      PROVE  a % Alignment = 0 /\ a + c[a] <= TotalHeapSize
  <2>1. CASE a \in DOMAIN sz \ {b}
    BY <2>1, <1>3 DEF Layout
  <2>2. CASE a = b
    BY <2>2, <1>1, <1>3 DEF Layout
  <2>3. CASE a = b + w
    <3>1. (b + w) % Alignment = 0
      BY <1>1, AlignedSum DEF Layout
    <3> QED
      BY <2>3, <3>1, <1>1, <1>3
  <2> QED
    BY <1>3, <2>1, <2>2, <2>3
<1>6. ASSUME NEW a \in DOMAIN c, NEW d \in DOMAIN c, a # d
      PROVE  a + c[a] <= d \/ d + c[d] <= a
  <2>1. ASSUME NEW x \in DOMAIN sz \ {b}
        PROVE  /\ x \in Nat /\ c[x] = sz[x] /\ sz[x] \in Nat
               /\ x + sz[x] <= b \/ b + sz[b] <= x
    BY <1>3 DEF Layout
  <2>2. CASE a \in DOMAIN sz \ {b} /\ d \in DOMAIN sz \ {b}
    BY <2>1, <2>2, <1>3, <1>6 DEF Layout
  <2>3. CASE a \in DOMAIN sz \ {b} /\ d \in {b, b + w}
    BY <2>1, <2>3, <1>1, <1>3, <1>6
  <2>4. CASE a \in {b, b + w} /\ d \in DOMAIN sz \ {b}
    BY <2>1, <2>4, <1>1, <1>3, <1>6
  <2>5. CASE a \in {b, b + w} /\ d \in {b, b + w}
    BY <2>5, <1>1, <1>3, <1>6
  <2> QED
    BY <1>3, <2>2, <2>3, <2>4, <2>5
<1>7. Layout(c)
  BY <1>5, <1>6 DEF Layout
<1> QED
  BY <1>2, <1>3, <1>4, <1>7 DEF c
(* A split block is taken out and its rest entered.                         *)
LEMMA SplitBlocks ==
  ASSUME NEW s, NEW sz, NEW u, Blocks(s, sz, u), Layout(sz),
         NEW k \in 0 .. Len(s) - 1, NEW w \in Nat \ {0}, w < sz[s[k + 1]],
         w % Alignment = 0, NEW j \in 0 .. Len(RemoveAt(s, k + 1))
  PROVE  Blocks(InsertAt(RemoveAt(s, k + 1), j + 1, s[k + 1] + w),
                Cut(sz, s[k + 1], w), u \cup {s[k + 1]})
<1> DEFINE b == s[k + 1]
           r == RemoveAt(s, k + 1)
           c == Cut(sz, b, w)
<1>1. /\ s \in Seq(Nat) /\ IsInjective(s)
      /\ b \in DOMAIN sz /\ b \in ToSet(s) /\ k + 1 \in 1 .. Len(s)
  BY ChainEntry DEF Blocks
<1>2. /\ r \in Seq(Nat) /\ IsInjective(r) /\ ToSet(r) = ToSet(s) \ {b}
  BY <1>1, RemoveEntries, RemoveOnce
<1>3. /\ b + w \notin DOMAIN sz
      /\ c \in [DOMAIN sz \cup {b + w} -> Nat]
      /\ DOMAIN c = DOMAIN sz \cup {b + w}
  BY <1>1, CutLayout, ZenonT(30) DEF Blocks
<1>j. j \in 0 .. Len(r)
  OBVIOUS
<1> HIDE DEF r, c
<1>4. b + w \in Nat \ ToSet(r)
  <2>1. DOMAIN sz \subseteq Nat /\ ToSet(s) \subseteq DOMAIN sz
    BY DEF Blocks
  <2>2. b \in Nat /\ b + w \in Nat
    BY <1>1, <2>1
  <2>3. b + w \notin ToSet(r)
    BY <1>2, <1>3, <2>1, Zenon
  <2> QED
    BY <2>2, <2>3
<1> DEFINE x == b + w
<1>x. x \in Nat \ ToSet(r) /\ x \in Nat
  BY <1>4
<1> HIDE DEF x
<1>2a. r \in Seq(Nat) /\ IsInjective(r)
  BY <1>2
<1> DEFINE i == InsertAt(r, j + 1, x)
<1>5. i \in Seq(Nat)
  BY <1>2a, <1>x, <1>j, InsertEntries
<1>6. IsInjective(i) /\ ToSet(i) = ToSet(r) \cup {x}
  BY <1>2a, <1>x, <1>j, InsertNew
<1>3a. /\ x \notin DOMAIN sz
       /\ c \in [DOMAIN sz \cup {x} -> Nat]
       /\ DOMAIN c = DOMAIN sz \cup {x}
  BY <1>3 DEF x
<1> HIDE DEF b, i
<1>7. Blocks(i, c, u \cup {b})
  <2>1. /\ DOMAIN sz \subseteq Nat /\ u \subseteq DOMAIN sz
        /\ ToSet(s) \cap u = {} /\ ToSet(s) \cup u = DOMAIN sz
    BY DEF Blocks
  <2>2. c \in [DOMAIN c -> Nat]
    BY <1>3a
  <2>3. DOMAIN c \subseteq Nat
    BY <1>3a, <1>x, <2>1
  <2>4. u \cup {b} \subseteq DOMAIN c
    BY <1>1, <1>3a, <2>1
  <2>5. ToSet(i) \cap (u \cup {b}) = {}
    BY <1>1, <1>2, <1>3a, <1>6, <2>1
  <2>6. ToSet(i) \cup (u \cup {b}) = DOMAIN c
    BY <1>1, <1>2, <1>3a, <1>6, <2>1
  <2> QED
    BY <1>5, <1>6, <2>2, <2>3, <2>4, <2>5, <2>6, Zenon DEF Blocks
<1> QED
  BY <1>7 DEF b, r, c, i, x

-----------------------------------------------------------------------------
(* The invariant.                                                           *)

LEMMA InitIInv == Init => IInv
<1> SUFFICES ASSUME Init PROVE IInv
  OBVIOUS
<1>1. /\ initialised = FALSE /\ used = {} /\ DOMAIN size = {}
  BY DEF Init
<1>2. Chain = <<0>> /\ Size = [b \in {0} |-> TotalHeapSize]
  BY <1>1 DEF Chain, Size
<1>3. /\ <<0>> \in Seq(Nat) /\ Len(<<0>>) = 1 /\ <<0>>[1] = 0
  OBVIOUS
<1>4. ToSet(<<0>>) = {0} /\ IsInjective(<<0>>)
  BY <1>3 DEF ToSet, IsInjective
<1>5. TotalHeapSize \in Nat /\ 0 % Alignment = 0
  BY HeapAssumption
<1>6. Blocks(Chain, Size, used)
  BY <1>1, <1>2, <1>3, <1>4, <1>5 DEF Blocks
<1>7. Layout(Size)
  BY <1>2, <1>5 DEF Layout
<1> QED
  BY <1>1, <1>6, <1>7 DEF IInv

(* What a granted request finds: a free block that is large enough.         *)
LEMMA GrantStep ==
  ASSUME IInv, NEW n \in Nat, Grant(n)
  PROVE  \E k \in 0 .. Len(Chain) - 1 :
           /\ Chain[k + 1] \in DOMAIN Size /\ Chain[k + 1] \notin used
           /\ Size[Chain[k + 1]] \in Nat
           /\ Wanted(n) \in Nat \ {0}
           /\ Wanted(n) % Alignment = 0
           /\ Wanted(n) >= heapSTRUCT_SIZE
           /\ Size[Chain[k + 1]] >= Wanted(n)
           /\ Passes(Chain, Size, Wanted(n), k)
           /\ used' = used \cup {Chain[k + 1]}
           /\ \/ /\ Size[Chain[k + 1]] > Wanted(n)
                 /\ Split(Chain[k + 1], k, Wanted(n))
              \/ TakeWhole(Chain[k + 1], k, Wanted(n))
           /\ initialised'
<1> DEFINE w == Wanted(n)
<1>1. PICK k \in 0 .. Len(Chain) - 1 :
        /\ Passes(Chain, Size, w, k)
        /\ used' = used \cup {Chain[k + 1]}
        /\ IF Size[Chain[k + 1]] - w > heapMINIMUM_BLOCK_SIZE
           THEN Split(Chain[k + 1], k, w)
           ELSE TakeWhole(Chain[k + 1], k, w)
  BY DEF Grant
<1>2. w > 0 /\ initialised'
  BY DEF Grant
<1>3. w \in Nat \ {0} /\ w % Alignment = 0 /\ w >= heapSTRUCT_SIZE
  <2>1. w \in Nat /\ w % Alignment = 0 /\ w >= n + heapSTRUCT_SIZE
    BY <1>2, WantedAligned
  <2> HIDE DEF w
  <2> QED
    BY <1>2, <2>1, HeaderAligned
<1> HIDE DEF w
<1>4. /\ Chain[k + 1] \in DOMAIN Size /\ Chain[k + 1] \notin used
      /\ Size[Chain[k + 1]] \in Nat
  <2>1. Blocks(Chain, Size, used)
    BY DEF IInv
  <2> QED
    BY <2>1, ChainEntry DEF Blocks
<1>5. Size[Chain[k + 1]] >= w
  <2>1. Chain \in Seq(Nat)
    BY DEF IInv, Blocks
  <2>2. k < Len(Chain)
    BY <2>1
  <2> QED
    BY <1>1, <2>2 DEF Passes
<1>6. \/ Size[Chain[k + 1]] > w /\ Split(Chain[k + 1], k, w)
      \/ TakeWhole(Chain[k + 1], k, w)
  BY <1>1, <1>3, <1>4, HeaderAligned DEF heapMINIMUM_BLOCK_SIZE
<1> QED
  BY <1>1, <1>2, <1>3, <1>4, <1>5, <1>6 DEF w

(* Bringing the heap into the invariant once it is initialised.             *)
LEMMA Established ==
  ASSUME initialised' = TRUE, Blocks(chain, size, used)', Layout(size)',
         \A b \in used' : size'[b] >= heapSTRUCT_SIZE
  PROVE  IInv'
BY DEF IInv, Chain, Size

LEMMA GrantIInv ==
  ASSUME IInv, NEW n \in Nat, Grant(n)
  PROVE  IInv'
<1>1. PICK k \in 0 .. Len(Chain) - 1 :
        /\ Chain[k + 1] \in DOMAIN Size /\ Chain[k + 1] \notin used
        /\ Size[Chain[k + 1]] \in Nat
        /\ Wanted(n) \in Nat \ {0}
        /\ Wanted(n) % Alignment = 0
        /\ Wanted(n) >= heapSTRUCT_SIZE
        /\ Size[Chain[k + 1]] >= Wanted(n)
        /\ used' = used \cup {Chain[k + 1]}
        /\ \/ /\ Size[Chain[k + 1]] > Wanted(n)
              /\ Split(Chain[k + 1], k, Wanted(n))
           \/ TakeWhole(Chain[k + 1], k, Wanted(n))
        /\ initialised'
  BY GrantStep
<1> DEFINE b == Chain[k + 1]
           w == Wanted(n)
<1>2. /\ Blocks(Chain, Size, used) /\ Layout(Size)
      /\ \A a \in used : Size[a] >= heapSTRUCT_SIZE
  BY DEF IInv
<1>3. initialised' = TRUE
  BY <1>2 DEF Grant
<1>4. CASE Size[b] > w /\ Split(b, k, w)
  <2>1. /\ size' = Cut(Size, b, w)
        /\ \E j \in 0 .. Len(RemoveAt(Chain, k + 1)) :
             chain' = InsertAt(RemoveAt(Chain, k + 1), j + 1, b + w)
    BY <1>4 DEF Split, Cut
  <2>2. PICK j \in 0 .. Len(RemoveAt(Chain, k + 1)) :
             chain' = InsertAt(RemoveAt(Chain, k + 1), j + 1, b + w)
    BY <2>1
  <2>3. Size \in [DOMAIN Size -> Nat] /\ DOMAIN Size \subseteq Nat
    BY <1>2 DEF Blocks
  <2>4. Blocks(chain', size', used')
    BY <1>1, <1>2, <1>4, <2>1, <2>2, SplitBlocks
  <2>5. /\ Layout(size')
        /\ \A a \in DOMAIN Size \ {b} : size'[a] = Size[a]
        /\ size'[b] = w
    <3>1. b \in DOMAIN Size /\ w \in Nat \ {0} /\ w < Size[b]
          /\ w % Alignment = 0
      BY <1>1, <1>4
    <3> HIDE DEF b, w
    <3>2. Layout(Cut(Size, b, w)) /\ b + w \notin DOMAIN Size
      BY <1>2, <2>3, <3>1, CutLayout
    <3>3. \A a \in DOMAIN Size \ {b} : Cut(Size, b, w)[a] = Size[a]
      BY <3>2 DEF Cut
    <3>4. Cut(Size, b, w)[b] = w
      BY <3>1 DEF Cut
    <3> QED
      BY <2>1, <3>2, <3>3, <3>4
  <2>6. used \subseteq DOMAIN Size
    BY <1>2 DEF Blocks
  <2>7. \A a \in used' : size'[a] >= heapSTRUCT_SIZE
    BY <1>1, <1>2, <2>5, <2>6
  <2> QED
    BY <1>3, <2>4, <2>5, <2>7, Established DEF Blocks, Layout
<1>5. CASE TakeWhole(b, k, w)
  <2>1. chain' = RemoveAt(Chain, k + 1) /\ size' = Size
    BY <1>5 DEF TakeWhole
  <2>2. Blocks(chain', size', used')
    BY <1>1, <1>2, <2>1, TakeBlocks
  <2>3. Layout(size')
    BY <1>2, <2>1
  <2>4. Size[b] >= heapSTRUCT_SIZE
    BY <1>1, HeaderAligned
  <2>5. \A a \in used' : size'[a] >= heapSTRUCT_SIZE
    BY <1>1, <1>2, <2>1, <2>4
  <2> QED
    BY <1>3, <2>2, <2>3, <2>5, Established DEF Blocks, Layout
<1> QED
  BY <1>1, <1>4, <1>5

LEMMA RefuseIInv ==
  ASSUME IInv, NEW n \in Nat, Refuse(n)
  PROVE  IInv'
<1>1. /\ chain' = Chain /\ size' = Size /\ used' = used
      /\ initialised' = TRUE
  BY DEF Refuse
<1>2. /\ Blocks(Chain, Size, used) /\ Layout(Size)
      /\ \A a \in used : Size[a] >= heapSTRUCT_SIZE
  BY DEF IInv
<1> QED
  BY <1>1, <1>2, Established DEF Blocks, Layout

(* Only an initialised heap has handed anything out.                        *)
LEMMA GivenByHeap ==
  ASSUME IInv, used # {}
  PROVE  initialised /\ Chain = chain /\ Size = size
BY DEF IInv, Chain, Size

LEMMA FreeIInv ==
  ASSUME IInv, NEW b \in used, vPortFree(b)
  PROVE  IInv'
<1>1. initialised /\ Chain = chain /\ Size = size
  BY GivenByHeap
<1>2. /\ Blocks(chain, size, used) /\ Layout(size)
      /\ \A a \in used : size[a] >= heapSTRUCT_SIZE
  BY <1>1 DEF IInv
<1>3. PICK k \in 0 .. Len(chain) : chain' = InsertAt(chain, k + 1, b)
  BY DEF vPortFree
<1>4. used' = used \ {b} /\ size' = size /\ initialised' = initialised
  BY DEF vPortFree
<1>5. Blocks(chain', size', used')
  BY <1>2, <1>3, <1>4, GiveBlocks
<1>6. initialised' = TRUE
  BY <1>1, <1>4 DEF IInv
<1> QED
  BY <1>2, <1>4, <1>5, <1>6, Established DEF Blocks, Layout

LEMMA StepIInv == IInv /\ [Next]_vars => IInv'
<1> SUFFICES ASSUME IInv, [Next]_vars PROVE IInv'
  OBVIOUS
<1>1. ASSUME NEW n \in Requests, pvPortMalloc(n) PROVE IInv'
  <2>1. n \in Nat
    BY HeapAssumption
  <2> QED
    BY <1>1, <2>1, GrantIInv, RefuseIInv DEF pvPortMalloc
<1>2. ASSUME NEW b \in used, vPortFree(b) PROVE IInv'
  BY <1>2, FreeIInv
<1>3. CASE UNCHANGED vars
  BY <1>3 DEF vars, IInv, Blocks, Layout, Chain, Size
<1> QED
  BY <1>1, <1>2, <1>3 DEF Next

(* The invariant holds throughout.                                          *)
THEOREM Invariant == Spec => []IInv
BY InitIInv, StepIInv, PTL DEF Spec

(* No block is handed out twice or lost from both the chain and the callers *)
(* (pvPortMalloc, vPortFree), whatever is asked for in whatever order.      *)
THEOREM BlocksOnceEach == Spec => []OnceEach
<1>1. IInv => OnceEach
  BY DEF IInv, Blocks, OnceEach, Chain, Size
<1> QED
  BY <1>1, Invariant, PTL

(* Splitting never makes blocks that overlap or that leave the heap.        *)
THEOREM BlocksApart == Spec => []Apart
<1>1. IInv => Apart
  <2> SUFFICES ASSUME IInv PROVE Apart
    OBVIOUS
  <2>1. CASE initialised
    BY <2>1 DEF IInv, Layout, Apart, Size
  <2>2. CASE ~initialised
    BY <2>2 DEF IInv, Apart
  <2> QED
    BY <2>1, <2>2
<1> QED
  BY <1>1, Invariant, PTL

-----------------------------------------------------------------------------
(* The promise to the callers.                                              *)

(* What a block is to the caller it is handed to.                           *)
Handed(sz, b) == [at |-> b + heapSTRUCT_SIZE, bytes |-> sz[b] - heapSTRUCT_SIZE]

LEMMA GivenHanded == Given = {Handed(size, b) : b \in used}
BY DEF Given, Handed

LEMMA HandedMemory ==
  ASSUME NEW sz, sz \in [DOMAIN sz -> Nat], DOMAIN sz \subseteq Nat,
         Layout(sz), NEW b \in DOMAIN sz, sz[b] >= heapSTRUCT_SIZE
  PROVE  /\ Handed(sz, b) \in Promise!Memory
         /\ Handed(sz, b).at = b + heapSTRUCT_SIZE
         /\ Handed(sz, b).bytes = sz[b] - heapSTRUCT_SIZE
         /\ Handed(sz, b).at + Handed(sz, b).bytes <= TotalHeapSize
<1>1. /\ b \in Nat /\ sz[b] \in Nat /\ b + sz[b] <= TotalHeapSize
      /\ b % Alignment = 0
      /\ heapSTRUCT_SIZE \in Nat /\ heapSTRUCT_SIZE % Alignment = 0
      /\ TotalHeapSize \in Nat /\ Alignment \in Nat \ {0}
  BY HeaderAligned, HeapAssumption DEF Layout
<1>2. (b + heapSTRUCT_SIZE) % Alignment = 0
  BY <1>1, AlignedSum
<1>3. b + heapSTRUCT_SIZE \in Promise!Aligned
  BY <1>1, <1>2 DEF Promise!Aligned
<1>4. sz[b] - heapSTRUCT_SIZE \in 0 .. TotalHeapSize
  BY <1>1
<1>5. Handed(sz, b) \in Promise!Memory
  BY <1>3, <1>4 DEF Handed, Promise!Memory
<1>6. Handed(sz, b).at = b + heapSTRUCT_SIZE
      /\ Handed(sz, b).bytes = sz[b] - heapSTRUCT_SIZE
  BY DEF Handed
<1> QED
  BY <1>1, <1>5, <1>6

LEMMA HandedApart ==
  ASSUME NEW sz, sz \in [DOMAIN sz -> Nat], DOMAIN sz \subseteq Nat,
         Layout(sz), NEW b \in DOMAIN sz, NEW c \in DOMAIN sz, b # c,
         sz[b] >= heapSTRUCT_SIZE, sz[c] >= heapSTRUCT_SIZE
  PROVE  Promise!Disjoint(Handed(sz, b), Handed(sz, c))
<1>1. /\ Handed(sz, b).at = b + heapSTRUCT_SIZE
      /\ Handed(sz, b).bytes = sz[b] - heapSTRUCT_SIZE
      /\ Handed(sz, c).at = c + heapSTRUCT_SIZE
      /\ Handed(sz, c).bytes = sz[c] - heapSTRUCT_SIZE
  BY DEF Handed
<1>2. /\ b \in Nat /\ sz[b] \in Nat /\ c \in Nat /\ sz[c] \in Nat
      /\ heapSTRUCT_SIZE \in Nat
      /\ b + sz[b] <= c \/ c + sz[c] <= b
  BY HeaderAligned DEF Layout
<1> QED
  BY <1>1, <1>2 DEF Promise!Disjoint

LEMMA GrantPromise ==
  ASSUME IInv, IInv', NEW n \in Nat, Grant(n)
  PROVE  Promise!Malloc
<1>1. PICK k \in 0 .. Len(Chain) - 1 :
        /\ Chain[k + 1] \in DOMAIN Size /\ Chain[k + 1] \notin used
        /\ Size[Chain[k + 1]] \in Nat
        /\ Wanted(n) \in Nat \ {0}
        /\ used' = used \cup {Chain[k + 1]}
        /\ \/ /\ Size[Chain[k + 1]] > Wanted(n)
              /\ Split(Chain[k + 1], k, Wanted(n))
           \/ TakeWhole(Chain[k + 1], k, Wanted(n))
        /\ initialised'
  BY GrantStep
<1> DEFINE b == Chain[k + 1]
           x == Handed(size', b)
<1>2. initialised' = TRUE
  BY <1>1 DEF Grant
<1>3. /\ size' \in [DOMAIN size' -> Nat] /\ DOMAIN size' \subseteq Nat
      /\ Layout(size') /\ used' \subseteq DOMAIN size'
      /\ \A a \in used' : size'[a] >= heapSTRUCT_SIZE
  BY <1>2 DEF IInv, Blocks, Layout, Chain, Size
<1>4. Blocks(Chain, Size, used) /\ used \subseteq DOMAIN Size
      /\ Size \in [DOMAIN Size -> Nat] /\ DOMAIN Size \subseteq Nat
      /\ Layout(Size)
  BY DEF IInv, Blocks
<1>5. \A a \in used : size'[a] = Size[a]
  <2>1. CASE TakeWhole(b, k, Wanted(n))
    BY <2>1 DEF TakeWhole
  <2>2. CASE Size[b] > Wanted(n) /\ Split(b, k, Wanted(n))
    <3> DEFINE w == Wanted(n)
    <3>1. size' = Cut(Size, b, w)
      BY <2>2 DEF Split, Cut
    <3>2. b \in DOMAIN Size /\ w \in Nat \ {0} /\ w < Size[b] /\ b \notin used
      BY <1>1, <2>2
    <3> HIDE DEF b, w
    <3>3. b + w \notin DOMAIN Size
      <4> SUFFICES ASSUME b + w \in DOMAIN Size PROVE FALSE
        OBVIOUS
      <4>1. b \in Nat /\ Size[b] \in Nat /\ b + w # b
        BY <1>4, <3>2
      <4>2. b + w + Size[b + w] <= b \/ b + Size[b] <= b + w
        BY <1>4, <3>2, <4>1 DEF Layout
      <4> QED
        BY <1>4, <3>2, <4>1, <4>2
    <3> QED
      BY <1>4, <3>1, <3>2, <3>3 DEF Cut
  <2> QED
    BY <1>1, <2>1, <2>2
<1>6. \A a \in used : Size = size
  BY GivenByHeap
<1>7. Given = {Handed(Size, a) : a \in used}
  BY <1>6, GivenHanded
<1>8. Given' = {Handed(size', a) : a \in used'}
  BY DEF Given, Handed
<1>9. \A a \in used : Handed(size', a) = Handed(Size, a)
  BY <1>5 DEF Handed
<1> HIDE DEF b
<1>10. used' = used \cup {b} /\ b \notin used /\ b \in used'
  BY <1>1 DEF b
<1>11. Given' = Given \cup {x}
  BY <1>7, <1>8, <1>9, <1>10
<1>12. x \in Promise!Memory /\ x.at + x.bytes <= TotalHeapSize
  BY <1>3, <1>10, HandedMemory
<1>13. \A y \in Given : Promise!Disjoint(x, y)
  <2> SUFFICES ASSUME NEW a \in used
               PROVE  Promise!Disjoint(x, Handed(size', a))
    BY <1>7, <1>9
  <2>1. a # b /\ a \in used' /\ a \in DOMAIN size' /\ b \in DOMAIN size'
    BY <1>3, <1>10
  <2> QED
    BY <1>3, <1>10, <2>1, HandedApart
<1> HIDE DEF x
<1> QED
  BY <1>11, <1>12, <1>13 DEF Promise!Malloc

LEMMA FreePromise ==
  ASSUME IInv, NEW b \in used, vPortFree(b)
  PROVE  \E x \in Given : Promise!Free(x)
<1> DEFINE x == Handed(size, b)
<1>1. Given = {Handed(size, a) : a \in used}
  BY GivenHanded
<1>2. used' = used \ {b} /\ size' = size
  BY DEF vPortFree
<1>3. Given' = {Handed(size, a) : a \in used \ {b}}
  BY <1>2 DEF Given, Handed
<1>4. used \subseteq Nat
  BY GivenByHeap DEF IInv, Blocks
<1>5. \A a \in used : a # b => Handed(size, a) # x
  <2> SUFFICES ASSUME NEW a \in used, a # b, Handed(size, a) = x PROVE FALSE
    OBVIOUS
  <2>1. a + heapSTRUCT_SIZE = b + heapSTRUCT_SIZE
    BY DEF Handed
  <2> QED
    BY <1>4, <2>1, HeaderAligned
<1>6. Given' = Given \ {x} /\ x \in Given
  BY <1>1, <1>3, <1>5
<1> QED
  BY <1>6 DEF Promise!Free

(* A refused request changes nothing the callers see.                       *)
LEMMA RefusePromise ==
  ASSUME IInv, NEW n \in Nat, Refuse(n)
  PROVE  Given' = Given
<1>1. size' = Size /\ used' = used
  BY DEF Refuse
<1>2. CASE used = {}
  BY <1>1, <1>2 DEF Given
<1>3. CASE used # {}
  BY <1>1, <1>3, GivenByHeap DEF Given
<1> QED
  BY <1>2, <1>3

(* pvPortMalloc and vPortFree keep FromaHeapSpec's promise: what callers    *)
(* hold is aligned, inside the heap and nobody else's.                      *)
THEOREM HeapKeepsPromise == Spec => PromiseKept
<1>1. Init => Promise!Init
  BY DEF Init, Promise!Init, Given
<1>2. ASSUME IInv, IInv', [Next]_vars PROVE [Promise!Next]_Given
  <2>1. ASSUME NEW n \in Requests, pvPortMalloc(n)
        PROVE  [Promise!Next]_Given
    <3>1. n \in Nat
      BY HeapAssumption
    <3>2. CASE Grant(n)
      BY <1>2, <3>1, <3>2, GrantPromise DEF Promise!Next
    <3>3. CASE Refuse(n)
      BY <1>2, <3>1, <3>3, RefusePromise
    <3> QED
      BY <2>1, <3>2, <3>3 DEF pvPortMalloc
  <2>2. ASSUME NEW b \in used, vPortFree(b) PROVE [Promise!Next]_Given
    BY <1>2, <2>2, FreePromise DEF Promise!Next
  <2>3. CASE UNCHANGED vars
    BY <2>3 DEF vars, Given
  <2> QED
    BY <1>2, <2>1, <2>2, <2>3 DEF Next
<1> QED
  BY <1>1, <1>2, Invariant, PTL DEF Spec, PromiseKept, Promise!Spec

-----------------------------------------------------------------------------
(* The serial port.                                                         *)

(* What each task may call.                                                 *)
StringCalls == {"uartLock"} \X Seq({"text"})
CharCalls == {"uartMiniLock"} \X Seq(Echoes)
ShellCalls ==
  StringCalls \cup CharCalls \cup {<<"resume", "prime">>}
    \cup {<<"suspend", x>> : x \in {"shell", "prime", "idle1"}}
PrimeCalls(after) == StringCalls \cup {<<"resume", after>>}
CallsOf ==
  [t \in Tasks |-> IF t = "shell" THEN ShellCalls
                   ELSE IF t \in {"prime", "smp0"} THEN PrimeCalls("shell")
                   ELSE IF t = "smp1" THEN PrimeCalls("idle1") ELSE {}]

Texts == Tasks \X Nat
PutPlaces == {"poll", "write"}
GetPlaces == {"get"} \cup Keys
CallsTyped ==
  /\ out \in [Tasks -> UNION {Seq(CallsOf[t]) : t \in Tasks}]
  /\ \A t \in Tasks : out[t] \in Seq(CallsOf[t])
SerialTyped ==
  /\ lock \in [Locks -> Cores \cup {Free}]
  /\ pc \in [Cores -> {"idle"} \cup PutPlaces \cup GetPlaces] /\ pc[1] \notin GetPlaces
  /\ CallsTyped
  /\ suspended \subseteq Tasks
  /\ thr \in Echoes \cup Texts \cup {Nothing} /\ rhr \in Keys \cup {Nothing}
  /\ strings \in [Tasks -> Nat]
  /\ buffer \in Seq(Letters)

(* Where a core is in the call that it makes, and the locks that it holds   *)
(* for it.                                                                  *)
Puts(c, l) == pc[c] \in PutPlaces /\ Calls(c) # <<>> /\ Head(Calls(c))[1] = l
Engaged ==
  /\ \A c \in Cores : pc[c] \in PutPlaces => \E l \in Locks : Puts(c, l)
  /\ \A c \in Cores : pc[c] = "write" => Head(Calls(c))[2] # <<>>
  /\ pc[0] \in GetPlaces => Running(0) = "shell" /\ out["shell"] = <<>>
Holds(c, l) == Puts(c, l) \/ (l = "uartMiniLock" /\ pc[c] = "get")
LocksHeld == \A l \in Locks, c \in Cores : lock[l] = c <=> Holds(c, l)

(* No letter is of a string that nobody has begun; one that is still to be  *)
(* sent, or in the register, is of no string before the last.               *)
Text(c) == <<Running(c), strings[Running(c)]>>
Begun == {p \in Texts : p[2] <= strings[p[1]]}
Sequence ==
  /\ sent = [last |-> sent.last, before |-> sent.before]
  /\ sent.last \in Begun \/ (sent.last = Nothing /\ sent.before = {})
  /\ sent.before \subseteq Begun \cup {Nothing}
  /\ sent.last \notin sent.before
  /\ thr \in Texts => thr \in Begun /\ thr \notin sent.before
  /\ \A c \in Cores : Puts(c, "uartLock") =>
       /\ Text(c) \notin sent.before
       /\ pc[c] = "write" => thr \notin Texts
       /\ Text(c) = sent.last /\ thr \in Texts => thr = Text(c)

(* Who is about to write an echo has seen no other in the register.         *)
Polled == \A c \in Cores : Puts(c, "uartMiniLock") /\ pc[c] = "write" => thr \notin Echoes

(* What the terminal will show, once the echoes that the shell has begun    *)
(* are there.                                                               *)
Screens == [cursor : Nat, text : Seq(Letters \cup {Space})]
Done == <<"uartMiniLock", <<>> >>
Quiet(calls) == \A i \in 1 .. Len(calls) : calls[i][1] = "uartMiniLock" => calls[i] = Done
At(n) == screen.cursor = n /\ n <= Len(screen.text)
Leaves(n, S) ==
  \A i \in 1 .. Len(screen.text) : i \notin S =>
    screen.text[i] = IF i <= n THEN buffer[i] ELSE Space
WipesThree(calls) == calls = <<Char(Backspace), Char(Space), Char(Backspace)>>
WipesTwo(calls) ==
  calls \in {<<Char(Space), Char(Backspace)>>, <<Done, Char(Space), Char(Backspace)>>}
WipesOne(calls) == calls \in {<<Char(Backspace)>>, <<Done, Char(Backspace)>>}
Echoing ==
  LET calls == out["shell"]
      n == Len(buffer)
  IN
  /\ screen \in Screens
  /\ \/ Quiet(calls) /\ At(n) /\ Leaves(n, {})
     \/ n > 0 /\ calls = <<Char(buffer[n])>> /\ At(n - 1) /\ Leaves(n - 1, {})
     \/ WipesThree(calls) /\ At(n + 1) /\ Leaves(n, {n + 1})
     \/ WipesTwo(calls) /\ At(n) /\ n < Len(screen.text) /\ Leaves(n, {n + 1})
     \/ WipesOne(calls) /\ At(n + 1) /\ Leaves(n, {})

SerialInv ==
  SerialTyped /\ Engaged /\ LocksHeld /\ Sequence /\ Polled /\ LostAcrossLocks /\ Echoing

LEMMA SerialValues ==
  /\ Space \notin Letters /\ Backspace \notin Letters /\ Space # Backspace
  /\ Enter \notin Letters /\ Enter # Backspace
  /\ Nothing \notin Echoes /\ Nothing \notin Texts /\ Echoes \cap Texts = {}
  /\ "idle" \notin GetPlaces /\ PutPlaces \cap GetPlaces = {} /\ "get" \notin Keys
BY SerialAssumption DEF Keys, Echoes, Texts, GetPlaces, PutPlaces

LEMMA RunningIs ==
  /\ Running(0) \in {"shell", "prime", "smp0"} /\ Running(1) \in {"idle1", "smp1"}
  /\ \A c \in Cores : Running(c) \in Tasks
BY DEF Running, Tasks, Cores

LEMMA CallsOfTasks ==
  /\ CallsOf["shell"] = ShellCalls /\ CallsOf["idle1"] = {}
  /\ CallsOf["prime"] = PrimeCalls("shell") /\ CallsOf["smp0"] = PrimeCalls("shell")
  /\ CallsOf["smp1"] = PrimeCalls("idle1")
BY DEF CallsOf, Tasks

(* Calls for one task do not disturb those of the others.                   *)
LEMMA CallsSet ==
  ASSUME CallsTyped, NEW t \in Tasks, NEW s \in Seq(CallsOf[t]),
         out' = [out EXCEPT ![t] = s]
  PROVE  CallsTyped' /\ out'[t] = s /\ \A u \in Tasks \ {t} : out'[u] = out[u]
<1>1. out'[t] = s /\ \A u \in Tasks \ {t} : out'[u] = out[u]
  BY DEF CallsTyped
<1>2. \A u \in Tasks : out'[u] \in Seq(CallsOf[u])
  BY <1>1 DEF CallsTyped
<1> DEFINE R == UNION {Seq(CallsOf[u]) : u \in Tasks}
<1>3. out' \in [Tasks -> R]
  <2>1. s \in R
    OBVIOUS
  <2> HIDE DEF R
  <2> QED
    BY <2>1 DEF CallsTyped, R
<1> QED
  BY <1>1, <1>2, <1>3 DEF CallsTyped

LEMMA CallsThen ==
  ASSUME CallsTyped, NEW c \in Cores, NEW s \in Seq(CallsOf[Running(c)]), ThenCalls(c, s)
  PROVE  CallsTyped' /\ out'[Running(c)] = s
         /\ \A u \in Tasks \ {Running(c)} : out'[u] = out[u]
<1>1. Running(c) \in Tasks
  BY RunningIs
<1>2. out' = [out EXCEPT ![Running(c)] = s]
  BY DEF ThenCalls
<1> QED
  BY <1>1, <1>2, CallsSet

(* The next call of a core.                                                 *)
LEMMA NextCall ==
  ASSUME CallsTyped, NEW c \in Cores, Calls(c) # <<>>
  PROVE  /\ Calls(c) = out[Running(c)] /\ Calls(c) \in Seq(CallsOf[Running(c)])
         /\ Head(Calls(c)) \in CallsOf[Running(c)]
         /\ Tail(Calls(c)) \in Seq(CallsOf[Running(c)])
<1>1. Calls(c) = out[Running(c)] /\ Calls(c) \in Seq(CallsOf[Running(c)])
  BY RunningIs DEF Calls, CallsTyped
<1> DEFINE S == CallsOf[Running(c)]
           s == Calls(c)
<1> HIDE DEF S, s
<1>2. s \in Seq(S) /\ s # <<>>
  BY <1>1 DEF S, s
<1>3. Head(s) \in S /\ Tail(s) \in Seq(S)
  BY <1>2
<1> QED
  BY <1>1, <1>3 DEF S, s

(* A call that puts: a string, or a character of the shell's.               *)
LEMMA PutCall ==
  ASSUME CallsTyped, NEW c \in Cores, Calls(c) # <<>>, Head(Calls(c))[1] \in Locks
  PROVE  /\ Head(Calls(c)) \in StringCalls \cup CharCalls
         /\ Head(Calls(c)) = <<Head(Calls(c))[1], Head(Calls(c))[2]>>
         /\ Head(Calls(c))[1] = "uartLock" => Head(Calls(c))[2] \in Seq({"text"})
         /\ Head(Calls(c))[1] = "uartMiniLock" =>
              c = 0 /\ Running(c) = "shell" /\ Head(Calls(c))[2] \in Seq(Echoes)
<1> DEFINE h == Head(Calls(c))
<1>1. h \in CallsOf[Running(c)]
  BY NextCall
<1> HIDE DEF h
<1>2. h[1] \in {"uartLock", "uartMiniLock"}
  BY DEF Locks, h
<1>3. CASE Running(c) = "shell"
  <2>1. h \in StringCalls \cup CharCalls
    BY <1>1, <1>2, <1>3, CallsOfTasks DEF ShellCalls
  <2>2. c = 0
    BY <1>3, RunningIs DEF Cores
  <2> QED
    BY <1>3, <2>1, <2>2 DEF StringCalls, CharCalls, h
<1>4. CASE Running(c) # "shell"
  <2>1. CallsOf[Running(c)] \in {{}, PrimeCalls("shell"), PrimeCalls("idle1")}
    BY <1>4, CallsOfTasks, RunningIs DEF Cores
  <2>2. h \in StringCalls
    BY <1>1, <1>2, <2>1 DEF PrimeCalls
  <2>3. h[1] = "uartLock" /\ h = <<h[1], h[2]>> /\ h[2] \in Seq({"text"})
    BY <2>2 DEF StringCalls
  <2> QED
    BY <2>2, <2>3 DEF h
<1> QED
  BY <1>3, <1>4

(* What the tasks call is what they may call.                               *)
QuietCalls == ShellCalls \ CharCalls

LEMMA StringsAre ==
  ASSUME NEW S, StringCalls \subseteq S, NEW n \in Nat
  PROVE  Strings(n) \in Seq(S)
<1>1. <<"uartLock", <<"text", "text">> >> \in StringCalls
  <2>1. <<"text", "text">> \in Seq({"text"})
    OBVIOUS
  <2> QED
    BY <2>1 DEF StringCalls
<1> DEFINE x == <<"uartLock", <<"text", "text">> >>
<1> HIDE DEF x
<1>2. x \in S
  BY <1>1 DEF x
<1>3. [i \in 1 .. n |-> x] \in Seq(S)
  BY <1>2
<1> QED
  BY <1>3 DEF Strings, x

LEMMA Follows ==
  ASSUME NEW S, NEW r \in Seq(S), NEW s \in Seq(S)
  PROVE  r \o s \in Seq(S)
OBVIOUS

LEMMA QuietAre ==
  /\ StringCalls \subseteq QuietCalls
  /\ <<"resume", "prime">> \in QuietCalls
  /\ \A x \in {"shell", "prime", "idle1"} : <<"suspend", x>> \in QuietCalls
BY DEF QuietCalls, ShellCalls, StringCalls, CharCalls

LEMMA ExecutedIs ==
  ASSUME NEW line
  PROVE  Executed(line) \in Seq(QuietCalls)
<1> USE QuietAre
<1>1. line \notin DOMAIN gsCommandTable => Executed(line) = Strings(1)
  BY DEF Executed
<1>2. CASE line \in DOMAIN gsCommandTable
  <2>1. gsCommandTable[line] \in Commands
    BY <1>2, SerialAssumption
  <2>2. Executed(line) \in {vHelp, vVersion, vClear, vTaskState, vPrime, vPrimeSMP}
    BY <1>2, <2>1 DEF Executed, Commands
  <2>3. Cardinality(DOMAIN gsCommandTable) \in Nat
    BY SerialAssumption, FS_CardinalityType
  <2>4. vHelp \in Seq(QuietCalls)
    <3>1. 1 + 3 * Cardinality(DOMAIN gsCommandTable) \in Nat
      BY <2>3
    <3> QED
      BY <3>1, StringsAre DEF vHelp
  <2>5. vVersion \in Seq(QuietCalls) /\ vClear \in Seq(QuietCalls) /\ vTaskState \in Seq(QuietCalls)
    BY StringsAre DEF vVersion, vClear, vTaskState
  <2>6. vPrime \in Seq(QuietCalls) /\ vPrimeSMP \in Seq(QuietCalls)
    BY DEF vPrime, vPrimeSMP
  <2> QED
    BY <2>2, <2>4, <2>5, <2>6
<1>3. Strings(1) \in Seq(QuietCalls)
  BY StringsAre
<1> QED
  BY <1>1, <1>2, <1>3

(* A command line is carried out without an echo.                           *)
LEMMA CommandIs ==
  ASSUME NEW line
  PROVE  Strings(1) \o vExecuteCommand(line) \in Seq(QuietCalls)
<1>1. Strings(1) \in Seq(QuietCalls)
  BY StringsAre, QuietAre
<1>2. vExecuteCommand(line) \in Seq(QuietCalls)
  BY <1>1, ExecutedIs, Follows DEF vExecuteCommand
<1> QED
  BY <1>1, <1>2, Follows

LEMMA BannerIs == vTaskState \o Strings(1) \in Seq(QuietCalls)
<1>1. Strings(1) \in Seq(QuietCalls) /\ Strings(4) \in Seq(QuietCalls)
  BY StringsAre, QuietAre
<1> QED
  BY <1>1, Follows DEF vTaskState

LEMMA RoundIs ==
  ASSUME NEW after
  PROVE  Round(after) \in Seq(PrimeCalls(after))
<1>1. StringCalls \subseteq PrimeCalls(after) /\ <<"resume", after>> \in PrimeCalls(after)
  BY DEF PrimeCalls
<1>2. Strings(1) \in Seq(PrimeCalls(after)) /\ vTaskState \in Seq(PrimeCalls(after))
  BY <1>1, StringsAre DEF vTaskState
<1>3. << <<"resume", after>> >> \in Seq(PrimeCalls(after))
  BY <1>1
<1> QED
  BY <1>2, <1>3, Follows DEF Round

LEMMA EchoIs ==
  /\ \A x \in Echoes : <<Char(x)>> \in Seq(ShellCalls)
  /\ <<Char(Backspace), Char(Space), Char(Backspace)>> \in Seq(ShellCalls)
<1>1. \A x \in Echoes : Char(x) \in ShellCalls
  <2>1. ASSUME NEW x \in Echoes PROVE <<x>> \in Seq(Echoes)
    OBVIOUS
  <2> QED
    BY <2>1 DEF Char, CharCalls, ShellCalls
<1>2. Backspace \in Echoes /\ Space \in Echoes
  BY DEF Echoes
<1> QED
  BY <1>1, <1>2

LEMMA QuietIs ==
  ASSUME NEW s \in Seq(QuietCalls)
  PROVE  Quiet(s) /\ s \in Seq(ShellCalls)
<1>1. \A x \in QuietCalls : x \in ShellCalls /\ x[1] # "uartMiniLock"
  BY DEF QuietCalls, ShellCalls, StringCalls, CharCalls
<1>2. \A i \in 1 .. Len(s) : s[i] \in QuietCalls
  OBVIOUS
<1>3. Quiet(s)
  BY <1>1, <1>2 DEF Quiet
<1>4. s \in Seq(ShellCalls)
  BY <1>1
<1> QED
  BY <1>3, <1>4

(* The buffer without its last letter.                                      *)
LEMMA FrontIs ==
  ASSUME NEW S, NEW s \in Seq(S), s # <<>>
  PROVE  /\ Front(s) \in Seq(S) /\ Len(Front(s)) = Len(s) - 1 /\ Len(s) > 0
         /\ \A i \in 1 .. Len(s) - 1 : Front(s)[i] = s[i]
<1>1. Front(s) = SubSeq(s, 1, Len(s) - 1)
  BY DEF Front
<1>2. \A i \in 1 .. Len(s) - 1 : s[i] \in S
  OBVIOUS
<1> DEFINE n == Len(s) - 1
<1>3. n \in Int /\ n >= 0 /\ Len(s) = n + 1
  OBVIOUS
<1>4. \A i \in 1 .. n : s[i] \in S
  BY <1>2
<1> HIDE DEF n
<1>5. /\ SubSeq(s, 1, n) \in Seq(S) /\ Len(SubSeq(s, 1, n)) = n
      /\ \A i \in 1 .. n : SubSeq(s, 1, n)[i] = s[i]
  BY <1>3, <1>4, SubSeqProperties
<1> QED
  BY <1>1, <1>3, <1>5 DEF n

LEMMA GotoIs ==
  ASSUME SerialTyped, NEW c \in Cores, NEW l, Goto(c, l)
  PROVE  pc'[c] = l /\ \A d \in Cores \ {c} : pc'[d] = pc[d]
BY DEF SerialTyped, Goto

LEMMA GotoTyped ==
  ASSUME SerialTyped, NEW c \in Cores, NEW l, Goto(c, l),
         l \in {"idle"} \cup PutPlaces \/ (c = 0 /\ l \in GetPlaces)
  PROVE  pc' \in [Cores -> {"idle"} \cup PutPlaces \cup GetPlaces] /\ pc'[1] \notin GetPlaces
<1>1. l \in {"idle"} \cup PutPlaces \cup GetPlaces
  OBVIOUS
<1>2. pc' \in [Cores -> {"idle"} \cup PutPlaces \cup GetPlaces]
  BY <1>1 DEF SerialTyped, Goto
<1>3. pc'[1] \notin GetPlaces
  BY GotoIs, SerialValues DEF SerialTyped, Cores
<1> QED
  BY <1>2, <1>3

(* A call goes on: it puts a character.                                     *)
LEMMA PutWriteIs ==
  ASSUME SerialTyped, Engaged, NEW c \in Cores, PutWrite(c)
  PROVE  /\ Calls(c) = out[Running(c)] /\ Calls(c) # <<>>
         /\ \E l \in Locks, s \in Seq({"text"}) \cup Seq(Echoes) :
              /\ s # <<>> /\ Head(Calls(c)) = <<l, s>> /\ Puts(c, l)
              /\ << <<l, Tail(s)>> >> \o Tail(Calls(c)) \in Seq(CallsOf[Running(c)])
              /\ ThenCalls(c, << <<l, Tail(s)>> >> \o Tail(Calls(c)))
              /\ l = "uartLock" => thr' = Text(c)
              /\ l = "uartMiniLock" => /\ s \in Seq(Echoes) /\ thr' = Head(s)
                                       /\ c = 0 /\ Running(c) = "shell"
<1> DEFINE t == Running(c)
           h == Head(Calls(c))
           l == h[1]
           s == h[2]
<1>1. Calls(c) = out[t] /\ pc[c] = "write"
  BY DEF Calls, PutWrite
<1>2. Calls(c) # <<>> /\ l \in Locks /\ Puts(c, l)
  BY <1>1 DEF Engaged, Puts, PutPlaces
<1>3. s # <<>>
  BY <1>1 DEF Engaged
<1>4. /\ h \in StringCalls \cup CharCalls /\ h = <<l, s>>
      /\ l = "uartLock" => s \in Seq({"text"})
      /\ l = "uartMiniLock" => c = 0 /\ Running(c) = "shell" /\ s \in Seq(Echoes)
  BY <1>2, PutCall DEF SerialTyped
<1>5. h \in CallsOf[t] /\ Tail(Calls(c)) \in Seq(CallsOf[t])
  BY <1>2, NextCall DEF SerialTyped
<1>6. ThenCalls(c, << <<l, Tail(s)>> >> \o Tail(Calls(c)))
  BY <1>1 DEF PutWrite
<1>7. thr' = IF l = "uartLock" THEN Text(c) ELSE Head(s)
  BY <1>1 DEF PutWrite, Text
<1>8. <<l, Tail(s)>> \in CallsOf[t]
  <2> HIDE DEF h
  <2>1. CASE l = "uartLock"
    <3>1. <<l, Tail(s)>> \in StringCalls
      <4>1. Tail(s) \in Seq({"text"})
        BY <1>3, <1>4, <2>1
      <4> QED
        BY <2>1, <4>1 DEF StringCalls
    <3>2. CallsOf[t] \in {{}, ShellCalls, PrimeCalls("shell"), PrimeCalls("idle1")}
      BY CallsOfTasks, RunningIs DEF Cores
    <3> QED
      BY <1>5, <3>1, <3>2 DEF ShellCalls, PrimeCalls
  <2>2. CASE l = "uartMiniLock"
    <3>1. Tail(s) \in Seq(Echoes)
      BY <1>3, <1>4, <2>2
    <3> QED
      BY <1>4, <2>2, <3>1, CallsOfTasks DEF CharCalls, ShellCalls
  <2> QED
    BY <1>2, <2>1, <2>2 DEF Locks
<1>9. << <<l, Tail(s)>> >> \o Tail(Calls(c)) \in Seq(CallsOf[t])
  <2> DEFINE S == CallsOf[t]
             x == <<l, Tail(s)>>
             r == Tail(Calls(c))
  <2> HIDE DEF S, x, r
  <2>1. x \in S /\ r \in Seq(S)
    BY <1>5, <1>8 DEF S, x, r
  <2>2. <<x>> \o r \in Seq(S)
    BY <2>1
  <2> QED
    BY <2>2 DEF S, x, r
<1>10. s \in Seq({"text"}) \cup Seq(Echoes) /\ (l = "uartLock" \/ l = "uartMiniLock")
  BY <1>2, <1>4 DEF Locks
<1> HIDE DEF h
<1>11. /\ l = "uartLock" => thr' = Text(c)
       /\ l = "uartMiniLock" => /\ s \in Seq(Echoes) /\ thr' = Head(s)
                                /\ c = 0 /\ Running(c) = "shell"
  BY <1>4, <1>7
<1>12. Head(Calls(c)) = <<l, s>>
  BY <1>4 DEF h
<1> HIDE DEF l, s
<1> QED
  BY <1>1, <1>2, <1>3, <1>6, <1>9, <1>10, <1>11, <1>12

(* Only the shell suspends tasks, and each core resumes its own.            *)
LEMMA SuspendIs ==
  ASSUME SerialTyped, NEW c \in Cores, Suspend(c)
  PROVE  /\ c = 0 /\ Running(0) = "shell" /\ pc[c] = "idle"
         /\ \E x \in {"shell", "prime", "idle1"} : suspended' = suspended \cup {x}
<1> DEFINE h == Head(Calls(c))
<1>1. h[1] = "suspend" /\ pc[c] = "idle" /\ Calls(c) # <<>> /\ suspended' = suspended \cup {h[2]}
  BY DEF Suspend
<1>2. h \in CallsOf[Running(c)]
  BY <1>1, NextCall DEF SerialTyped
<1> HIDE DEF h
<1>3. Running(c) = "shell"
  <2>1. CallsOf[Running(c)] \in {{}, PrimeCalls("shell"), PrimeCalls("idle1")}
        \/ Running(c) = "shell"
    BY CallsOfTasks, RunningIs DEF Cores
  <2> QED
    BY <1>1, <1>2, <2>1 DEF PrimeCalls, StringCalls
<1>4. c = 0
  BY <1>3, RunningIs DEF Cores
<1>5. h \in ShellCalls
  BY <1>2, <1>3, CallsOfTasks
<1>6. h[2] \in {"shell", "prime", "idle1"}
  BY <1>1, <1>5 DEF ShellCalls, StringCalls, CharCalls
<1> QED
  BY <1>1, <1>3, <1>4, <1>6

LEMMA ResumeIs ==
  ASSUME SerialTyped, NEW c \in Cores, Resume(c)
  PROVE  /\ pc[c] = "idle"
         /\ \E x \in Tasks : /\ suspended' = suspended \ {x}
                             /\ c = 1 => x = "idle1"
                             /\ c = 0 => x \in {"shell", "prime"}
<1> DEFINE h == Head(Calls(c))
<1>1. h[1] = "resume" /\ pc[c] = "idle" /\ Calls(c) # <<>> /\ suspended' = suspended \ {h[2]}
  BY DEF Resume
<1>2. h \in CallsOf[Running(c)]
  BY <1>1, NextCall DEF SerialTyped
<1> HIDE DEF h
<1>3. CASE c = 1
  <2>1. h \in PrimeCalls("idle1")
    BY <1>2, <1>3, CallsOfTasks, RunningIs
  <2>2. h[2] = "idle1"
    BY <1>1, <2>1 DEF PrimeCalls, StringCalls
  <2> QED
    BY <1>1, <1>3, <2>2 DEF Tasks
<1>4. CASE c = 0
  <2>1. h \in ShellCalls \/ h \in PrimeCalls("shell")
    BY <1>2, <1>4, CallsOfTasks, RunningIs
  <2>2. h[2] \in {"shell", "prime"}
    BY <1>1, <2>1 DEF PrimeCalls, ShellCalls, StringCalls, CharCalls
  <2> QED
    BY <1>1, <1>4, <2>2 DEF Tasks
<1> QED
  BY <1>3, <1>4 DEF Cores

(* The steps of core c.                                                     *)
CoreStep(c) ==
  \/ Put(c) \/ Suspend(c) \/ Resume(c) \/ vPrimeTaskSMP(c)
  \/ c = 0 /\ (vPrimeTask \/ Shell)

(* What a step of one core leaves alone on the other.                       *)
LEMMA CallsElsewhere ==
  ASSUME SerialTyped, Engaged, NEW c \in Cores, CoreStep(c), NEW d \in Cores \ {c}
  PROVE  pc'[d] = pc[d] /\ out'[Running(d)] = out[Running(d)]
<1>1. Running(d) \in Tasks \ {Running(c)}
  BY RunningIs DEF Cores
<1>2. ASSUME NEW s, ThenCalls(c, s) PROVE out'[Running(d)] = out[Running(d)]
  BY <1>1, <1>2 DEF ThenCalls, SerialTyped, CallsTyped
<1>3. ASSUME NEW l, Goto(c, l) PROVE pc'[d] = pc[d]
  BY <1>3, GotoIs
<1>4. CASE Put(c)
  BY <1>2, <1>3, <1>4, PutWriteIs DEF Put, PutLock, PutPoll, PutUnlock, PutWrite
<1>5. CASE Suspend(c) \/ Resume(c) \/ vPrimeTaskSMP(c)
  BY <1>2, <1>5 DEF Suspend, Resume, vPrimeTaskSMP
<1>6. CASE c = 0 /\ vPrimeTask
  BY <1>2, <1>6 DEF vPrimeTask
<1>7. CASE c = 0 /\ Shell
  <2>1. Running(d) # "shell"
    BY <1>7, RunningIs DEF Cores
  <2>2. ASSUME NEW b, NEW calls, Handles(b, calls)
        PROVE  pc'[d] = pc[d] /\ out'[Running(d)] = out[Running(d)]
    BY <1>3, <1>7, <2>1, <2>2 DEF Handles, SerialTyped, CallsTyped
  <2>3. CASE GetLock \/ GetNothing \/ GetChar
    BY <1>3, <1>7, <2>3 DEF GetLock, GetNothing, GetChar
  <2>4. CASE OnBackspace \/ OnEnter \/ OnLetter
    BY <2>2, <2>4 DEF OnBackspace, OnEnter, OnLetter
  <2> QED
    BY <1>7, <2>3, <2>4 DEF Shell
<1> QED
  BY <1>4, <1>5, <1>6, <1>7 DEF CoreStep

LEMMA SuspendedIs ==
  ASSUME SerialTyped, Engaged, NEW c \in Cores, CoreStep(c)
  PROVE  \/ UNCHANGED suspended
         \/ pc[c] = "idle" /\ c = 0 /\ Suspend(c)
         \/ pc[c] = "idle" /\ Resume(c)
<1>1. ASSUME NEW b, NEW calls, Handles(b, calls) PROVE UNCHANGED suspended
  BY <1>1 DEF Handles
<1>2. CASE Put(c)
  BY <1>2 DEF Put, PutLock, PutPoll, PutUnlock, PutWrite
<1>3. CASE Suspend(c)
  BY <1>3, SuspendIs
<1>4. CASE Resume(c)
  BY <1>4, ResumeIs
<1>5. CASE vPrimeTaskSMP(c) \/ vPrimeTask
  BY <1>5 DEF vPrimeTaskSMP, vPrimeTask
<1>6. CASE Shell
  BY <1>1, <1>6 DEF Shell, GetLock, GetNothing, GetChar, OnBackspace, OnEnter, OnLetter
<1> QED
  BY <1>2, <1>3, <1>4, <1>5, <1>6 DEF CoreStep

(* A core's task changes when the core is in no call to the port.           *)
LEMMA RunningStays ==
  ASSUME SerialTyped, Engaged, NEW c \in Cores, CoreStep(c), NEW d \in Cores,
         pc[d] \in PutPlaces \/ (d = 0 /\ pc[d] \in GetPlaces)
  PROVE  Running(d)' = Running(d)
<1>1. CASE UNCHANGED suspended
  BY <1>1 DEF Running
<1>2. pc[d] # "idle"
  BY SerialValues DEF PutPlaces
<1>3. CASE pc[c] = "idle" /\ c = 0 /\ Suspend(c)
  <2>1. d = 1
    BY <1>2, <1>3 DEF Cores
  <2>2. Running(1) # "idle1"
    <3>1. pc[1] \in PutPlaces /\ Calls(1) # <<>>
      BY <2>1 DEF Engaged, Puts, Cores
    <3>2. Calls(1) = out[Running(1)] /\ Head(Calls(1)) \in CallsOf[Running(1)]
      BY <3>1, NextCall DEF SerialTyped, Cores
    <3> QED
      BY <3>2, CallsOfTasks
  <2>3. "idle1" \in suspended
    BY <2>2 DEF Running
  <2>4. "idle1" \in suspended'
    BY <1>3, <2>3, SuspendIs
  <2> QED
    BY <2>1, <2>3, <2>4 DEF Running
<1>4. CASE pc[c] = "idle" /\ Resume(c)
  <2>1. PICK x \in Tasks : /\ suspended' = suspended \ {x}
                           /\ c = 1 => x = "idle1"
                           /\ c = 0 => x \in {"shell", "prime"}
    BY <1>4, ResumeIs
  <2>2. c # d
    BY <1>2, <1>4
  <2> QED
    BY <2>1, <2>2 DEF Running, Cores
<1> QED
  BY <1>1, <1>3, <1>4, SuspendedIs

LEMMA Elsewhere ==
  ASSUME SerialTyped, Engaged, NEW c \in Cores, CoreStep(c), NEW d \in Cores \ {c}
  PROVE  /\ pc'[d] = pc[d]
         /\ pc[d] \in PutPlaces => Running(d)' = Running(d) /\ Calls(d)' = Calls(d)
         /\ d = 0 /\ pc[d] \in GetPlaces => Running(d)' = Running(d) /\ Calls(d)' = Calls(d)
         /\ \A l \in Locks : (Puts(d, l)' <=> Puts(d, l)) /\ (Holds(d, l)' <=> Holds(d, l))
<1>1. pc'[d] = pc[d] /\ out'[Running(d)] = out[Running(d)]
  BY CallsElsewhere
<1>2. ASSUME pc[d] \in PutPlaces \/ (d = 0 /\ pc[d] \in GetPlaces)
      PROVE  Running(d)' = Running(d) /\ Calls(d)' = Calls(d)
  <2>1. Running(d)' = Running(d)
    BY <1>2, RunningStays
  <2> QED
    BY <1>1, <2>1 DEF Calls
<1>3. \A l \in Locks : Puts(d, l)' <=> Puts(d, l)
  <2>1. CASE pc[d] \in PutPlaces
    BY <1>1, <1>2, <2>1 DEF Puts
  <2>2. CASE pc[d] \notin PutPlaces
    BY <1>1, <2>2 DEF Puts
  <2> QED
    BY <2>1, <2>2
<1> QED
  BY <1>1, <1>2, <1>3 DEF Holds

(* A core keeps to its locks: it takes one, gives one back, or goes on.     *)
Takes(c, l) ==
  /\ lock[l] = Free /\ lock' = [lock EXCEPT ![l] = c]
  /\ \A k \in Locks : ~Holds(c, k) /\ (Holds(c, k)' <=> k = l)
Gives(c, l) ==
  /\ lock' = [lock EXCEPT ![l] = Free]
  /\ \A k \in Locks : (Holds(c, k) <=> k = l) /\ ~Holds(c, k)'
GoesOn(c) == UNCHANGED lock /\ \A k \in Locks : Holds(c, k)' <=> Holds(c, k)

LEMMA LocksKept ==
  ASSUME SerialTyped, Engaged, LocksHeld, NEW c \in Cores, CoreStep(c),
         GoesOn(c) \/ \E l \in Locks : Takes(c, l) \/ Gives(c, l)
  PROVE  LocksHeld'
<1>1. \A d \in Cores \ {c}, l \in Locks : Holds(d, l)' <=> Holds(d, l)
  BY Elsewhere
<1>2. \A d \in Cores : d # Free
  BY DEF Cores, Free
<1> SUFFICES ASSUME NEW k \in Locks, NEW d \in Cores
             PROVE  lock'[k] = d <=> Holds(d, k)'
  BY DEF LocksHeld
<1>3. lock[k] = d <=> Holds(d, k)
  BY DEF LocksHeld
<1>4. CASE GoesOn(c)
  BY <1>1, <1>3, <1>4 DEF GoesOn
<1>5. ASSUME NEW l \in Locks, Takes(c, l) PROVE lock'[k] = d <=> Holds(d, k)'
  <2>1. lock'[k] = IF k = l THEN c ELSE lock[k]
    BY <1>5 DEF Takes, SerialTyped
  <2>2. CASE d = c
    BY <1>3, <1>5, <2>1, <2>2 DEF Takes
  <2>3. CASE d # c
    BY <1>1, <1>2, <1>3, <1>5, <2>1, <2>3 DEF Takes
  <2> QED
    BY <2>2, <2>3
<1>6. ASSUME NEW l \in Locks, Gives(c, l) PROVE lock'[k] = d <=> Holds(d, k)'
  <2>1. lock'[k] = IF k = l THEN Free ELSE lock[k]
    BY <1>6 DEF Gives, SerialTyped
  <2>2. lock[l] = c
    BY <1>6 DEF Gives, LocksHeld
  <2>3. CASE d = c
    BY <1>2, <1>3, <1>6, <2>1, <2>3 DEF Gives
  <2>4. CASE d # c
    BY <1>1, <1>2, <1>3, <2>1, <2>2, <2>4
  <2> QED
    BY <2>3, <2>4
<1> QED
  BY <1>4, <1>5, <1>6

(* The state of core c after a step of its own, for Engaged.                *)
Sound(c) ==
  /\ pc[c] \in PutPlaces => \E l \in Locks : Puts(c, l)
  /\ pc[c] = "write" => Head(Calls(c))[2] # <<>>
  /\ c = 0 /\ pc[c] \in GetPlaces => Running(0) = "shell" /\ out["shell"] = <<>>

LEMMA EngagedKept ==
  ASSUME SerialTyped, Engaged, NEW c \in Cores, CoreStep(c), Sound(c)'
  PROVE  Engaged'
<1> SUFFICES ASSUME NEW d \in Cores PROVE Sound(d)'
  BY DEF Engaged, Sound, Cores
<1>1. CASE d # c
  <2>1. /\ pc'[d] = pc[d]
        /\ pc[d] \in PutPlaces => Running(d)' = Running(d) /\ Calls(d)' = Calls(d)
        /\ d = 0 /\ pc[d] \in GetPlaces => Running(d)' = Running(d) /\ Calls(d)' = Calls(d)
        /\ \A l \in Locks : (Puts(d, l)' <=> Puts(d, l)) /\ (Holds(d, l)' <=> Holds(d, l))
    BY <1>1, Elsewhere
  <2>2. pc'[d] \in PutPlaces => \E l \in Locks : Puts(d, l)'
    BY <2>1 DEF Engaged
  <2>3. pc'[d] = "write" => Head(Calls(d)')[2] # <<>>
    BY <2>1 DEF Engaged, PutPlaces
  <2>4. d = 0 /\ pc'[d] \in GetPlaces => Running(0)' = "shell" /\ out'["shell"] = <<>>
    BY <2>1 DEF Engaged, Calls
  <2> QED
    BY <2>2, <2>3, <2>4 DEF Sound
<1> QED
  BY <1>1

LEMMA IdleHoldsNone ==
  ASSUME NEW c \in Cores, pc[c] \notin PutPlaces, pc[c] # "get"
  PROVE  \A k \in Locks : ~Holds(c, k)
BY DEF Holds, Puts

(* Each step of a core, and what it does to the locks.                      *)
Keeps(c) == SerialTyped' /\ Sound(c)' /\ (GoesOn(c) \/ \E l \in Locks : Takes(c, l) \/ Gives(c, l))

LEMMA PutLockKeeps ==
  ASSUME SerialTyped, Engaged, NEW c \in Cores, PutLock(c)
  PROVE  /\ Keeps(c) /\ Running(c)' = Running(c) /\ pc'[c] = "poll"
         /\ \E l \in Locks :
              /\ Takes(c, l) /\ Puts(c, l)'
              /\ strings' = IF l = "uartLock"
                            THEN [strings EXCEPT ![Running(c)] = @ + 1] ELSE strings
<1>1. PICK l \in Locks :
        /\ Head(Calls(c))[1] = l /\ Lock(c, l)
        /\ strings' = IF l = "uartLock" THEN [strings EXCEPT ![Running(c)] = @ + 1] ELSE strings
  BY DEF PutLock
<1>2. /\ pc[c] = "idle" /\ Calls(c) # <<>> /\ Goto(c, "poll")
      /\ UNCHANGED <<out, suspended, uart, shell, keys>>
  BY DEF PutLock
<1>3. Running(c)' = Running(c) /\ Calls(c)' = Calls(c) /\ pc'[c] = "poll"
  BY <1>2, GotoIs DEF Running, Calls
<1>4. Puts(c, l)' /\ \A k \in Locks : Puts(c, k)' <=> k = l
  BY <1>1, <1>2, <1>3 DEF Puts, PutPlaces
<1>5. Takes(c, l)
  <2>1. \A k \in Locks : ~Holds(c, k)
    BY <1>2, IdleHoldsNone, SerialValues DEF PutPlaces
  <2> QED
    BY <1>1, <1>3, <1>4, <2>1 DEF Takes, Lock, Holds
<1>6. SerialTyped'
  <2>1. lock' \in [Locks -> Cores \cup {Free}]
    BY <1>1 DEF Lock, SerialTyped
  <2>2. strings' \in [Tasks -> Nat]
    BY <1>1, RunningIs DEF SerialTyped
  <2>3. CallsTyped'
    BY <1>2 DEF CallsTyped, SerialTyped
  <2> QED
    BY <1>2, <2>1, <2>2, <2>3, GotoTyped DEF SerialTyped, PutPlaces, uart, shell
<1>7. Sound(c)'
  BY <1>3, <1>4, SerialValues DEF Sound, PutPlaces
<1> QED
  BY <1>1, <1>3, <1>4, <1>5, <1>6, <1>7 DEF Keeps

LEMMA PutPollKeeps ==
  ASSUME SerialTyped, Engaged, NEW c \in Cores, PutPoll(c)
  PROVE  /\ Keeps(c) /\ GoesOn(c) /\ Running(c)' = Running(c) /\ Calls(c)' = Calls(c)
         /\ \A l \in Locks : Puts(c, l)' <=> Puts(c, l)
<1>1. /\ pc[c] = "poll" /\ Head(Calls(c))[2] # <<>> /\ Goto(c, "write")
      /\ UNCHANGED <<lock, out, suspended, uart, shell, keys, strings>>
  BY DEF PutPoll
<1>2. Running(c)' = Running(c) /\ Calls(c)' = Calls(c) /\ pc'[c] = "write"
  BY <1>1, GotoIs DEF Running, Calls
<1>3. \A l \in Locks : Puts(c, l)' <=> Puts(c, l)
  BY <1>1, <1>2 DEF Puts, PutPlaces
<1>4. GoesOn(c)
  BY <1>1, <1>2, <1>3 DEF GoesOn, Holds
<1>5. SerialTyped'
  <2>1. CallsTyped'
    BY <1>1 DEF CallsTyped, SerialTyped
  <2> QED
    BY <1>1, <2>1, GotoTyped DEF SerialTyped, PutPlaces, uart, shell
<1>6. Sound(c)'
  <2>1. \E l \in Locks : Puts(c, l)
    BY <1>1 DEF Engaged, PutPlaces
  <2> QED
    BY <1>1, <1>2, <1>3, <2>1, SerialValues DEF Sound, PutPlaces
<1> QED
  BY <1>2, <1>3, <1>4, <1>5, <1>6 DEF Keeps

LEMMA PutWriteKeeps ==
  ASSUME SerialTyped, Engaged, NEW c \in Cores, PutWrite(c)
  PROVE  /\ Keeps(c) /\ GoesOn(c) /\ Running(c)' = Running(c) /\ pc'[c] = "poll"
         /\ \A l \in Locks : Puts(c, l)' <=> Puts(c, l)
<1>1. PICK l \in Locks, s \in Seq({"text"}) \cup Seq(Echoes) :
        /\ s # <<>> /\ Head(Calls(c)) = <<l, s>> /\ Puts(c, l)
        /\ << <<l, Tail(s)>> >> \o Tail(Calls(c)) \in Seq(CallsOf[Running(c)])
        /\ ThenCalls(c, << <<l, Tail(s)>> >> \o Tail(Calls(c)))
        /\ l = "uartLock" => thr' = Text(c)
        /\ l = "uartMiniLock" => /\ s \in Seq(Echoes) /\ thr' = Head(s)
                                 /\ c = 0 /\ Running(c) = "shell"
  BY PutWriteIs
<1> DEFINE r == << <<l, Tail(s)>> >> \o Tail(Calls(c))
<1>2. Calls(c) \in Seq(CallsOf[Running(c)]) /\ Calls(c) # <<>>
  BY <1>1, NextCall DEF Puts, SerialTyped
<1>3. r # <<>> /\ Head(r) = <<l, Tail(s)>>
  <2> DEFINE h == <<l, Tail(s)>>
             v == Tail(Calls(c))
             S == CallsOf[Running(c)]
  <2>1. v \in Seq(S)
    BY <1>2, NextCall DEF SerialTyped
  <2> HIDE DEF h, v, S
  <2>2. <<h>> \o v # <<>> /\ Head(<<h>> \o v) = h
    BY <2>1
  <2> QED
    BY <2>2 DEF h, v
<1>4. CallsTyped' /\ out'[Running(c)] = r
  BY <1>1, CallsThen DEF SerialTyped
<1> HIDE DEF r
<1>5. /\ pc[c] = "write" /\ Goto(c, "poll")
         /\ UNCHANGED <<lock, suspended, rhr, buffer, keys, strings>>
  BY DEF PutWrite
<1>6. Running(c)' = Running(c) /\ Calls(c)' = r /\ pc'[c] = "poll"
  BY <1>4, <1>5, GotoIs DEF Running, Calls
<1>7. \A k \in Locks : Puts(c, k)' <=> Puts(c, k)
  BY <1>1, <1>3, <1>5, <1>6 DEF Puts, PutPlaces
<1>8. GoesOn(c)
  BY <1>5, <1>6, <1>7 DEF GoesOn, Holds
<1>9. thr' \in Echoes \cup Texts
  <2>1. CASE l = "uartLock"
    BY <1>1, <2>1, RunningIs DEF Text, Texts, SerialTyped
  <2>2. CASE l = "uartMiniLock"
    BY <1>1, <2>2
  <2> QED
    BY <2>1, <2>2 DEF Locks
<1>10. SerialTyped'
  BY <1>4, <1>5, <1>9, GotoTyped DEF SerialTyped, PutPlaces
<1>11. Sound(c)'
  BY <1>1, <1>6, <1>7, SerialValues DEF Sound, PutPlaces
<1> QED
  BY <1>6, <1>7, <1>8, <1>10, <1>11 DEF Keeps

LEMMA PutUnlockKeeps ==
  ASSUME SerialTyped, Engaged, NEW c \in Cores, PutUnlock(c)
  PROVE  /\ Keeps(c) /\ pc'[c] = "idle" /\ Calls(c) = out[Running(c)]
         /\ Calls(c) # <<>> /\ \E l \in Locks : Head(Calls(c)) = <<l, <<>> >>
<1>1. /\ pc[c] = "poll" /\ Head(Calls(c))[2] = <<>> /\ Unlock(c, Head(Calls(c))[1])
      /\ ThenCalls(c, Tail(Calls(c))) /\ Goto(c, "idle")
      /\ UNCHANGED <<suspended, uart, shell, keys, strings>>
  BY DEF PutUnlock
<1>2. PICK l \in Locks : Puts(c, l)
  BY <1>1 DEF Engaged, PutPlaces
<1>3. /\ Calls(c) # <<>> /\ Calls(c) = out[Running(c)]
      /\ Tail(Calls(c)) \in Seq(CallsOf[Running(c)])
  BY <1>2, NextCall DEF Puts, SerialTyped
<1>4. Head(Calls(c)) = <<l, <<>> >>
  BY <1>1, <1>2, <1>3, PutCall DEF Puts, SerialTyped
<1>5. CallsTyped' /\ pc'[c] = "idle"
  BY <1>1, <1>3, CallsThen, GotoIs DEF SerialTyped
<1>6. Gives(c, l)
  <2>1. \A k \in Locks : ~Holds(c, k)'
    BY <1>5 DEF Holds, Puts, PutPlaces
  <2>2. \A k \in Locks : Holds(c, k) <=> k = l
    BY <1>1, <1>2 DEF Holds, Puts
  <2> QED
    BY <1>1, <1>2, <2>1, <2>2 DEF Gives, Unlock, Puts
<1>7. SerialTyped'
  <2>1. lock' \in [Locks -> Cores \cup {Free}]
    BY <1>1 DEF Unlock, SerialTyped
  <2> QED
    BY <1>1, <1>5, <2>1, GotoTyped DEF SerialTyped, PutPlaces, uart, shell
<1>8. Sound(c)'
  BY <1>5, SerialValues DEF Sound, PutPlaces
<1> QED
  BY <1>3, <1>4, <1>5, <1>6, <1>7, <1>8 DEF Keeps

(* A step that makes no use of the port, of a core in no call to it.        *)
LEMMA IdleKeeps ==
  ASSUME SerialTyped, Engaged, NEW c \in Cores, pc[c] = "idle", CallsTyped',
         UNCHANGED <<lock, pc, uart, shell, keys, strings>>, suspended' \subseteq Tasks
  PROVE  Keeps(c)
<1>1. pc'[c] = "idle" /\ "idle" \notin PutPlaces \cup GetPlaces
  BY SerialValues DEF PutPlaces
<1>2. GoesOn(c)
  BY <1>1, IdleHoldsNone DEF GoesOn, Holds, Puts
<1>3. SerialTyped'
  BY DEF SerialTyped, uart, shell
<1>4. Sound(c)'
  BY <1>1 DEF Sound, PutPlaces
<1> QED
  BY <1>2, <1>3, <1>4 DEF Keeps

LEMMA SuspendKeeps ==
  ASSUME SerialTyped, Engaged, NEW c \in Cores, Suspend(c)
  PROVE  Keeps(c)
<1>1. /\ pc[c] = "idle" /\ Calls(c) # <<>> /\ ThenCalls(c, Tail(Calls(c)))
      /\ UNCHANGED <<lock, pc, uart, shell, keys, strings>>
  BY DEF Suspend
<1>2. CallsTyped'
  <2>1. Tail(Calls(c)) \in Seq(CallsOf[Running(c)])
    BY <1>1, NextCall DEF SerialTyped
  <2> QED
    BY <1>1, <2>1, CallsThen DEF SerialTyped
<1>3. suspended' \subseteq Tasks
  BY SuspendIs DEF SerialTyped, Tasks
<1> QED
  BY <1>1, <1>2, <1>3, IdleKeeps

LEMMA ResumeKeeps ==
  ASSUME SerialTyped, Engaged, NEW c \in Cores, Resume(c)
  PROVE  Keeps(c)
<1>1. /\ pc[c] = "idle" /\ Calls(c) # <<>> /\ ThenCalls(c, Tail(Calls(c)))
      /\ UNCHANGED <<lock, pc, uart, shell, keys, strings>>
  BY DEF Resume
<1>2. CallsTyped'
  <2>1. Tail(Calls(c)) \in Seq(CallsOf[Running(c)])
    BY <1>1, NextCall DEF SerialTyped
  <2> QED
    BY <1>1, <2>1, CallsThen DEF SerialTyped
<1>3. suspended' \subseteq Tasks
  BY ResumeIs DEF SerialTyped
<1> QED
  BY <1>1, <1>2, <1>3, IdleKeeps

LEMMA PrimesKeep ==
  ASSUME SerialTyped, Engaged, NEW c \in Cores, vPrimeTaskSMP(c) \/ (c = 0 /\ vPrimeTask)
  PROVE  /\ Keeps(c) /\ Running(c) # "shell" /\ \E s : ThenCalls(c, s)
         /\ UNCHANGED <<lock, pc, suspended, uart, shell, keys, strings>>
<1>1. /\ UNCHANGED <<lock, pc, suspended, uart, shell, keys, strings>>
      /\ Calls(c) = <<>>
      /\ \/ Running(c) \in {"smp0", "smp1"}
             /\ ThenCalls(c, Round(IF c = 0 THEN "shell" ELSE "idle1"))
         \/ Running(c) = "prime" /\ c = 0 /\ ThenCalls(c, Round("shell"))
  BY DEF vPrimeTaskSMP, vPrimeTask, Calls
<1>2. pc[c] = "idle"
  <2>1. pc[c] \notin PutPlaces
    BY <1>1 DEF Engaged, Puts
  <2>2. pc[c] \notin GetPlaces
    BY <1>1 DEF Engaged, SerialTyped, Cores
  <2> QED
    BY <2>1, <2>2 DEF SerialTyped
<1>3. \E s \in Seq(CallsOf[Running(c)]) : ThenCalls(c, s)
  <2>1. CASE Running(c) = "smp1"
    <3>1. c = 1
      BY <2>1, RunningIs DEF Cores
    <3> QED
      BY <1>1, <2>1, <3>1, RoundIs, CallsOfTasks
  <2>2. CASE Running(c) \in {"smp0", "prime"}
    <3>1. c = 0
      BY <2>2, RunningIs DEF Cores
    <3> QED
      BY <1>1, <2>2, <3>1, RoundIs, CallsOfTasks
  <2> QED
    BY <1>1, <2>1, <2>2
<1>4. CallsTyped'
  BY <1>3, CallsThen DEF SerialTyped
<1> QED
  BY <1>1, <1>2, <1>3, <1>4, IdleKeeps DEF SerialTyped

LEMMA GetLockKeeps ==
  ASSUME SerialTyped, Engaged, GetLock
  PROVE  Keeps(0) /\ pc'[0] = "get"
<1>1. /\ Running(0) = "shell" /\ pc[0] = "idle" /\ out["shell"] = <<>>
      /\ Lock(0, "uartMiniLock") /\ Goto(0, "get")
      /\ UNCHANGED <<out, suspended, uart, shell, keys, strings>>
  BY DEF GetLock
<1>2. 0 \in Cores /\ "uartMiniLock" \in Locks
  BY DEF Cores, Locks
<1>3. pc'[0] = "get" /\ Running(0)' = "shell" /\ out'["shell"] = <<>>
  BY <1>1, <1>2, GotoIs DEF Running
<1>4. Takes(0, "uartMiniLock")
  <2>1. \A k \in Locks : ~Holds(0, k)
    BY <1>1, <1>2, IdleHoldsNone DEF PutPlaces
  <2>2. \A k \in Locks : Holds(0, k)' <=> k = "uartMiniLock"
    BY <1>3 DEF Holds, Puts, PutPlaces
  <2> QED
    BY <1>1, <2>1, <2>2 DEF Takes, Lock
<1>5. SerialTyped'
  <2>1. lock' \in [Locks -> Cores \cup {Free}]
    BY <1>1, <1>2 DEF Lock, SerialTyped
  <2>2. CallsTyped'
    BY <1>1 DEF CallsTyped, SerialTyped
  <2> QED
    BY <1>1, <1>2, <2>1, <2>2, GotoTyped DEF SerialTyped, GetPlaces, uart, shell
<1>6. Sound(0)'
  BY <1>3 DEF Sound, PutPlaces
<1> QED
  BY <1>2, <1>3, <1>4, <1>5, <1>6 DEF Keeps

LEMMA GetGives ==
  ASSUME SerialTyped, Engaged, pc[0] = "get", Unlock(0, "uartMiniLock"),
         NEW l \in {"idle"} \cup Keys, Goto(0, l),
         UNCHANGED <<out, suspended, thr, sent, lost, shell, keys, strings>>,
         rhr' \in Keys \cup {Nothing}
  PROVE  Keeps(0) /\ pc'[0] = l
<1>1. 0 \in Cores /\ "uartMiniLock" \in Locks
  BY DEF Cores, Locks
<1>2. pc'[0] = l /\ l \notin PutPlaces /\ l # "get"
  BY <1>1, GotoIs, SerialValues DEF GetPlaces, PutPlaces
<1>3. Running(0)' = "shell" /\ out'["shell"] = <<>>
  BY DEF Running, Engaged, GetPlaces
<1>4. Gives(0, "uartMiniLock")
  <2>1. \A k \in Locks : ~Holds(0, k)'
    BY <1>2 DEF Holds, Puts
  <2>2. \A k \in Locks : Holds(0, k) <=> k = "uartMiniLock"
    BY DEF Holds, Puts, PutPlaces
  <2> QED
    BY <2>1, <2>2 DEF Gives, Unlock
<1>5. SerialTyped'
  <2>1. lock' \in [Locks -> Cores \cup {Free}]
    BY <1>1 DEF Unlock, SerialTyped
  <2>2. CallsTyped'
    BY DEF CallsTyped, SerialTyped
  <2> QED
    BY <1>1, <2>1, <2>2, GotoTyped DEF SerialTyped, GetPlaces, shell
<1>6. Sound(0)'
  BY <1>2, <1>3 DEF Sound, PutPlaces
<1> QED
  BY <1>1, <1>2, <1>4, <1>5, <1>6 DEF Keeps

LEMMA GetKeeps ==
  ASSUME SerialTyped, Engaged, GetNothing \/ GetChar
  PROVE  Keeps(0) /\ UNCHANGED <<out, suspended, thr, sent, lost, shell, keys, strings>>
         /\ pc'[0] \in {"idle"} \cup Keys /\ pc[0] = "get"
<1>1. CASE GetNothing
  BY <1>1, GetGives DEF GetNothing, SerialTyped, uart
<1>2. CASE GetChar
  BY <1>2, GetGives DEF GetChar
<1> QED
  BY <1>1, <1>2

LEMMA HandlesKeeps ==
  ASSUME SerialTyped, Engaged, pc[0] \in Keys, NEW b \in Seq(Letters),
         NEW calls \in Seq(ShellCalls), Handles(b, calls)
  PROVE  /\ Keeps(0) /\ pc'[0] = "idle" /\ out'["shell"] = calls /\ buffer' = b
         /\ screen' = IF pc[0] = Enter THEN EmptyLine ELSE screen
         /\ UNCHANGED <<lock, suspended, uart, keys, strings>>
<1>1. /\ buffer' = b /\ out' = [out EXCEPT !["shell"] = calls] /\ Goto(0, "idle")
      /\ screen' = (IF pc[0] = Enter THEN EmptyLine ELSE screen)
      /\ UNCHANGED <<lock, suspended, uart, keys, strings>>
  BY DEF Handles
<1>2. 0 \in Cores /\ "shell" \in Tasks /\ calls \in Seq(CallsOf["shell"])
  BY CallsOfTasks DEF Cores, Tasks
<1>3. pc'[0] = "idle" /\ CallsTyped' /\ out'["shell"] = calls
  BY <1>1, <1>2, CallsSet, GotoIs DEF SerialTyped
<1>4. pc[0] \notin PutPlaces /\ pc[0] # "get" /\ "idle" \notin PutPlaces \cup GetPlaces
  BY SerialValues DEF PutPlaces, GetPlaces
<1>5. GoesOn(0)
  BY <1>1, <1>2, <1>3, <1>4, IdleHoldsNone DEF GoesOn, Holds, Puts
<1>6. SerialTyped'
  BY <1>1, <1>2, <1>3, GotoTyped DEF SerialTyped, uart
<1>7. Sound(0)'
  BY <1>3, <1>4 DEF Sound, PutPlaces
<1> QED
  BY <1>1, <1>3, <1>5, <1>6, <1>7 DEF Keeps

(* What the shell does with a key.                                          *)
LEMMA KeyIs ==
  ASSUME SerialTyped, OnBackspace \/ OnEnter \/ OnLetter
  PROVE  /\ pc[0] \in Keys
         /\ \E b \in Seq(Letters), calls \in Seq(ShellCalls) :
              /\ Handles(b, calls)
              /\ \/ b = buffer /\ Quiet(calls) /\ pc[0] # Enter
                 \/ b = <<>> /\ Quiet(calls) /\ pc[0] = Enter
                 \/ b = Front(buffer) /\ WipesThree(calls) /\ buffer # <<>> /\ pc[0] # Enter
                 \/ b = Append(buffer, pc[0]) /\ calls = <<Char(pc[0])>> /\ pc[0] \in Letters
<1>1. buffer \in Seq(Letters) /\ <<>> \in Seq(Letters)
  BY DEF SerialTyped
<1>2. <<>> \in Seq(QuietCalls) /\ Strings(1) \in Seq(QuietCalls)
  BY StringsAre, QuietAre
<1>3. CASE OnBackspace
  <2>1. pc[0] = Backspace /\ pc[0] \in Keys /\ pc[0] # Enter
    BY <1>3, SerialValues DEF OnBackspace, Keys
  <2>2. CASE buffer = <<>>
    <3>1. Handles(buffer, <<>>)
      BY <1>3, <2>2 DEF OnBackspace
    <3> QED
      BY <1>1, <1>2, <2>1, <3>1, QuietIs
  <2>3. CASE buffer # <<>>
    <3> DEFINE calls == <<Char(Backspace), Char(Space), Char(Backspace)>>
    <3>1. Handles(Front(buffer), calls)
      BY <1>3, <2>3 DEF OnBackspace
    <3>2. Front(buffer) \in Seq(Letters) /\ calls \in Seq(ShellCalls) /\ WipesThree(calls)
      BY <1>1, <2>3, FrontIs, EchoIs DEF WipesThree
    <3> HIDE DEF calls
    <3> QED
      BY <2>1, <2>3, <3>1, <3>2
  <2> QED
    BY <2>2, <2>3
<1>4. CASE OnEnter
  <2>1. pc[0] = Enter /\ pc[0] \in Keys
    BY <1>4 DEF OnEnter, Keys
  <2>2. \E calls \in Seq(QuietCalls) : Handles(<<>>, calls)
    <3>1. CASE buffer = <<>>
      BY <1>2, <1>4, <3>1 DEF OnEnter
    <3>2. CASE buffer # <<>>
      BY <1>4, <3>2, CommandIs DEF OnEnter
    <3> QED
      BY <3>1, <3>2
  <2> QED
    BY <1>1, <2>1, <2>2, QuietIs
<1>5. CASE OnLetter
  <2>1. pc[0] \in Letters /\ pc[0] \in Keys /\ pc[0] # Enter /\ pc[0] \in Echoes
    BY <1>5, SerialValues DEF OnLetter, Keys, Echoes
  <2>2. CASE HasRoom
    <3>1. Handles(Append(buffer, pc[0]), <<Char(pc[0])>>)
      BY <1>5, <2>2 DEF OnLetter
    <3>2. Append(buffer, pc[0]) \in Seq(Letters)
      BY <1>1, <2>1
    <3> QED
      BY <2>1, <3>1, <3>2, EchoIs
  <2>3. CASE ~HasRoom
    <3>1. Handles(buffer, Strings(1))
      BY <1>5, <2>3 DEF OnLetter
    <3> QED
      BY <1>1, <1>2, <2>1, <3>1, QuietIs
  <2> QED
    BY <2>2, <2>3
<1> QED
  BY <1>3, <1>4, <1>5

LEMMA KeyKeeps ==
  ASSUME SerialTyped, Engaged, OnBackspace \/ OnEnter \/ OnLetter
  PROVE  Keeps(0) /\ pc'[0] = "idle" /\ UNCHANGED <<lock, suspended, uart, keys, strings>>
BY KeyIs, HandlesKeeps

LEMMA StepKeeps ==
  ASSUME SerialTyped, Engaged, LocksHeld, NEW c \in Cores, CoreStep(c)
  PROVE  SerialTyped' /\ Engaged' /\ LocksHeld'
<1>1. Keeps(c)
  <2>1. CASE Put(c)
    BY <2>1, PutLockKeeps, PutPollKeeps, PutWriteKeeps, PutUnlockKeeps DEF Put
  <2>2. CASE Suspend(c) \/ Resume(c)
    BY <2>2, SuspendKeeps, ResumeKeeps
  <2>3. CASE vPrimeTaskSMP(c) \/ (c = 0 /\ vPrimeTask)
    BY <2>3, PrimesKeep
  <2>4. CASE c = 0 /\ Shell
    BY <2>4, GetLockKeeps, GetKeeps, KeyKeeps DEF Shell
  <2> QED
    BY <2>1, <2>2, <2>3, <2>4 DEF CoreStep
<1> QED
  BY <1>1, LocksKept, EngagedKept DEF Keeps

(* The UART and the user.                                                   *)
LEMMA OutsideKeeps ==
  ASSUME SerialTyped, Engaged, LocksHeld, Transmit \/ \E k \in Keys : Press(k)
  PROVE  SerialTyped' /\ Engaged' /\ LocksHeld'
<1>1. /\ UNCHANGED <<lock, pc, out, suspended, shell, strings>>
      /\ thr' \in {thr, Nothing} /\ rhr' \in Keys \cup {rhr}
  BY DEF Transmit, Press
<1>2. SerialTyped'
  BY <1>1 DEF SerialTyped, CallsTyped, shell
<1>3. /\ \A c \in Cores : Running(c)' = Running(c) /\ Calls(c)' = Calls(c)
      /\ \A c \in Cores, l \in Locks : (Puts(c, l)' <=> Puts(c, l))
                                        /\ (Holds(c, l)' <=> Holds(c, l))
  BY <1>1 DEF Running, Calls, Puts, Holds
<1>4. Engaged'
  BY <1>1, <1>3 DEF Engaged, Cores
<1>5. LocksHeld'
  BY <1>1, <1>3 DEF LocksHeld
<1> QED
  BY <1>2, <1>4, <1>5

LEMMA OneWriter ==
  ASSUME LocksHeld, NEW l \in Locks, NEW c \in Cores, NEW d \in Cores, Puts(c, l), Puts(d, l)
  PROVE  c = d
BY DEF LocksHeld, Holds

LEMMA TextsBegun ==
  ASSUME SerialTyped, NEW c \in Cores
  PROVE  Text(c) \in Begun /\ Text(c) \in Texts
BY RunningIs DEF Text, Begun, Texts, SerialTyped

(* A step that puts nothing and begins no string.                           *)
LEMMA SequenceStays ==
  ASSUME SerialTyped, Engaged, LocksHeld, Sequence, Polled, LostAcrossLocks,
         NEW c \in Cores, CoreStep(c), UNCHANGED <<thr, sent, strings, lost>>,
         \A l \in Locks : Puts(c, l)' =>
           \/ Puts(c, l) /\ Running(c)' = Running(c)
              /\ (pc'[c] = "write" => pc[c] = "write" \/ thr = Nothing)
           \/ l = "uartMiniLock" /\ pc'[c] = "poll"
  PROVE  Sequence' /\ Polled' /\ LostAcrossLocks'
<1>1. Begun' = Begun /\ "uartLock" \in Locks /\ "uartMiniLock" \in Locks
      /\ "uartLock" # "uartMiniLock"
  BY DEF Begun, Locks
<1>2. ASSUME NEW d \in Cores, NEW l \in Locks, Puts(d, l)'
      PROVE  \/ Puts(d, l) /\ Running(d)' = Running(d)
                /\ (pc'[d] = "write" => pc[d] = "write" \/ thr = Nothing)
             \/ l = "uartMiniLock" /\ pc'[d] = "poll"
  <2>1. CASE d = c
    BY <1>2, <2>1
  <2>2. CASE d # c
    BY <1>2, <2>2, Elsewhere DEF Puts
  <2> QED
    BY <2>1, <2>2
<1>3. Sequence'
  <2>1. ASSUME NEW d \in Cores, Puts(d, "uartLock")'
        PROVE  /\ Text(d)' \notin sent.before
               /\ pc'[d] = "write" => thr \notin Texts
               /\ Text(d)' = sent.last /\ thr \in Texts => thr = Text(d)'
    <3>1. /\ Puts(d, "uartLock") /\ Text(d)' = Text(d)
          /\ pc'[d] = "write" => pc[d] = "write" \/ thr = Nothing
      BY <1>1, <1>2, <2>1 DEF Text
    <3> QED
      BY <3>1, SerialValues DEF Sequence
  <2> QED
    BY <1>1, <2>1 DEF Sequence
<1>4. Polled'
  <2>1. ASSUME NEW d \in Cores, Puts(d, "uartMiniLock")', pc'[d] = "write"
        PROVE  thr \notin Echoes
    BY <1>1, <1>2, <2>1, SerialValues DEF Polled
  <2> QED
    BY <2>1 DEF Polled
<1>5. LostAcrossLocks'
  BY DEF LostAcrossLocks
<1> QED
  BY <1>3, <1>4, <1>5

(* The lock of the strings is taken: the string that begins is a new one.   *)
LEMMA SequenceBegins ==
  ASSUME SerialTyped, Engaged, LocksHeld, Sequence, Polled, LostAcrossLocks,
         NEW c \in Cores, PutLock(c)
  PROVE  Sequence' /\ Polled' /\ LostAcrossLocks'
<1>1. UNCHANGED <<thr, sent, lost>> /\ CoreStep(c)
  BY DEF PutLock, uart, CoreStep, Put
<1>2. Running(c)' = Running(c) /\ pc'[c] = "poll"
  BY PutLockKeeps
<1>3. PICK l \in Locks :
        /\ Takes(c, l) /\ Puts(c, l)'
        /\ strings' = IF l = "uartLock" THEN [strings EXCEPT ![Running(c)] = @ + 1] ELSE strings
  BY PutLockKeeps
<1>4. \A k \in Locks : Puts(c, k)' => k = l
  BY <1>3 DEF Takes, Holds
<1>5. CASE l = "uartMiniLock"
  <2>1. UNCHANGED strings
    BY <1>3, <1>5
  <2> QED
    BY <1>1, <1>2, <1>4, <1>5, <2>1, SequenceStays
<1>6. CASE l = "uartLock"
  <2> DEFINE t == Running(c)
  <2>1. t \in Tasks /\ strings \in [Tasks -> Nat] /\ strings' = [strings EXCEPT ![t] = @ + 1]
    BY <1>3, <1>6, RunningIs DEF SerialTyped
  <2>2. Text(c)' = <<t, strings[t] + 1>>
    BY <1>2, <2>1 DEF Text
  <2> HIDE DEF t
  <2>3. Text(c)' \notin Begun /\ Text(c)' \in Texts
    BY <2>1, <2>2 DEF Begun, Texts
  <2>4. Begun \subseteq Begun'
    BY <2>1 DEF Begun, Texts
  <2>5. Text(c)' \notin sent.before /\ Text(c)' # sent.last
    BY <2>3, SerialValues DEF Sequence
  <2>6. ASSUME NEW d \in Cores, Puts(d, "uartLock")' PROVE d = c
    <3>1. SUFFICES ASSUME d # c PROVE FALSE
      OBVIOUS
    <3>2. Puts(d, "uartLock")
      BY <1>1, <2>6, <3>1, Elsewhere DEF Locks
    <3>3. lock["uartLock"] = d
      BY <3>2 DEF LocksHeld, Holds, Locks
    <3> QED
      BY <1>3, <1>6, <3>3 DEF Takes, Cores, Free
  <2>7. Sequence'
    <3>1. \A d \in Cores : Puts(d, "uartLock")' =>
            /\ Text(d)' \notin sent.before
            /\ pc'[d] = "write" => thr \notin Texts
            /\ Text(d)' = sent.last /\ thr \in Texts => thr = Text(d)'
      BY <1>2, <2>5, <2>6
    <3> QED
      BY <1>1, <2>4, <3>1 DEF Sequence
  <2>8. Polled'
    <3>1. ASSUME NEW d \in Cores, Puts(d, "uartMiniLock")', pc'[d] = "write"
          PROVE  thr \notin Echoes
      <4>1. d # c
        BY <1>2, <3>1
      <4>2. Puts(d, "uartMiniLock") /\ pc[d] = "write"
        BY <1>1, <3>1, <4>1, Elsewhere DEF Locks
      <4> QED
        BY <4>2 DEF Polled
    <3> QED
      BY <1>1, <3>1 DEF Polled
  <2>9. LostAcrossLocks'
    BY <1>1 DEF LostAcrossLocks
  <2> QED
    BY <2>7, <2>8, <2>9
<1> QED
  BY <1>5, <1>6 DEF Locks

LEMMA SequenceGoesOn ==
  ASSUME SerialTyped, Engaged, LocksHeld, Sequence, Polled, LostAcrossLocks,
         NEW c \in Cores, PutWrite(c)
  PROVE  Sequence' /\ Polled' /\ LostAcrossLocks'
<1>1. /\ UNCHANGED <<sent, strings>> /\ pc[c] = "write" /\ CoreStep(c)
      /\ lost' = IF thr = Nothing THEN lost ELSE {<<thr, thr'>>}
  BY DEF PutWrite, CoreStep, Put
<1>2. Running(c)' = Running(c) /\ pc'[c] = "poll"
  BY PutWriteKeeps
<1>3. \A k \in Locks : Puts(c, k)' <=> Puts(c, k)
  BY PutWriteKeeps
<1>4. PICK l \in Locks :
        /\ Puts(c, l)
        /\ l = "uartLock" => thr' = Text(c)
        /\ l = "uartMiniLock" => thr' \in Echoes
  <2>1. PICK k \in Locks, s \in Seq({"text"}) \cup Seq(Echoes) :
          /\ s # <<>> /\ Puts(c, k)
          /\ k = "uartLock" => thr' = Text(c)
          /\ k = "uartMiniLock" => s \in Seq(Echoes) /\ thr' = Head(s)
    BY PutWriteIs
  <2>2. k = "uartMiniLock" => thr' \in Echoes
    BY <2>1
  <2> QED
    BY <2>1, <2>2
<1>5. /\ Begun' = Begun
      /\ \A d \in Cores \ {c} :
           /\ pc'[d] = pc[d]
           /\ \A k \in Locks : Puts(d, k)' <=> Puts(d, k)
           /\ \A k \in Locks : Puts(d, k) => Text(d)' = Text(d)
  BY <1>1, Elsewhere DEF Begun, Text, Puts
<1>6. \A d \in Cores : Puts(d, l) => d = c
  BY <1>4, OneWriter
<1>7. "uartLock" \in Locks /\ "uartMiniLock" \in Locks
  BY DEF Locks
<1>8. thr \in Echoes \cup Texts \cup {Nothing} /\ Text(c) \in Begun /\ Text(c) \in Texts
  BY TextsBegun DEF SerialTyped
<1>9. CASE l = "uartLock"
  <2>1. thr' = Text(c) /\ Text(c) \notin sent.before /\ thr \notin Texts
    BY <1>1, <1>4, <1>9 DEF Sequence
  <2>2. \A d \in Cores : Puts(d, "uartLock")' => d = c
    BY <1>5, <1>6, <1>7, <1>9
  <2>3. Text(c)' = Text(c)
    BY <1>1, <1>2 DEF Text
  <2>4. Sequence'
    <3>1. \A d \in Cores : Puts(d, "uartLock")' =>
            /\ Text(d)' \notin sent.before
            /\ pc'[d] = "write" => thr' \notin Texts
            /\ Text(d)' = sent.last /\ thr' \in Texts => thr' = Text(d)'
      BY <1>2, <2>1, <2>2, <2>3
    <3> QED
      BY <1>1, <1>5, <1>8, <2>1, <3>1 DEF Sequence
  <2>5. Polled' /\ LostAcrossLocks'
    BY <1>1, <1>8, <2>1, SerialValues DEF Polled, LostAcrossLocks
  <2> QED
    BY <2>4, <2>5
<1>10. CASE l = "uartMiniLock"
  <2>1. thr' \in Echoes /\ thr' \notin Texts /\ thr \notin Echoes
    BY <1>1, <1>4, <1>10, SerialValues DEF Polled
  <2>2. ~Puts(c, "uartLock")'
    BY <1>3, <1>4, <1>7, <1>10 DEF Puts
  <2>3. Sequence'
    <3>1. \A d \in Cores : Puts(d, "uartLock")' =>
            /\ Text(d)' \notin sent.before
            /\ pc'[d] = "write" => thr' \notin Texts
            /\ Text(d)' = sent.last /\ thr' \in Texts => thr' = Text(d)'
      BY <1>5, <1>7, <2>1, <2>2 DEF Sequence
    <3> QED
      BY <1>1, <1>5, <2>1, <3>1 DEF Sequence
  <2>4. Polled'
    <3>1. \A d \in Cores : Puts(d, "uartMiniLock")' => pc'[d] = "poll"
      BY <1>2, <1>5, <1>6, <1>7, <1>10
    <3> QED
      BY <3>1 DEF Polled
  <2>5. LostAcrossLocks'
    BY <1>1, <2>1 DEF LostAcrossLocks
  <2> QED
    BY <2>3, <2>4, <2>5
<1> QED
  BY <1>9, <1>10 DEF Locks

(* The register is emptied.                                                 *)
LEMMA SequenceSent ==
  ASSUME SerialTyped, Engaged, LocksHeld, Sequence, Polled, LostAcrossLocks,
         Transmit \/ \E k \in Keys : Press(k)
  PROVE  Sequence' /\ Polled' /\ LostAcrossLocks'
<1>1. /\ UNCHANGED <<pc, out, suspended, strings, lost>>
      /\ \/ UNCHANGED <<thr, sent>>
         \/ thr # Nothing /\ thr' = Nothing
            /\ \/ sent' = sent
               \/ /\ thr \notin Echoes /\ thr # sent.last
                  /\ sent' = [last |-> thr, before |-> sent.before \cup {sent.last}]
  BY DEF Transmit, Press
<1>2. /\ Begun' = Begun
      /\ \A c \in Cores : Text(c)' = Text(c) /\ \A l \in Locks : Puts(c, l)' <=> Puts(c, l)
  BY <1>1 DEF Begun, Text, Running, Puts, Calls
<1>3. LostAcrossLocks'
  BY <1>1 DEF LostAcrossLocks
<1>4. Polled'
  BY <1>1, <1>2, SerialValues DEF Polled, Locks
<1>5. Sequence'
  <2>1. CASE UNCHANGED sent /\ thr' \in {thr, Nothing}
    BY <1>1, <1>2, <2>1, SerialValues DEF Sequence, Locks
  <2>2. CASE /\ thr # Nothing /\ thr' = Nothing /\ thr \notin Echoes /\ thr # sent.last
             /\ sent' = [last |-> thr, before |-> sent.before \cup {sent.last}]
    <3>1. thr \in Texts /\ thr \in Begun /\ thr \notin sent.before
      BY <2>2 DEF SerialTyped, Sequence
    <3>2. sent'.last = thr /\ sent'.before = sent.before \cup {sent.last}
      BY <2>2
    <3>3. \A c \in Cores : Puts(c, "uartLock")' => Text(c)' \notin sent'.before
      BY <1>2, <2>2, <3>1, <3>2 DEF Sequence, Locks
    <3> QED
      BY <1>2, <2>2, <3>1, <3>2, <3>3, SerialValues DEF Sequence
  <2> QED
    BY <1>1, <2>1, <2>2
<1> QED
  BY <1>3, <1>4, <1>5

LEMMA SequenceKept ==
  ASSUME SerialTyped, Engaged, LocksHeld, Sequence, Polled, LostAcrossLocks,
         NEW c \in Cores, CoreStep(c)
  PROVE  Sequence' /\ Polled' /\ LostAcrossLocks'
<1>1. CASE PutLock(c)
  BY <1>1, SequenceBegins
<1>2. CASE PutWrite(c)
  BY <1>2, SequenceGoesOn
<1>3. CASE PutPoll(c)
  <2>1. UNCHANGED <<thr, sent, strings, lost>> /\ thr = Nothing
    BY <1>3 DEF PutPoll, uart
  <2> QED
    BY <1>3, <2>1, PutPollKeeps, SequenceStays
<1>4. ASSUME UNCHANGED <<thr, sent, strings, lost>>, pc'[c] \notin PutPlaces
      PROVE  Sequence' /\ Polled' /\ LostAcrossLocks'
  <2>1. \A l \in Locks : ~Puts(c, l)'
    BY <1>4 DEF Puts
  <2> QED
    BY <1>4, <2>1, SequenceStays
<1>5. CASE PutUnlock(c)
  <2>1. pc'[c] = "idle" /\ UNCHANGED <<thr, sent, strings, lost>>
    BY <1>5, PutUnlockKeeps DEF PutUnlock, uart
  <2> QED
    BY <1>4, <2>1 DEF PutPlaces
<1>6. CASE Suspend(c) \/ Resume(c)
  <2>1. pc'[c] = "idle" /\ UNCHANGED <<thr, sent, strings, lost>>
    BY <1>6 DEF Suspend, Resume, uart
  <2> QED
    BY <1>4, <2>1 DEF PutPlaces
<1>7. CASE vPrimeTaskSMP(c) \/ (c = 0 /\ vPrimeTask)
  <2>1. UNCHANGED <<pc, suspended, thr, sent, strings, lost>> /\ Calls(c) = <<>>
    BY <1>7 DEF vPrimeTaskSMP, vPrimeTask, uart, Calls
  <2>2. pc[c] \notin PutPlaces
    BY <2>1 DEF Engaged, Puts
  <2> QED
    BY <1>4, <2>1, <2>2
<1>8. CASE c = 0 /\ Shell
  <2>1. ASSUME GetLock PROVE pc'[0] = "get" /\ UNCHANGED <<thr, sent, strings, lost>>
    BY <2>1, GetLockKeeps DEF GetLock, uart
  <2>2. ASSUME GetNothing \/ GetChar
        PROVE  pc'[0] \in {"idle"} \cup Keys /\ UNCHANGED <<thr, sent, strings, lost>>
    BY <2>2, GetKeeps
  <2>3. ASSUME OnBackspace \/ OnEnter \/ OnLetter
        PROVE  pc'[0] = "idle" /\ UNCHANGED <<thr, sent, strings, lost>>
    BY <2>3, KeyKeeps DEF uart
  <2>4. pc'[0] \in {"idle", "get"} \cup Keys /\ UNCHANGED <<thr, sent, strings, lost>>
    BY <1>8, <2>1, <2>2, <2>3 DEF Shell
  <2>5. pc'[0] \notin PutPlaces
    BY <2>4, SerialValues DEF PutPlaces, GetPlaces
  <2> QED
    BY <1>4, <1>8, <2>4, <2>5
<1> QED
  BY <1>1, <1>2, <1>3, <1>5, <1>6, <1>7, <1>8 DEF CoreStep, Put

-----------------------------------------------------------------------------
(* The terminal.                                                            *)

LEMMA TypeBack ==
  ASSUME screen \in Screens, screen.cursor > 0, screen' = Type(Backspace)
  PROVE  screen' \in Screens /\ screen'.cursor = screen.cursor - 1 /\ screen'.text = screen.text
BY DEF Screens, Type

LEMMA TypeOver ==
  ASSUME screen \in Screens, NEW n \in Nat, At(n), NEW x \in Letters \cup {Space},
         screen' = Type(x)
  PROVE  /\ screen' \in Screens /\ screen'.cursor = n + 1
         /\ n + 1 <= Len(screen'.text) /\ Len(screen.text) <= Len(screen'.text)
         /\ screen'.text[n + 1] = x
         /\ \A i \in 1 .. Len(screen'.text) :
              i # n + 1 => i \in 1 .. Len(screen.text) /\ screen'.text[i] = screen.text[i]
<1> DEFINE t == screen.text
           S == Letters \cup {Space}
           u == IF n = Len(t) THEN Append(t, x) ELSE [t EXCEPT ![n + 1] = x]
<1>1. t \in Seq(S) /\ n <= Len(t) /\ screen.cursor = n
  BY DEF Screens, At
<1>2. screen' = [cursor |-> n + 1, text |-> u]
  BY <1>1, SerialValues DEF Type
<1> HIDE DEF t, S
<1>3. /\ u \in Seq(S) /\ n + 1 <= Len(u) /\ Len(t) <= Len(u) /\ u[n + 1] = x
      /\ \A i \in 1 .. Len(u) : i # n + 1 => i \in 1 .. Len(t) /\ u[i] = t[i]
  <2>1. x \in S
    BY DEF S
  <2>2. CASE n = Len(t)
    <3>1. u = Append(t, x) /\ Len(u) = n + 1
      BY <1>1, <2>1, <2>2
    <3>2. u \in Seq(S) /\ u[n + 1] = x /\ \A i \in 1 .. n : u[i] = t[i]
      BY <1>1, <2>1, <2>2
    <3> QED
      BY <1>1, <2>2, <3>1, <3>2
  <2>3. CASE n # Len(t)
    <3>1. u = [t EXCEPT ![n + 1] = x] /\ n + 1 \in 1 .. Len(t)
      BY <1>1, <2>3
    <3>2. u \in Seq(S) /\ Len(u) = Len(t)
      BY <1>1, <2>1, <3>1
    <3>3. u[n + 1] = x /\ \A i \in 1 .. Len(t) : i # n + 1 => u[i] = t[i]
      BY <1>1, <3>1
    <3> QED
      BY <3>1, <3>2, <3>3
  <2> QED
    BY <2>2, <2>3
<1> HIDE DEF u
<1> QED
  BY <1>2, <1>3 DEF Screens, t, S

LEMMA EchoingStays ==
  ASSUME Echoing, UNCHANGED <<screen, buffer>>, out'["shell"] = out["shell"]
  PROVE  Echoing'
BY DEF Echoing, At, Leaves

(* A call in front of one or two others.                                    *)
LEMMA OneInFront ==
  ASSUME NEW d, NEW s, NEW b
  PROVE  <<d>> \o <<s, b>> = <<d, s, b>> /\ <<d>> \o <<b>> = <<d, b>>
<1> DEFINE S == {d, s, b}
           r == <<d, s, b>>
           q == <<d, b>>
<1>1. r \in Seq(S) /\ r # <<>> /\ Head(r) = d /\ Tail(r) = <<s, b>>
  OBVIOUS
<1>2. q \in Seq(S) /\ q # <<>> /\ Head(q) = d /\ Tail(q) = <<b>>
  OBVIOUS
<1> HIDE DEF r, q, S
<1>3. r = <<Head(r)>> \o Tail(r)
  BY <1>1, HeadTailProperties
<1>4. q = <<Head(q)>> \o Tail(q)
  BY <1>2, HeadTailProperties
<1>5. r = <<d>> \o <<s, b>>
  BY <1>1, <1>3, Zenon
<1>6. q = <<d>> \o <<b>>
  BY <1>2, <1>4, Zenon
<1> QED
  BY <1>5, <1>6, Zenon DEF r, q

(* The literal sequences of calls.                                          *)
LEMMA WipesAre ==
  ASSUME NEW calls
  PROVE  /\ WipesThree(calls) =>
              /\ Head(calls) = Char(Backspace)
              /\ <<Done>> \o Tail(calls) = <<Done, Char(Space), Char(Backspace)>>
         /\ WipesTwo(calls) =>
              \/ /\ Head(calls) = Char(Space)
                 /\ <<Done>> \o Tail(calls) = <<Done, Char(Backspace)>>
              \/ Head(calls) = Done /\ Tail(calls) = <<Char(Space), Char(Backspace)>>
         /\ WipesOne(calls) =>
              \/ Head(calls) = Char(Backspace) /\ <<Done>> \o Tail(calls) = <<Done>>
              \/ Head(calls) = Done /\ Tail(calls) = <<Char(Backspace)>>
         /\ \A x : calls = <<Char(x)>> =>
              Head(calls) = Char(x) /\ <<Done>> \o Tail(calls) = <<Done>>
<1> DEFINE b == Char(Backspace)
           s == Char(Space)
           d == Done
<1>1. /\ calls = <<b, s, b>> => Head(calls) = b /\ <<d>> \o Tail(calls) = <<d, s, b>>
      /\ calls = <<s, b>> => Head(calls) = s /\ <<d>> \o Tail(calls) = <<d, b>>
      /\ calls = <<d, s, b>> => Head(calls) = d /\ Tail(calls) = <<s, b>>
      /\ calls = <<b>> => Head(calls) = b /\ <<d>> \o Tail(calls) = <<d>>
      /\ calls = <<d, b>> => Head(calls) = d /\ Tail(calls) = <<b>>
  <2> HIDE DEF b, s, d
  <2>1. calls = <<b, s, b>> => Head(calls) = b /\ <<d>> \o Tail(calls) = <<d, s, b>>
    <3>1. calls = <<b, s, b>> => Head(calls) = b /\ Tail(calls) = <<s, b>>
      OBVIOUS
    <3>2. <<d>> \o <<s, b>> = <<d, s, b>>
      BY OneInFront
    <3> QED
      BY <3>1, <3>2, Zenon
  <2>2. calls = <<s, b>> => Head(calls) = s /\ <<d>> \o Tail(calls) = <<d, b>>
    <3>1. calls = <<s, b>> => Head(calls) = s /\ Tail(calls) = <<b>>
      OBVIOUS
    <3> QED
      BY <3>1, OneInFront, Zenon
  <2>3. calls = <<d, s, b>> => Head(calls) = d /\ Tail(calls) = <<s, b>>
    OBVIOUS
  <2>4. calls = <<b>> => Head(calls) = b /\ <<d>> \o Tail(calls) = <<d>>
    OBVIOUS
  <2>5. calls = <<d, b>> => Head(calls) = d /\ Tail(calls) = <<b>>
    OBVIOUS
  <2> QED
    BY <2>1, <2>2, <2>3, <2>4, <2>5, Zenon
<1>2. /\ WipesThree(calls) => calls = <<b, s, b>>
      /\ WipesTwo(calls) => calls = <<s, b>> \/ calls = <<d, s, b>>
      /\ WipesOne(calls) => calls = <<b>> \/ calls = <<d, b>>
  BY DEF WipesThree, WipesTwo, WipesOne
<1>4. \A x : calls = <<Char(x)>> => Head(calls) = Char(x) /\ <<d>> \o Tail(calls) = <<d>>
  <2> TAKE x
  <2> DEFINE y == Char(x)
  <2> HIDE DEF y, d
  <2>1. calls = <<y>> => Head(calls) = y /\ <<d>> \o Tail(calls) = <<d>>
    OBVIOUS
  <2> QED
    BY <2>1 DEF y
<1> QED
  BY <1>1, <1>2, <1>4, Zenon

LEMMA CharIs ==
  ASSUME NEW x
  PROVE  /\ Char(x)[1] = "uartMiniLock" /\ Char(x) # Done
         /\ \A l, s : Char(x) = <<l, s>> => s = <<x>> /\ l = "uartMiniLock"
<1>1. <<x>> # <<>>
  OBVIOUS
<1> QED
  BY <1>1 DEF Char, Done

(* A call is over that was no echo, or one whose character is written.      *)
LEMMA EchoingNext ==
  ASSUME Echoing, UNCHANGED <<screen, buffer>>,
         out["shell"] \in Seq(ShellCalls), out["shell"] # <<>>,
         LET h == Head(out["shell"]) IN h[1] = "uartMiniLock" => h = Done,
         out'["shell"] = Tail(out["shell"])
  PROVE  Echoing'
<1> DEFINE calls == out["shell"]
           h == Head(calls)
           n == Len(buffer)
<1>1. \A x : h # Char(x)
  BY CharIs
<1>2. ~WipesThree(calls) /\ \A x : calls # <<Char(x)>>
  BY <1>1, WipesAre
<1>3. WipesTwo(calls) => WipesTwo(Tail(calls))
  BY <1>1, WipesAre DEF WipesTwo
<1>4. WipesOne(calls) => WipesOne(Tail(calls))
  BY <1>1, WipesAre DEF WipesOne
<1>5. Quiet(calls) => Quiet(Tail(calls))
  <2> HIDE DEF calls
  <2>1. calls \in Seq(ShellCalls) /\ calls # <<>>
    BY DEF calls
  <2>2. Len(Tail(calls)) = Len(calls) - 1
      /\ \A i \in 1 .. Len(calls) - 1 : Tail(calls)[i] = calls[i + 1]
    BY <2>1, HeadTailProperties
  <2>3. Len(calls) \in Nat
    BY <2>1
  <2>4. ASSUME Quiet(calls), NEW i \in 1 .. Len(Tail(calls)), Tail(calls)[i][1] = "uartMiniLock"
        PROVE  Tail(calls)[i] = Done
    <3>1. i + 1 \in 1 .. Len(calls) /\ Tail(calls)[i] = calls[i + 1]
      BY <2>2, <2>3, <2>4
    <3> QED
      BY <2>4, <3>1 DEF Quiet
  <2> QED
    BY <2>4 DEF Quiet
<1> HIDE DEF calls
<1>6. \/ Quiet(calls) /\ At(n) /\ Leaves(n, {})
      \/ WipesTwo(calls) /\ At(n) /\ n < Len(screen.text) /\ Leaves(n, {n + 1})
      \/ WipesOne(calls) /\ At(n + 1) /\ Leaves(n, {})
  BY <1>2 DEF Echoing, calls
<1>7. /\ n' = n /\ screen' = screen /\ buffer' = buffer /\ out'["shell"] = Tail(calls)
      /\ screen \in Screens
  BY DEF calls, Echoing
<1> QED
  BY <1>3, <1>4, <1>5, <1>6, <1>7 DEF Echoing, At, Leaves

(* A letter of a string is written.                                         *)
LEMMA EchoingString ==
  ASSUME Echoing, UNCHANGED <<screen, buffer>>,
         out["shell"] \in Seq(ShellCalls), out["shell"] # <<>>,
         Head(out["shell"])[1] = "uartLock",
         NEW s, out'["shell"] = << <<"uartLock", s>> >> \o Tail(out["shell"]),
         <<"uartLock", s>> \in ShellCalls
  PROVE  Echoing'
<1> DEFINE calls == out["shell"]
           x == <<"uartLock", s>>
           r == <<x>> \o Tail(calls)
           n == Len(buffer)
<1>1. /\ \A y : Head(calls) # Char(y)
      /\ Head(calls) # Done
  BY CharIs DEF Done
<1>2. ~WipesThree(calls) /\ ~WipesTwo(calls) /\ ~WipesOne(calls) /\ \A y : calls # <<Char(y)>>
  BY <1>1, WipesAre
<1> HIDE DEF calls
<1>3. calls \in Seq(ShellCalls) /\ calls # <<>> /\ x \in ShellCalls
  BY DEF calls
<1>4. Quiet(calls) => Quiet(r)
  <2>1. /\ Len(Tail(calls)) = Len(calls) - 1 /\ Tail(calls) \in Seq(ShellCalls)
        /\ \A i \in 1 .. Len(calls) - 1 : Tail(calls)[i] = calls[i + 1]
    BY <1>3, HeadTailProperties
  <2>2. x[1] = "uartLock"
    OBVIOUS
  <2> HIDE DEF x
  <2>3. Len(r) = Len(calls) /\ r[1] = x /\ \A i \in 2 .. Len(calls) : r[i] = Tail(calls)[i - 1]
    BY <1>3, <2>1
  <2> HIDE DEF r
  <2>4. Len(calls) \in Nat
    BY <1>3
  <2>5. ASSUME Quiet(calls), NEW i \in 1 .. Len(r), r[i][1] = "uartMiniLock" PROVE r[i] = Done
    <3>1. CASE i = 1
      BY <2>2, <2>3, <2>5, <3>1
    <3>2. CASE i # 1
      <4>1. i \in 1 .. Len(calls) /\ i - 1 \in 1 .. Len(calls) - 1 /\ r[i] = Tail(calls)[i - 1]
        BY <2>3, <2>4, <2>5, <3>2
      <4>2. r[i] = calls[i]
        BY <2>1, <4>1
      <4> QED
        BY <2>5, <4>1, <4>2 DEF Quiet
    <3> QED
      BY <3>1, <3>2
  <2> QED
    BY <2>5 DEF Quiet
<1>5. Quiet(calls) /\ At(n) /\ Leaves(n, {}) /\ screen \in Screens
  BY <1>2 DEF Echoing, calls
<1>6. screen' = screen /\ buffer' = buffer /\ out'["shell"] = r
  BY DEF calls
<1> HIDE DEF r
<1> QED
  BY <1>4, <1>5, <1>6 DEF Echoing, At, Leaves

(* The character of an echo is written.                                     *)
LEMMA EchoingChar ==
  ASSUME Echoing, UNCHANGED buffer, buffer \in Seq(Letters),
         out["shell"] \in Seq(ShellCalls), out["shell"] # <<>>,
         Head(out["shell"])[1] = "uartMiniLock", Head(out["shell"])[2] # <<>>,
         out'["shell"] = << <<"uartMiniLock", Tail(Head(out["shell"])[2])>> >>
                           \o Tail(out["shell"]),
         screen' = Type(Head(Head(out["shell"])[2]))
  PROVE  Echoing'
<1> DEFINE calls == out["shell"]
           n == Len(buffer)
           h == Head(calls)
           r == <<Done>> \o Tail(calls)
<1>1. n \in Nat /\ n' = n /\ screen \in Screens /\ \A i \in 1 .. n : buffer[i] \in Letters
  BY DEF Echoing
<1>2. ~Quiet(calls) /\ h # Done
  <2>1. h # Done
    BY DEF Done
  <2>2. calls[1] = h /\ 1 \in 1 .. Len(calls)
    BY DEF h
  <2> QED
    BY <2>1, <2>2 DEF Quiet
<1>3. ASSUME NEW x, h = Char(x)
      PROVE  screen' = Type(x) /\ out'["shell"] = r
  <2>1. h[2] = <<x>>
    BY <1>3 DEF Char
  <2>2. Head(<<x>>) = x /\ Tail(<<x>>) = <<>>
    OBVIOUS
  <2>3. Head(h[2]) = x /\ Tail(h[2]) = <<>>
    BY <2>1, <2>2, Zenon
  <2> QED
    BY <2>3 DEF Done
<1> HIDE DEF calls
<1>4. \/ n > 0 /\ calls = <<Char(buffer[n])>> /\ At(n - 1) /\ Leaves(n - 1, {})
      \/ WipesThree(calls) /\ At(n + 1) /\ Leaves(n, {n + 1})
      \/ WipesTwo(calls) /\ At(n) /\ n < Len(screen.text) /\ Leaves(n, {n + 1})
      \/ WipesOne(calls) /\ At(n + 1) /\ Leaves(n, {})
  BY <1>2 DEF Echoing, calls
<1>5. Quiet(<<Done>>)
  BY DEF Quiet
<1>6. CASE n > 0 /\ calls = <<Char(buffer[n])>> /\ At(n - 1) /\ Leaves(n - 1, {})
  <2>1. h = Char(buffer[n]) /\ r = <<Done>>
    BY <1>6, WipesAre
  <2>2. screen' = Type(buffer[n]) /\ out'["shell"] = <<Done>>
    BY <1>3, <2>1
  <2>3. n - 1 \in Nat /\ n - 1 + 1 = n /\ n \in 1 .. n /\ buffer[n] \in Letters
    BY <1>1, <1>6
  <2>4. /\ screen' \in Screens /\ screen'.cursor = n /\ n <= Len(screen'.text)
        /\ screen'.text[n] = buffer[n]
        /\ \A i \in 1 .. Len(screen'.text) :
             i # n => i \in 1 .. Len(screen.text) /\ screen'.text[i] = screen.text[i]
    BY <1>1, <1>6, <2>2, <2>3, TypeOver
  <2>5. ASSUME NEW i \in 1 .. Len(screen'.text)
        PROVE  screen'.text[i] = IF i <= n THEN buffer[i] ELSE Space
    <3>1. CASE i = n
      <4>1. i <= n
        BY <2>3, <3>1
      <4>2. screen'.text[i] = buffer[n]
        BY <2>4, <3>1, Zenon
      <4> QED
        BY <3>1, <4>1, <4>2, Zenon
    <3>2. CASE i # n
      <4>1. i \in 1 .. Len(screen.text) /\ screen'.text[i] = screen.text[i]
        BY <2>4, <3>2
      <4>2. screen.text[i] = IF i <= n - 1 THEN buffer[i] ELSE Space
        BY <1>6, <4>1 DEF Leaves
      <4>3. i <= n - 1 <=> i <= n
        BY <1>1, <3>2
      <4> QED
        BY <4>1, <4>2, <4>3
    <3> QED
      BY <3>1, <3>2
  <2>6. Quiet(out["shell"])' /\ At(n)' /\ Leaves(n, {})'
    <3>1. At(n)'
      BY <1>1, <2>4 DEF At
    <3>2. Leaves(n, {})'
      BY <1>1, <2>5 DEF Leaves
    <3> QED
      BY <1>5, <2>2, <3>1, <3>2
  <2> QED
    BY <2>4, <2>6 DEF Echoing
<1>7. CASE WipesThree(calls) /\ At(n + 1) /\ Leaves(n, {n + 1})
  <2>1. h = Char(Backspace) /\ r = <<Done, Char(Space), Char(Backspace)>>
    BY <1>7, WipesAre
  <2>2. screen' = Type(Backspace) /\ out'["shell"] = <<Done, Char(Space), Char(Backspace)>>
    BY <1>3, <2>1
  <2>3. screen.cursor = n + 1 /\ n + 1 <= Len(screen.text)
    BY <1>7 DEF At
  <2>4. screen' \in Screens /\ screen'.cursor = n /\ screen'.text = screen.text
    BY <1>1, <2>2, <2>3, TypeBack
  <2>5. WipesTwo(out'["shell"])
    BY <2>2 DEF WipesTwo
  <2>6. Len(screen.text) \in Nat
    BY <1>1 DEF Screens
  <2>7. At(n)'
    BY <1>1, <2>3, <2>4, <2>6 DEF At
  <2>8. Leaves(n, {n + 1})'
    BY <1>1, <1>7, <2>4 DEF Leaves
  <2>9. n < Len(screen'.text)
    BY <1>1, <2>3, <2>4, <2>6
  <2> QED
    BY <1>1, <2>4, <2>5, <2>7, <2>8, <2>9 DEF Echoing
<1>8. CASE WipesTwo(calls) /\ At(n) /\ n < Len(screen.text) /\ Leaves(n, {n + 1})
  <2>1. h = Char(Space) /\ r = <<Done, Char(Backspace)>>
    BY <1>2, <1>8, WipesAre
  <2>2. screen' = Type(Space) /\ out'["shell"] = <<Done, Char(Backspace)>>
    BY <1>3, <2>1
  <2>3. /\ screen' \in Screens /\ screen'.cursor = n + 1 /\ n + 1 <= Len(screen'.text)
        /\ screen'.text[n + 1] = Space
        /\ \A i \in 1 .. Len(screen'.text) :
             i # n + 1 => i \in 1 .. Len(screen.text) /\ screen'.text[i] = screen.text[i]
    BY <1>1, <1>8, <2>2, TypeOver
  <2>4. WipesOne(out'["shell"])
    BY <2>2 DEF WipesOne
  <2>5. ASSUME NEW i \in 1 .. Len(screen'.text)
        PROVE  screen'.text[i] = IF i <= n THEN buffer[i] ELSE Space
    <3>1. CASE i = n + 1
      <4>1. ~(i <= n)
        BY <1>1, <3>1
      <4>2. screen'.text[i] = Space
        BY <2>3, <3>1, Zenon
      <4> QED
        BY <4>1, <4>2, Zenon
    <3>2. CASE i # n + 1
      <4>1. i \in 1 .. Len(screen.text) /\ screen'.text[i] = screen.text[i]
        BY <2>3, <3>2, Zenon
      <4>2. screen.text[i] = IF i <= n THEN buffer[i] ELSE Space
        BY <1>8, <3>2, <4>1 DEF Leaves
      <4> QED
        BY <4>1, <4>2, Zenon
    <3> QED
      BY <3>1, <3>2
  <2>6. WipesOne(out["shell"])' /\ At(n + 1)' /\ Leaves(n, {})'
    <3>1. At(n + 1)'
      BY <1>1, <2>3 DEF At
    <3>2. Leaves(n, {})'
      BY <1>1, <2>5 DEF Leaves
    <3> QED
      BY <2>4, <3>1, <3>2
  <2> QED
    BY <2>3, <2>6 DEF Echoing
<1>9. CASE WipesOne(calls) /\ At(n + 1) /\ Leaves(n, {})
  <2>1. h = Char(Backspace) /\ r = <<Done>>
    BY <1>2, <1>9, WipesAre
  <2>2. screen' = Type(Backspace) /\ out'["shell"] = <<Done>>
    BY <1>3, <2>1
  <2>3. screen.cursor = n + 1 /\ n + 1 <= Len(screen.text) /\ Len(screen.text) \in Nat
    BY <1>1, <1>9 DEF At, Screens
  <2>4. screen' \in Screens /\ screen'.cursor = n /\ screen'.text = screen.text
    BY <1>1, <2>2, <2>3, TypeBack
  <2>5. n <= Len(screen.text)
    BY <1>1, <2>3
  <2>6. Quiet(out["shell"])' /\ At(n)' /\ Leaves(n, {})'
    <3>1. At(n)'
      BY <1>1, <2>4, <2>5 DEF At
    <3>2. Leaves(n, {})'
      BY <1>1, <1>9, <2>4 DEF Leaves
    <3> QED
      BY <1>5, <2>2, <3>1, <3>2
  <2> QED
    BY <2>4, <2>6 DEF Echoing
<1> QED
  BY <1>4, <1>6, <1>7, <1>8, <1>9

LEMMA EchoingKey ==
  ASSUME SerialTyped, Engaged, Echoing, OnBackspace \/ OnEnter \/ OnLetter
  PROVE  Echoing'
<1> DEFINE n == Len(buffer)
<1>1. /\ buffer \in Seq(Letters) /\ n \in Nat /\ out["shell"] = <<>> /\ pc[0] \in Keys
      /\ screen \in Screens
  BY KeyIs DEF SerialTyped, Engaged, GetPlaces, Echoing
<1>2. At(n) /\ Leaves(n, {})
  <2>1. /\ \A x : <<>> # <<x>>
        /\ \A x, y, z : <<>> # <<x, y>> /\ <<>> # <<x, y, z>>
    OBVIOUS
  <2> QED
    BY <1>1, <2>1, Zenon DEF Echoing, WipesThree, WipesTwo, WipesOne
<1>3. PICK b \in Seq(Letters), calls \in Seq(ShellCalls) :
        /\ Handles(b, calls)
        /\ \/ b = buffer /\ Quiet(calls) /\ pc[0] # Enter
           \/ b = <<>> /\ Quiet(calls) /\ pc[0] = Enter
           \/ b = Front(buffer) /\ WipesThree(calls) /\ buffer # <<>> /\ pc[0] # Enter
           \/ b = Append(buffer, pc[0]) /\ calls = <<Char(pc[0])>> /\ pc[0] \in Letters
  BY KeyIs
<1>4. /\ out'["shell"] = calls /\ buffer' = b
      /\ screen' = IF pc[0] = Enter THEN EmptyLine ELSE screen
  BY <1>1, <1>3, HandlesKeeps
<1>5. CASE b = buffer /\ Quiet(calls) /\ pc[0] # Enter
  BY <1>1, <1>2, <1>4, <1>5 DEF Echoing, At, Leaves
<1>6. CASE b = <<>> /\ Quiet(calls) /\ pc[0] = Enter
  <2>1. /\ screen' = EmptyLine /\ Len(buffer') = 0 /\ screen'.cursor = 0
        /\ screen'.text = <<>> /\ Len(screen'.text) = 0 /\ screen' \in Screens
    BY <1>4, <1>6 DEF EmptyLine, Screens
  <2>2. At(n)' /\ Leaves(n, {})'
    BY <2>1 DEF At, Leaves
  <2> QED
    BY <1>4, <1>6, <2>1, <2>2 DEF Echoing
<1>7. CASE b = Front(buffer) /\ WipesThree(calls) /\ buffer # <<>> /\ pc[0] # Enter
  <2>1. /\ Len(b) = n - 1 /\ n > 0 /\ \A i \in 1 .. n - 1 : b[i] = buffer[i]
    BY <1>1, <1>7, FrontIs
  <2>2. screen' = screen /\ Len(buffer') = n - 1 /\ Len(buffer') + 1 = n
    BY <1>1, <1>4, <1>7, <2>1
  <2>3. At(n + 1)'
    BY <1>2, <2>2 DEF At
  <2>4. Leaves(n, {n + 1})'
    <3>1. ASSUME NEW i \in 1 .. Len(screen.text), i # n
          PROVE  screen.text[i] = IF i <= n - 1 THEN b[i] ELSE Space
      <4>1. screen.text[i] = IF i <= n THEN buffer[i] ELSE Space
        BY <1>2, <3>1 DEF Leaves
      <4>2. i <= n - 1 <=> i <= n
        BY <1>1, <3>1
      <4>3. i <= n - 1 => b[i] = buffer[i]
        BY <1>1, <2>1, <3>1
      <4> QED
        BY <4>1, <4>2, <4>3
    <3> QED
      BY <1>4, <2>2, <3>1 DEF Leaves
  <2> QED
    BY <1>1, <1>4, <1>7, <2>2, <2>3, <2>4 DEF Echoing
<1>8. CASE b = Append(buffer, pc[0]) /\ calls = <<Char(pc[0])>> /\ pc[0] \in Letters
  <2>1. Len(b) = n + 1 /\ b[n + 1] = pc[0] /\ \A i \in 1 .. n : b[i] = buffer[i]
    BY <1>1, <1>8
  <2>2. screen' = screen /\ Len(buffer') - 1 = n /\ n' > 0 /\ buffer'[n'] = pc[0]
    BY <1>1, <1>4, <1>8, <2>1, SerialValues
  <2>3. At(n - 1)'
    BY <1>2, <2>2 DEF At
  <2>4. Leaves(n - 1, {})'
    <3>1. ASSUME NEW i \in 1 .. Len(screen.text)
          PROVE  screen.text[i] = IF i <= n THEN b[i] ELSE Space
      BY <1>1, <1>2, <2>1, <3>1 DEF Leaves
    <3> QED
      BY <1>4, <2>2, <3>1 DEF Leaves
  <2>5. out'["shell"] = <<Char(buffer'[n'])>>
    BY <1>4, <1>8, <2>2
  <2> QED
    BY <1>1, <2>2, <2>3, <2>4, <2>5 DEF Echoing
<1> QED
  BY <1>3, <1>5, <1>6, <1>7, <1>8

(* Only the shell's own calls move its echo on.                             *)
LEMMA EchoingKept ==
  ASSUME SerialTyped, Engaged, LocksHeld, Echoing, NEW c \in Cores, CoreStep(c)
  PROVE  Echoing'
<1>1. ASSUME UNCHANGED <<screen, buffer>>, NEW s, ThenCalls(c, s), Running(c) # "shell"
      PROVE  Echoing'
  <2>1. out'["shell"] = out["shell"]
    BY <1>1, RunningIs DEF ThenCalls, SerialTyped, CallsTyped, Tasks
  <2> QED
    BY <1>1, <2>1, EchoingStays
<1>2. ASSUME UNCHANGED <<screen, buffer>>, ThenCalls(c, Tail(Calls(c))), Calls(c) # <<>>,
             Head(Calls(c))[1] = "uartMiniLock" => Head(Calls(c)) = Done
      PROVE  Echoing'
  <2>1. CASE Running(c) # "shell"
    BY <1>1, <1>2, <2>1
  <2>2. CASE Running(c) = "shell"
    <3>1. /\ Calls(c) = out["shell"] /\ out["shell"] \in Seq(ShellCalls)
          /\ Tail(out["shell"]) \in Seq(CallsOf["shell"])
      BY <1>2, <2>2, NextCall, CallsOfTasks DEF SerialTyped
    <3>2. out'["shell"] = Tail(out["shell"])
      BY <1>2, <2>2, <3>1, CallsThen DEF SerialTyped
    <3> QED
      BY <1>2, <3>1, <3>2, EchoingNext
  <2> QED
    BY <2>1, <2>2
<1>3. CASE PutLock(c) \/ PutPoll(c)
  BY <1>3, EchoingStays DEF PutLock, PutPoll, shell
<1>4. CASE PutWrite(c)
  <2>1. PICK l \in Locks, s \in Seq({"text"}) \cup Seq(Echoes) :
          /\ s # <<>> /\ Head(Calls(c)) = <<l, s>> /\ Puts(c, l)
          /\ << <<l, Tail(s)>> >> \o Tail(Calls(c)) \in Seq(CallsOf[Running(c)])
          /\ ThenCalls(c, << <<l, Tail(s)>> >> \o Tail(Calls(c)))
          /\ l = "uartLock" => thr' = Text(c)
          /\ l = "uartMiniLock" => /\ s \in Seq(Echoes) /\ thr' = Head(s)
                                   /\ c = 0 /\ Running(c) = "shell"
    BY <1>4, PutWriteIs
  <2>2. /\ UNCHANGED buffer
        /\ screen' = IF l = "uartMiniLock" THEN Type(thr') ELSE screen
    <3>1. Head(out[Running(c)])[1] = l
      BY <2>1 DEF Calls
    <3> QED
      BY <1>4, <3>1 DEF PutWrite
  <2>3. CASE Running(c) # "shell"
    BY <1>1, <2>1, <2>2, <2>3
  <2>4. CASE Running(c) = "shell"
    <3> DEFINE r == << <<l, Tail(s)>> >> \o Tail(out["shell"])
    <3>1. /\ Calls(c) = out["shell"] /\ out["shell"] # <<>>
          /\ out["shell"] \in Seq(ShellCalls)
      BY <2>1, <2>4, NextCall, CallsOfTasks DEF SerialTyped, Puts
    <3>2. out'["shell"] = r
      BY <2>1, <2>4, <3>1, CallsThen DEF SerialTyped
    <3>3. CASE l = "uartLock"
      <4>1. <<l, Tail(s)>> \in ShellCalls
        <5>1. s \in Seq({"text"})
          <6>1. CallsTyped
            BY DEF SerialTyped
          <6>2. /\ Calls(c) # <<>> /\ Head(Calls(c))[2] = s
                /\ Head(Calls(c))[1] = "uartLock" /\ "uartLock" \in Locks
            BY <2>1, <3>1, <3>3
          <6> QED
            BY <6>1, <6>2, PutCall
        <5>2. Tail(s) \in Seq({"text"})
          BY <2>1, <5>1
        <5> QED
          BY <3>3, <5>2 DEF ShellCalls, StringCalls
      <4>2. Head(out["shell"])[1] = "uartLock" /\ UNCHANGED <<screen, buffer>>
        BY <2>1, <2>2, <3>1, <3>3
      <4>3. out'["shell"] = << <<"uartLock", Tail(s)>> >> \o Tail(out["shell"])
        BY <3>2, <3>3
      <4> QED
        BY <3>1, <3>3, <4>1, <4>2, <4>3, EchoingString
    <3>4. CASE l = "uartMiniLock"
      <4>1. Head(out["shell"])[1] = "uartMiniLock" /\ Head(out["shell"])[2] = s
        BY <2>1, <3>1, <3>4
      <4>2. screen' = Type(Head(Head(out["shell"])[2]))
        BY <2>1, <2>2, <3>4, <4>1
      <4>3. out'["shell"] = << <<"uartMiniLock", Tail(Head(out["shell"])[2])>> >>
                             \o Tail(out["shell"])
        BY <3>2, <3>4, <4>1
      <4>4. buffer \in Seq(Letters) /\ UNCHANGED buffer /\ Head(out["shell"])[2] # <<>>
        BY <2>1, <2>2, <4>1 DEF SerialTyped
      <4> HIDE DEF r
      <4> QED
        BY <3>1, <4>1, <4>2, <4>3, <4>4, EchoingChar
    <3> QED
      BY <3>3, <3>4 DEF Locks
  <2> QED
    BY <2>3, <2>4
<1>5. CASE PutUnlock(c)
  <2>1. /\ Calls(c) # <<>> /\ \E l \in Locks : Head(Calls(c)) = <<l, <<>> >>
    BY <1>5, PutUnlockKeeps
  <2>2. Head(Calls(c))[1] = "uartMiniLock" => Head(Calls(c)) = Done
    BY <2>1 DEF Done
  <2>3. UNCHANGED <<screen, buffer>> /\ ThenCalls(c, Tail(Calls(c)))
    BY <1>5 DEF PutUnlock, shell
  <2> QED
    BY <1>2, <2>1, <2>2, <2>3
<1>6. CASE Suspend(c) \/ Resume(c)
  <2>1. /\ Calls(c) # <<>> /\ Head(Calls(c))[1] \in {"suspend", "resume"}
        /\ UNCHANGED <<screen, buffer>> /\ ThenCalls(c, Tail(Calls(c)))
    BY <1>6 DEF Suspend, Resume, shell
  <2>2. Head(Calls(c))[1] # "uartMiniLock"
    BY <2>1
  <2> QED
    BY <1>2, <2>1, <2>2
<1>7. CASE vPrimeTaskSMP(c) \/ (c = 0 /\ vPrimeTask)
  <2>1. Running(c) # "shell" /\ (\E s : ThenCalls(c, s)) /\ UNCHANGED shell
    BY <1>7, PrimesKeep
  <2> QED
    BY <1>1, <2>1 DEF shell
<1>8. CASE GetLock
  BY <1>8, EchoingStays DEF GetLock, shell
<1>9. CASE GetNothing \/ GetChar
  <2>1. UNCHANGED <<out, shell>>
    BY <1>9, GetKeeps
  <2> QED
    BY <2>1, EchoingStays DEF shell
<1>10. CASE OnBackspace \/ OnEnter \/ OnLetter
  BY <1>10, EchoingKey
<1> QED
  BY <1>3, <1>4, <1>5, <1>6, <1>7, <1>8, <1>9, <1>10 DEF CoreStep, Put, Shell

-----------------------------------------------------------------------------
LEMMA SerialInitInv == SerialInit => SerialInv
<1> SUFFICES ASSUME SerialInit PROVE SerialInv
  OBVIOUS
<1> USE DEF SerialInit
<1>1. /\ pc = [c \in Cores |-> "idle"] /\ \A c \in Cores : pc[c] = "idle"
      /\ "idle" \notin PutPlaces \cup GetPlaces /\ "idle" # "get"
  BY SerialValues DEF PutPlaces
<1>2. out["shell"] \in Seq(QuietCalls)
  BY BannerIs DEF Tasks
<1>3. SerialTyped
  <2>1. \A t \in Tasks : out[t] \in Seq(CallsOf[t])
    <3>1. out["shell"] \in Seq(CallsOf["shell"])
      BY <1>2, QuietIs, CallsOfTasks
    <3>2. \A t \in Tasks : t # "shell" => out[t] = <<>>
      OBVIOUS
    <3>3. \A S : <<>> \in Seq(S)
      OBVIOUS
    <3>4. ASSUME NEW t \in Tasks, t # "shell" PROVE out[t] \in Seq(CallsOf[t])
      BY <3>2, <3>3, <3>4, Zenon
    <3> QED
      BY <3>1, <3>4, Zenon
  <2>2. CallsTyped
    <3> DEFINE R == UNION {Seq(CallsOf[t]) : t \in Tasks}
    <3>1. \A t \in Tasks : out[t] \in R
      BY <2>1
    <3> HIDE DEF R
    <3>2. out \in [Tasks -> R]
      BY <3>1
    <3> QED
      BY <2>1, <3>2 DEF CallsTyped, R
  <2>3. lock \in [Locks -> Cores \cup {Free}] /\ strings \in [Tasks -> Nat]
    OBVIOUS
  <2>4. pc \in [Cores -> {"idle"} \cup PutPlaces \cup GetPlaces] /\ pc[1] \notin GetPlaces
    BY <1>1 DEF Cores
  <2> QED
    BY <2>2, <2>3, <2>4 DEF SerialTyped
<1>4. \A c \in Cores, l \in Locks : ~Puts(c, l) /\ ~Holds(c, l)
  BY <1>1 DEF Puts, Holds
<1>5. Engaged
  BY <1>1 DEF Engaged, PutPlaces, Cores
<1>6. LocksHeld
  BY <1>4 DEF LocksHeld, Cores, Free
<1>7. Sequence /\ Polled /\ LostAcrossLocks
  BY <1>4, SerialValues DEF Sequence, Polled, LostAcrossLocks, Locks
<1>8. Echoing
  <2>1. Quiet(out["shell"])
    BY <1>2, QuietIs
  <2>2. screen.cursor = 0 /\ screen.text = <<>> /\ screen \in Screens /\ Len(buffer) = 0
    BY DEF EmptyLine, Screens
  <2>3. Len(screen.text) = 0
    BY <2>2
  <2>4. At(Len(buffer)) /\ Leaves(Len(buffer), {})
    BY <2>2, <2>3 DEF At, Leaves
  <2> QED
    BY <2>1, <2>2, <2>4 DEF Echoing
<1> QED
  BY <1>3, <1>5, <1>6, <1>7, <1>8 DEF SerialInv

(* The invariant of the port, its driver and the tasks that write to it.    *)
THEOREM SerialInvariance == SerialSpec => []SerialInv
<1>1. SerialInv /\ [SerialNext]_serial => SerialInv'
  <2> SUFFICES ASSUME SerialInv, [SerialNext]_serial PROVE SerialInv'
    OBVIOUS
  <2>1. /\ SerialTyped /\ Engaged /\ LocksHeld /\ Sequence /\ Polled /\ LostAcrossLocks
        /\ Echoing
    BY DEF SerialInv
  <2>2. ASSUME NEW c \in Cores, CoreStep(c) PROVE SerialInv'
    BY <2>1, <2>2, StepKeeps, SequenceKept, EchoingKept DEF SerialInv
  <2>3. ASSUME Transmit \/ \E k \in Keys : Press(k) PROVE SerialInv'
    <3>1. UNCHANGED <<screen, buffer, out>>
      BY <2>3 DEF Transmit, Press, shell
    <3>2. Echoing'
      BY <2>1, <3>1, EchoingStays
    <3> QED
      BY <2>1, <2>3, <3>2, OutsideKeeps, SequenceSent DEF SerialInv
  <2>4. CASE SerialNext
    <3>1. 0 \in Cores
      BY DEF Cores
    <3> QED
      BY <2>2, <2>3, <2>4, <3>1 DEF SerialNext, CoreStep
  <2>5. CASE UNCHANGED serial
    <3>1. UNCHANGED <<lock, pc, out, suspended, thr, rhr, sent,
                   lost, buffer, screen, keys, strings>>
      BY <2>5 DEF serial, uart, shell
    <3>2. /\ \A c \in Cores : Running(c)' = Running(c) /\ Calls(c)' = Calls(c) /\ Text(c)' = Text(c)
          /\ \A c \in Cores, l \in Locks : (Puts(c, l)' <=> Puts(c, l))
                                            /\ (Holds(c, l)' <=> Holds(c, l))
          /\ Begun' = Begun
      BY <3>1 DEF Running, Calls, Text, Puts, Holds, Begun
    <3>3. SerialTyped'
      BY <2>1, <3>1 DEF SerialTyped, CallsTyped
    <3>4. Engaged' /\ LocksHeld'
      BY <2>1, <3>1, <3>2 DEF Engaged, LocksHeld, Cores
    <3>5. Sequence' /\ Polled' /\ LostAcrossLocks'
      BY <2>1, <3>1, <3>2 DEF Sequence, Polled, LostAcrossLocks, Locks
    <3>6. Echoing'
      BY <2>1, <3>1, EchoingStays
    <3> QED
      BY <3>3, <3>4, <3>5, <3>6 DEF SerialInv
  <2> QED
    BY <2>4, <2>5
<1> QED
  BY <1>1, SerialInitInv, PTL DEF SerialSpec

(* No letter of a string reaches the line after another string has begun:   *)
(* vSerialPutString holds uartLock from its first character to its last,    *)
(* and waits for an empty register before each.                             *)
THEOREM StringsNeverMixed == SerialSpec => []NeverMixed
<1>1. SerialInv => NeverMixed
  BY DEF SerialInv, Sequence, NeverMixed
<1> QED
  BY <1>1, SerialInvariance, PTL

(* What is written over is a letter of a string by an echo, or an echo by   *)
(* such a letter: two users of one lock never lose a character.             *)
THEOREM OnlyLostAcrossLocks == SerialSpec => []LostAcrossLocks
<1>1. SerialInv => LostAcrossLocks
  BY DEF SerialInv
<1> QED
  BY <1>1, SerialInvariance, PTL

(* Whenever the shell is ready for a key, the line that its echo shows is   *)
(* the command buffer, however many letters were typed and wiped out, and   *)
(* at either end of the buffer (vShellTask).                                *)
THEOREM LineShowsBuffer == SerialSpec => []ShowsBuffer
<1>1. SerialInv => ShowsBuffer
  <2>1. /\ \A x : <<>> # <<x>>
        /\ \A x, y, z : <<>> # <<x, y>> /\ <<>> # <<x, y, z>>
    OBVIOUS
  <2>2. ASSUME SerialInv, out["shell"] = <<>>
        PROVE  At(Len(buffer)) /\ Leaves(Len(buffer), {})
    BY <2>1, <2>2, Zenon DEF SerialInv, Echoing, WipesThree, WipesTwo, WipesOne
  <2> QED
    BY <2>2 DEF ShowsBuffer, Shows, At, Leaves
<1> QED
  BY <1>1, SerialInvariance, PTL
=============================================================================
