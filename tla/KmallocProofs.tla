--------------------------- MODULE KmallocProofs ---------------------------
(***************************************************************************)
(* The allocator is correct for every arena size, set of requests and      *)
(* memory content, provided no request exactly fits base.  The inductive   *)
(* invariant is ListInv of Kmalloc.tla with the types: there is a set F of *)
(* free blocks, base among them, that ptr runs through in address order,   *)
(* that never touch each other, and that tile the arena together with the  *)
(* held blocks and the block being freed.                                  *)
(***************************************************************************)
EXTENDS Kmalloc, TLAPS, WellFoundedInduction

Inv == TypeOK /\ ListInv

-----------------------------------------------------------------------------
(* Lists and tilings, whatever the memory that holds them.                 *)

\* What Sorted says of one block a of the list: its successor is on the list, and
\* no block of the list lies between the two.
LEMMA SortedList ==
  ASSUME NEW F \in SUBSET Addr, NEW q, Sorted(F, q), NEW a \in F
  PROVE  /\ a \in Nat /\ a \in Addr
         /\ q[a] \in F /\ q[a] \in Nat /\ q[a] \in Addr
         /\ q[a] > a => \A b \in F : b <= a \/ b >= q[a]
         /\ q[a] <= a => \A b \in F : q[a] <= b /\ b <= a
<1>1. a \in Addr /\ q[a] \in F /\ q[a] \in Addr
  BY DEF Sorted
<1>2. a \in Nat /\ q[a] \in Nat
  BY <1>1 DEF Addr
<1>3. (q[a] > a) => \A b \in F : b <= a \/ b >= q[a]
  BY <1>1, <1>2 DEF Sorted
<1>4. (q[a] <= a) => \A b \in F : q[a] <= b /\ b <= a
  BY <1>1, <1>2 DEF Sorted
<1> QED BY <1>1, <1>2, <1>3, <1>4

\* Unlinking the successor of x leaves a sorted list (kmalloc's exact fit, and
\* the absorbed neighbours of kfree).
LEMMA SortedRemove ==
  ASSUME NEW F \in SUBSET Addr, NEW q \in [Addr -> Nat], Sorted(F, q),
         NEW x \in F, NEW y, y = q[x], y # x
  PROVE  Sorted(F \ {y}, [q EXCEPT ![x] = q[y]])
<1> DEFINE r == [q EXCEPT ![x] = q[y]]
<1> SUFFICES ASSUME NEW a \in F \ {y}, NEW b \in F \ {y}
             PROVE  /\ r[a] \in F \ {y}
                    /\ IF r[a] > a THEN b <= a \/ b >= r[a] ELSE r[a] <= b /\ b <= a
  BY DEF Sorted
<1>1. x \in Addr /\ a \in Addr /\ a \in Nat /\ b \in Nat /\ y \in F /\ y \in Nat /\ x \in Nat
  BY SortedList DEF Addr
<1>2. q[y] # y
  BY <1>1, SortedList
<1>3. CASE a = x
  <2>1. r[a] = q[y]
    BY <1>1, <1>3
  <2>2. q[y] \in F /\ q[y] \in Nat
    BY <1>1, SortedList
  <2>3. CASE q[y] > y
    <3>1. b <= y \/ b >= q[y]
      BY <2>3, <1>1, SortedList
    <3>2. CASE y > x
      BY <3>1, <3>2, <2>1, <2>2, <2>3, <1>1, <1>2, <1>3, SortedList
    <3>3. CASE y <= x
      BY <3>1, <3>3, <2>1, <2>2, <2>3, <1>1, <1>2, <1>3, SortedList, SMTT(30)
    <3> QED BY <3>2, <3>3, <1>1
  <2>4. CASE q[y] <= y
    <3>1. q[y] <= b /\ b <= y /\ q[y] <= x /\ x <= y
      BY <2>4, <1>1, SortedList
    <3> QED BY <3>1, <2>1, <2>2, <2>4, <1>1, <1>2, <1>3, SortedList
  <2> QED BY <2>2, <2>3, <2>4, <1>1
<1>4. CASE a # x
  <2>1. r[a] = q[a]
    BY <1>1, <1>4
  <2>2. q[a] # y
    BY <1>1, <1>4, SortedList
  <2> QED BY <2>1, <2>2, <1>1, SortedList
<1> QED BY <1>3, <1>4

\* Linking y in after x, when no block lies between them, leaves a sorted list.
LEMMA SortedInsert ==
  ASSUME NEW F \in SUBSET Addr, NEW q \in [Addr -> Nat], Sorted(F, q),
         NEW x \in F, NEW y \in Addr, y \notin F, y > x, \A b \in F : b <= x \/ b > y
  PROVE  Sorted(F \union {y}, [q EXCEPT ![y] = q[x], ![x] = y])
<1> DEFINE r == [q EXCEPT ![y] = q[x], ![x] = y]
<1> SUFFICES ASSUME NEW a \in F \union {y}, NEW b \in F \union {y}
             PROVE  /\ r[a] \in F \union {y}
                    /\ IF r[a] > a THEN b <= a \/ b >= r[a] ELSE r[a] <= b /\ b <= a
  BY DEF Sorted
<1>1. x \in Addr /\ a \in Addr /\ a \in Nat /\ b \in Nat /\ y \in Nat /\ x \in Nat /\ x # y
      /\ q[x] \in F /\ q[x] \in Nat
  <2>1. q[x] \in F /\ q[x] \in Nat /\ x \in Nat
    BY SortedList
  <2>2. a \in Addr /\ b \in Addr /\ x \in Addr
    OBVIOUS
  <2> QED BY <2>1, <2>2 DEF Addr
<1>2. r[x] = y /\ r[y] = q[x]
  BY <1>1
<1>3. CASE a = x
  BY <1>1, <1>2, <1>3
<1>4. CASE a = y
  BY <1>1, <1>2, <1>4, SortedList
<1>5. CASE a # x /\ a # y
  <2>1. r[a] = q[a] /\ a \in F /\ q[a] \in F /\ q[a] \in Nat
    BY <1>1, <1>5, SortedList
  <2>2. CASE b # y
    BY <2>1, <2>2, <1>1, SortedList
  <2>3. CASE b = y /\ q[a] > a
    <3>1. (x <= a \/ x >= q[a]) /\ (q[a] <= x \/ q[a] > y) /\ (a <= x \/ a > y)
      BY <2>1, <2>3, <1>1, <1>5, SortedList
    <3> QED BY <3>1, <2>1, <2>3, <1>1, <1>5
  <2>4. CASE b = y /\ q[a] <= a
    <3>1. q[a] <= x /\ x <= a /\ (a <= x \/ a > y)
      BY <2>1, <2>4, <1>1, <1>5, SortedList
    <3> QED BY <3>1, <2>1, <2>4, <1>1, <1>5
  <2> QED BY <2>1, <2>2, <2>3, <2>4, <1>1
<1> QED BY <1>3, <1>4, <1>5

\* Joining a block to the one it ends at keeps the arena tiled.
LEMMA TiledAbsorb ==
  ASSUME NEW B, NEW s \in [Addr -> Nat], Tiled(B, s),
         NEW x \in B, NEW y \in B, x + s[x] = y
  PROVE  Tiled(B \ {y}, [s EXCEPT ![x] = s[x] + s[y]])
<1> DEFINE t == [s EXCEPT ![x] = s[x] + s[y]]
<1>1. \A a \in B : a \in Addr /\ a \in Nat /\ s[a] \in Nat /\ s[a] >= 1 /\ a + s[a] <= Heap
  BY DEF Tiled, Addr
<1>2. y > x /\ t[x] = s[x] + s[y] /\ x + t[x] = y + s[y]
  BY <1>1
<1>3. \A a \in B : a # x => t[a] = s[a]
  BY <1>1
<1>4. \A a, b \in B : a < b => a + s[a] <= b
  BY DEF Tiled
<1> HIDE DEF t
<1>5. ASSUME NEW a \in B \ {y} PROVE a \in Addr /\ t[a] >= 1 /\ a + t[a] <= Heap
  BY <1>1, <1>2, <1>3
<1>6. ASSUME NEW a \in B \ {y}, NEW b \in B \ {y}, a < b PROVE a + t[a] <= b
  <2>1. CASE a = x
    <3>1. b > y
      BY <2>1, <1>1, <1>2, <1>4, <1>6
    <3> QED BY <3>1, <2>1, <1>1, <1>2, <1>4
  <2>2. CASE a # x
    BY <2>2, <1>3, <1>4, <1>6
  <2> QED BY <2>1, <2>2
<1>7. ASSUME NEW u \in Addr PROVE \E a \in B \ {y} : a <= u /\ u < a + t[a]
  <2>1. PICK a \in B : a <= u /\ u < a + s[a]
    BY DEF Tiled
  <2>2. CASE a = x \/ a = y
    <3>1. x <= u /\ u < x + t[x]
      BY <2>1, <2>2, <1>1, <1>2 DEF Addr
    <3> QED BY <3>1, <1>1, <1>2
  <2>3. CASE a # x /\ a # y
    BY <2>1, <2>3, <1>3
  <2> QED BY <2>2, <2>3
<1> QED BY <1>5, <1>6, <1>7 DEF Tiled, t

\* Cutting n units off the end of a longer block keeps the arena tiled.
LEMMA TiledCut ==
  ASSUME NEW B, NEW s \in [Addr -> Nat], Tiled(B, s),
         NEW x \in B, NEW n \in Nat, n >= 1, s[x] > n,
         NEW y, y = x + (s[x] - n)
  PROVE  /\ y \in Addr /\ y > x /\ y \notin B
         /\ Tiled(B \union {y}, [s EXCEPT ![x] = s[x] - n, ![y] = n])
<1> DEFINE t == [s EXCEPT ![x] = s[x] - n, ![y] = n]
<1>1. \A a \in B : a \in Addr /\ a \in Nat /\ s[a] \in Nat /\ s[a] >= 1 /\ a + s[a] <= Heap
  BY DEF Tiled, Addr
<1>2. \A a, b \in B : a < b => a + s[a] <= b
  BY DEF Tiled
<1>3. y \in Nat /\ y > x /\ y + n = x + s[x] /\ y + n <= Heap
  BY <1>1
<1>4. y \in Addr
  BY <1>3, HeapAssumption DEF Addr
<1>5. y \notin B
  BY <1>1, <1>2, <1>3
<1>6. t[x] = s[x] - n /\ t[y] = n /\ \A a \in B : a # x => t[a] = s[a]
  BY <1>1, <1>3, <1>4, <1>5
<1> HIDE DEF t
<1>7. ASSUME NEW a \in B \union {y} PROVE a \in Addr /\ t[a] >= 1 /\ a + t[a] <= Heap
  <2>1. CASE a = x
    <3>1. x \in Addr /\ x \in Nat /\ s[x] \in Nat /\ x + s[x] <= Heap
      BY <1>1
    <3> QED BY <3>1, <2>1, <1>6, HeapAssumption
  <2>2. CASE a = y
    BY <2>2, <1>3, <1>4, <1>6
  <2>3. CASE a # x /\ a # y
    BY <2>3, <1>1, <1>6
  <2> QED BY <2>1, <2>2, <2>3
<1>8. ASSUME NEW a \in B \union {y}, NEW b \in B \union {y}, a < b PROVE a + t[a] <= b
  <2>1. CASE a = y
    <3>1. b \in B /\ b \in Nat /\ b > x
      BY <2>1, <1>1, <1>3, <1>8
    <3> QED BY <3>1, <2>1, <1>2, <1>3, <1>6
  <2>2. CASE a = x
    <3>1. CASE b = y
      BY <3>1, <2>2, <1>1, <1>6
    <3>2. CASE b # y
      BY <3>2, <2>2, <1>1, <1>2, <1>3, <1>6, <1>8
    <3> QED BY <3>1, <3>2
  <2>3. CASE a # x /\ a # y
    <3>1. a \in B /\ a \in Nat /\ t[a] = s[a] /\ s[a] \in Nat
      BY <2>3, <1>1, <1>6
    <3>2. CASE b = y
      <4>1. a < x
        BY <3>1, <3>2, <2>3, <1>1, <1>2, <1>3, <1>8
      <4>2. a + s[a] <= x
        BY <4>1, <3>1, <1>2
      <4> QED BY <4>2, <3>1, <3>2, <1>1, <1>3
    <3>3. CASE b # y
      BY <3>1, <3>3, <1>2, <1>8
    <3> QED BY <3>2, <3>3
  <2> QED BY <2>1, <2>2, <2>3
<1>9. ASSUME NEW u \in Addr PROVE \E a \in B \union {y} : a <= u /\ u < a + t[a]
  <2>1. PICK a \in B : a <= u /\ u < a + s[a]
    BY DEF Tiled
  <2>2. CASE a # x
    BY <2>1, <2>2, <1>6
  <2>3. CASE a = x /\ u < y
    <3>1. x <= u /\ u < x + t[x]
      BY <2>1, <2>3, <1>1, <1>6 DEF Addr
    <3> QED BY <3>1
  <2>4. CASE a = x /\ u >= y
    <3>1. y <= u /\ u < y + t[y]
      BY <2>1, <2>4, <1>1, <1>3, <1>6 DEF Addr
    <3> QED BY <3>1
  <2> QED BY <2>2, <2>3, <2>4, <1>3 DEF Addr
<1> QED BY <1>3, <1>4, <1>5, <1>7, <1>8, <1>9 DEF Tiled, t

-----------------------------------------------------------------------------
(* The steps of kmalloc and kfree.                                         *)

\* Every request is for at least the header's own unit.
LEMMA NUnitsPositive ==
  ASSUME NEW n \in Requests
  PROVE  n \in Nat /\ NUnits(n) \in Nat /\ NUnits(n) >= 1
  BY WordAssumption, RequestAssumption DEF NUnits, HeaderSize

\* The boot state satisfies the invariant: no list, nothing held.
LEMMA InitInv == Init => Inv
  BY HeapAssumption, JunkAssumption DEF Init, Inv, TypeOK, ListInv, Addr, Nil

\* The first kmalloc makes the arena one free block.
LEMMA FirstCall ==
  ASSUME TypeOK, freep = Nil, held = {}, pc = "idle",
         NEW n \in Requests, NUnits(n) # BaseSize, KmallocCall(n)
  PROVE  TypeOK' /\ Started({0})'
<1>1. 0 \in Addr /\ Heap \in Nat /\ n \in Nat /\ NUnits(n) \in Nat /\ NUnits(n) >= 1
  BY HeapAssumption, NUnitsPositive DEF Addr
<1>2. /\ ptr' = [ptr EXCEPT ![0] = 0] /\ size' = [size EXCEPT ![0] = Heap]
      /\ freep' = 0 /\ prevp' = 0 /\ p' = 0 /\ pc' = "kmalloc" /\ nbytes' = n
      /\ nunits' = NUnits(n) /\ ret' = Nil /\ bp' = bp /\ held' = held /\ want' = want
  BY DEF KmallocCall
<1>3. TypeOK'
  BY <1>1, <1>2 DEF TypeOK
<1>4. ptr'[0] = 0 /\ size'[0] = Heap
  BY <1>1, <1>2 DEF TypeOK
<1>5. Blocks({0})' = {0}
  BY <1>2 DEF Blocks
<1>6. Sorted({0}, ptr)'
  BY <1>4 DEF Sorted
<1>7. Tiled(Blocks({0}), size)'
  BY <1>1, <1>4, <1>5, HeapAssumption DEF Tiled, Addr
<1>8. Coalesced({0}, size)'
  BY <1>4, HeapAssumption DEF Coalesced
<1>9. Walking({0})'
  BY <1>1, <1>2, <1>4 DEF Walking, Passed, BaseSize
<1> QED BY <1>2, <1>3, <1>6, <1>7, <1>8, <1>9 DEF Started

\* A later kmalloc starts its walk at the successor of freep: nothing passed.
LEMMA LaterCall ==
  ASSUME TypeOK, NEW F \in SUBSET Addr, Started(F), freep # Nil, pc = "idle",
         NEW n \in Requests, NUnits(n) # BaseSize, KmallocCall(n)
  PROVE  TypeOK' /\ Started(F)'
<1>1. ptr[freep] \in F /\ ptr[freep] \in Addr /\ ptr[freep] \in Nat /\ freep \in Nat
  BY SortedList DEF Started
<1>2. /\ ptr' = ptr /\ size' = size /\ freep' = freep /\ prevp' = freep /\ p' = ptr[freep]
      /\ pc' = "kmalloc" /\ nbytes' = n /\ nunits' = NUnits(n) /\ ret' = Nil
      /\ bp' = bp /\ held' = held /\ want' = want
  BY DEF KmallocCall, heapvars
<1>3. TypeOK'
  <2>1. n \in Nat /\ NUnits(n) \in Nat /\ freep \in Addr
    BY NUnitsPositive DEF Started
  <2> QED BY <2>1, <1>1, <1>2 DEF TypeOK
<1>4. Blocks(F)' = Blocks(F)
  BY <1>2 DEF Blocks
<1>5. Walking(F)'
  <2>1. ASSUME NEW x \in F PROVE ~Passed(x)'
    BY <1>1, <1>2, SortedList DEF Passed, Started
  <2> QED BY <2>1, <1>1, <1>2, NUnitsPositive DEF Walking, Started, BaseSize
<1> QED BY <1>2, <1>3, <1>4, <1>5 DEF Started

\* An exact fit takes p off the list; p is not base, so the list keeps base and
\* prevp is another block.
LEMMA TakeExact ==
  ASSUME TypeOK, NEW F \in SUBSET Addr, Started(F), KmallocTakeExact,
         NEW G, G = F \ {p}
  PROVE  TypeOK' /\ Started(G)'
<1>1. p \in F /\ prevp \in F /\ ptr[prevp] = p /\ p # 0 /\ p \in Addr /\ prevp \in Addr
  BY DEF Started, Walking, KmallocTakeExact
<1>2. ptr[p] \in Nat /\ ptr[p] # p /\ prevp # p
  <2>1. 0 \in F /\ Sorted(F, ptr)
    BY DEF Started
  <2>2. p \in Nat /\ ptr[p] \in Nat /\ (ptr[p] <= p => ptr[p] <= 0)
    BY <2>1, <1>1, SortedList
  <2> QED BY <2>2, <1>1
<1>3. /\ ptr' = [ptr EXCEPT ![prevp] = ptr[p]] /\ size' = size /\ held' = held \union {p}
      /\ freep' = prevp /\ pc' = "idle" /\ want' = [want EXCEPT ![p] = nbytes] /\ p' = Nil
      /\ prevp' = Nil /\ nunits' = 0 /\ nbytes' = 0 /\ ret' = p /\ bp' = bp /\ pc = "kmalloc"
  BY DEF KmallocTakeExact, KmallocGrant, KmallocReturn
<1>4. TypeOK'
  BY <1>1, <1>2, <1>3 DEF TypeOK
<1>5. Blocks(G)' = Blocks(F)
  BY <1>1, <1>3 DEF Blocks
<1>6. Sorted(G, ptr)'
  BY <1>1, <1>2, <1>3, SortedRemove DEF Started, TypeOK
<1>7. Tiled(Blocks(G), size)' /\ Coalesced(G, size)'
  BY <1>3, <1>5 DEF Started, Coalesced
<1>8. 0 \in G /\ freep' \in G /\ G \cap held' = {}
  BY <1>1, <1>2, <1>3 DEF Started
<1> QED BY <1>3, <1>4, <1>6, <1>7, <1>8 DEF Started, Walking

\* A tail fit adds a block to the arena and leaves the list as it is.
LEMMA TakeTail ==
  ASSUME TypeOK, NEW F \in SUBSET Addr, Started(F), KmallocTakeTail
  PROVE  TypeOK' /\ Started(F)'
<1> DEFINE q == p + (size[p] - nunits)
<1>1. /\ p \in F /\ prevp \in F /\ pc = "kmalloc" /\ nunits >= 1 /\ nunits \in Nat
      /\ p \in Addr /\ p \in Nat /\ size[p] \in Nat /\ size[p] > nunits
  BY DEF Started, Walking, KmallocTakeTail, TypeOK, Addr
<1>2. /\ size' = [size EXCEPT ![p] = size[p] - nunits, ![q] = nunits]
      /\ held' = held \union {q} /\ freep' = prevp /\ pc' = "idle" /\ ptr' = ptr
      /\ want' = [want EXCEPT ![q] = nbytes] /\ p' = Nil /\ prevp' = Nil /\ nunits' = 0
      /\ nbytes' = 0 /\ ret' = q /\ bp' = bp
  BY DEF KmallocTakeTail, KmallocGrant, KmallocReturn
<1>3. p \in Blocks(F) /\ Tiled(Blocks(F), size) /\ size \in [Addr -> Nat]
  BY <1>1 DEF Blocks, Started, TypeOK
<1> HIDE DEF q
<1>4. /\ q \in Addr /\ q > p /\ q \notin Blocks(F)
      /\ Tiled(Blocks(F) \union {q}, size')
  <2>1. q = p + (size[p] - nunits)
    BY DEF q
  <2> QED BY <1>1, <1>2, <1>3, <2>1, TiledCut, ZenonT(30)
<1>5. TypeOK'
  BY <1>1, <1>2, <1>4 DEF TypeOK, Started
<1>6. Blocks(F)' = Blocks(F) \union {q}
  BY <1>1, <1>2 DEF Blocks
<1>7. Coalesced(F, size)'
  <2> SUFFICES ASSUME NEW a \in F, NEW b \in F PROVE a + size'[a] # b
    BY DEF Coalesced
  <2>1. a \in Addr /\ a # q /\ b # q
    BY <1>4 DEF Blocks
  <2>2. CASE a # p
    BY <2>1, <2>2, <1>2 DEF Started, Coalesced, TypeOK
  <2>3. CASE a = p
    BY <2>1, <2>3, <1>1, <1>2 DEF q, TypeOK
  <2> QED BY <2>2, <2>3
<1>8. F \cap held' = {}
  BY <1>2, <1>4 DEF Started, Blocks
<1>9. Tiled(Blocks(F), size)' /\ Sorted(F, ptr)' /\ Walking(F)'
  BY <1>2, <1>4, <1>6 DEF Started, Walking
<1> QED BY <1>1, <1>2, <1>5, <1>7, <1>8, <1>9 DEF Started

\* A refusal changes nothing in memory.
LEMMA None ==
  ASSUME TypeOK, NEW F \in SUBSET Addr, Started(F), KmallocNone
  PROVE  TypeOK' /\ Started(F)'
<1>1. /\ ptr' = ptr /\ size' = size /\ held' = held /\ freep' = freep /\ pc' = "idle"
      /\ want' = want /\ p' = Nil /\ prevp' = Nil /\ nunits' = 0 /\ nbytes' = 0
      /\ ret' = Nil /\ bp' = bp /\ pc = "kmalloc"
  BY DEF KmallocNone, KmallocReturn
<1>2. TypeOK'
  BY <1>1 DEF TypeOK
<1>3. Blocks(F)' = Blocks(F)
  BY <1>1 DEF Blocks
<1> QED BY <1>1, <1>2, <1>3 DEF Started, Walking

\* The walk moves on: the block it leaves was too small.
LEMMA Step ==
  ASSUME TypeOK, NEW F \in SUBSET Addr, Started(F), KmallocNext
  PROVE  TypeOK' /\ Started(F)'
<1>1. /\ ptr' = ptr /\ size' = size /\ held' = held /\ freep' = freep /\ pc' = pc
      /\ want' = want /\ p' = ptr[p] /\ prevp' = p /\ nunits' = nunits /\ nbytes' = nbytes
      /\ ret' = ret /\ bp' = bp /\ pc = "kmalloc" /\ p # freep /\ size[p] < nunits
  BY DEF KmallocNext
<1>2. /\ p \in F /\ freep \in F /\ Sorted(F, ptr) /\ nunits >= 1 /\ nunits # size[0]
      /\ \A x \in F : Passed(x) => size[x] < nunits
  BY <1>1 DEF Started, Walking
<1>3. /\ p \in Nat /\ p \in Addr /\ freep \in Nat
      /\ ptr[p] \in F /\ ptr[p] \in Nat /\ ptr[p] \in Addr
  BY <1>2, SortedList
<1>4. TypeOK'
  BY <1>1, <1>3 DEF TypeOK
<1>5. Blocks(F)' = Blocks(F)
  BY <1>1 DEF Blocks
<1>6. ASSUME NEW x \in F, Passed(x)' PROVE x = p \/ Passed(x)
  <2>1. x \in Nat
    BY DEF Addr
  <2>2. CASE ptr[p] > p
    BY <2>1, <2>2, <1>1, <1>2, <1>3, <1>6, SortedList DEF Passed
  <2>3. CASE ptr[p] <= p
    BY <2>1, <2>3, <1>1, <1>2, <1>3, <1>6, SortedList DEF Passed
  <2> QED BY <2>2, <2>3, <1>3
<1>7. Walking(F)'
  BY <1>1, <1>2, <1>3, <1>6 DEF Walking
<1> QED BY <1>1, <1>4, <1>5, <1>7 DEF Started

\* On entry of kfree the block goes from held to bp.
LEMMA FreeCall ==
  ASSUME TypeOK, NEW F \in SUBSET Addr, Started(F), NEW a \in held, KfreeCall(a)
  PROVE  TypeOK' /\ Started(F)'
<1>1. /\ ptr' = ptr /\ size' = size /\ held' = held \ {a} /\ freep' = freep /\ pc' = "kfree"
      /\ want' = [want EXCEPT ![a] = 0] /\ p' = freep /\ prevp' = prevp /\ nunits' = nunits
      /\ nbytes' = nbytes /\ ret' = Nil /\ bp' = a /\ pc = "idle"
  BY DEF KfreeCall
<1>2. a \in Addr /\ a \notin F /\ freep \in F
  BY DEF TypeOK, Started
<1>3. TypeOK'
  BY <1>1, <1>2 DEF TypeOK
<1>4. Blocks(F)' = Blocks(F)
  BY <1>1 DEF Blocks
<1>5. Walking(F)' /\ F \cap held' = {}
  BY <1>1, <1>2 DEF Walking, Started
<1> QED BY <1>1, <1>3, <1>4, <1>5 DEF Started

\* The walk of kfree stays on the list.
LEMMA FreeStep ==
  ASSUME TypeOK, NEW F \in SUBSET Addr, Started(F), KfreeNext
  PROVE  TypeOK' /\ Started(F)'
<1>1. /\ ptr' = ptr /\ size' = size /\ held' = held /\ freep' = freep /\ pc' = pc
      /\ want' = want /\ p' = ptr[p] /\ prevp' = prevp /\ nunits' = nunits
      /\ nbytes' = nbytes /\ ret' = ret /\ bp' = bp /\ pc = "kfree"
  BY DEF KfreeNext
<1>2. p \in F /\ ptr[p] \in F /\ ptr[p] \in Addr
  BY <1>1, SortedList DEF Started, Walking
<1>3. TypeOK'
  BY <1>1, <1>2 DEF TypeOK
<1>4. Blocks(F)' = Blocks(F)
  BY <1>1 DEF Blocks
<1>5. Walking(F)'
  BY <1>1, <1>2 DEF Walking, Started
<1> QED BY <1>1, <1>3, <1>4, <1>5 DEF Started

\* kfree stops where bp belongs: above p, with no free block in between.
LEMMA Place ==
  ASSUME TypeOK, NEW F \in SUBSET Addr, Started(F), pc = "kfree", KfreePlace
  PROVE  /\ p \in F /\ p \in Addr /\ bp \in Addr /\ bp \notin F /\ bp \notin held
         /\ p \in Nat /\ bp \in Nat /\ p < bp
         /\ \A b \in F : b <= p \/ b > bp
         /\ \A b \in F : b > bp => ptr[p] > bp /\ b >= ptr[p]
<1>1. p \in F /\ bp \in Addr /\ bp \notin F /\ bp \notin held /\ 0 \in F /\ Sorted(F, ptr)
  BY DEF Started, Walking
<1>2. p \in Nat /\ p \in Addr /\ ptr[p] \in Nat /\ ptr[p] \in F /\ bp \in Nat /\ bp # 0
  BY <1>1, SortedList DEF Addr
<1>3. \A b \in F : b \in Nat
  BY DEF Addr
<1>4. CASE bp > p /\ bp < ptr[p]
  <2>1. \A b \in F : b <= p \/ b >= ptr[p]
    BY <1>1, <1>2, <1>4, SortedList
  <2> QED BY <2>1, <1>1, <1>2, <1>3, <1>4
<1>5. CASE p >= ptr[p] /\ (bp > p \/ bp < ptr[p])
  <2>1. \A b \in F : ptr[p] <= b /\ b <= p
    BY <1>1, <1>2, <1>5, SortedList
  <2>2. ptr[p] = 0
    BY <2>1, <1>1, <1>2
  <2> QED BY <2>1, <2>2, <1>1, <1>2, <1>3, <1>5
<1> QED BY <1>4, <1>5 DEF KfreePlace

\* kfree's end: the list is the old one with bp inserted after p, less the upper
\* neighbour if bp absorbed it, less bp if p absorbed it.
LEMMA FreeLink ==
  ASSUME TypeOK, NEW F \in SUBSET Addr, Started(F), KfreeLink
  PROVE  TypeOK' /\ \E G \in SUBSET Addr : Started(G)'
<1> DEFINE n == ptr[p]
           up == bp + size[bp] = n
           size1 == IF up THEN [size EXCEPT ![bp] = size[bp] + size[n]] ELSE size
           ptr1 == [ptr EXCEPT ![bp] = IF up THEN ptr[n] ELSE n]
           down == p + size1[p] = bp
           F1 == IF up THEN (F \union {bp}) \ {n} ELSE F \union {bp}
           F2 == IF down THEN F1 \ {bp} ELSE F1
           q0 == [ptr EXCEPT ![bp] = n, ![p] = bp]
           q1 == IF up THEN [q0 EXCEPT ![bp] = q0[n]] ELSE q0
<1>1. /\ size' = IF down THEN [size1 EXCEPT ![p] = size1[p] + size1[bp]] ELSE size1
      /\ ptr' = [ptr1 EXCEPT ![p] = IF down THEN ptr1[bp] ELSE bp]
      /\ held' = held /\ freep' = p /\ pc' = "idle" /\ want' = want /\ p' = Nil /\ prevp' = prevp
      /\ nunits' = nunits /\ nbytes' = nbytes /\ ret' = ret /\ bp' = Nil /\ pc = "kfree" /\ KfreePlace
  BY DEF KfreeLink
<1>2. /\ p \in F /\ p \in Addr /\ bp \in Addr /\ bp \notin F /\ bp \notin held
      /\ p \in Nat /\ bp \in Nat /\ p < bp
      /\ \A b \in F : b <= p \/ b > bp
      /\ \A b \in F : b > bp => n > bp /\ b >= n
  BY <1>1, Place
<1>3. n \in F /\ n \in Addr /\ n \in Nat /\ 0 \in F /\ Sorted(F, ptr)
  BY <1>2, SortedList DEF Started
<1>4. /\ ptr \in [Addr -> Nat] /\ size \in [Addr -> Nat]
      /\ \A a \in Addr : size[a] \in Nat
  BY DEF TypeOK
<1>5. \A a \in Blocks(F) : a \in Nat /\ size[a] >= 1 /\ a + size[a] <= Heap
  BY DEF Started, Tiled, Addr
<1>6. bp \in Blocks(F) /\ p \in Blocks(F) /\ n \in Blocks(F) /\ Tiled(Blocks(F), size)
  BY <1>1, <1>2, <1>3 DEF Blocks, Started
<1>7. up => n > bp /\ n # p
  BY <1>2, <1>3, <1>4, <1>5, <1>6
<1>8. size1 \in [Addr -> Nat] /\ Tiled(IF up THEN Blocks(F) \ {n} ELSE Blocks(F), size1)
  <2>1. CASE up
    <3>1. Tiled(Blocks(F) \ {n}, [size EXCEPT ![bp] = size[bp] + size[n]])
      BY <2>1, <1>4, <1>6, TiledAbsorb
    <3>2. size[bp] + size[n] \in Nat
      BY <1>2, <1>3, <1>4
    <3> QED BY <2>1, <3>1, <3>2, <1>4
  <2>2. CASE ~up
    BY <2>2, <1>4, <1>6
  <2> QED BY <2>1, <2>2
<1>9. q0 \in [Addr -> Nat] /\ Sorted(F \union {bp}, q0)
  BY <1>2, <1>3, <1>4, SortedInsert
<1>10. q0[bp] = n /\ q0[p] = bp /\ (up => q0[n] = ptr[n])
  BY <1>2, <1>3, <1>4, <1>7
<1>11. q1 \in [Addr -> Nat] /\ Sorted(F1, q1)
  <2>1. CASE up
    <3>1. bp \in F \union {bp} /\ n = q0[bp] /\ n # bp /\ F \union {bp} \in SUBSET Addr
      BY <2>1, <1>2, <1>3, <1>7, <1>10
    <3> HIDE DEF q0, n
    <3>2. Sorted((F \union {bp}) \ {n}, [q0 EXCEPT ![bp] = q0[n]])
      BY <3>1, <1>9, SortedRemove
    <3>3. q0[n] \in Nat
      BY <1>3, <1>9
    <3> QED BY <2>1, <3>2, <3>3, <1>9
  <2>2. CASE ~up
    BY <2>2, <1>9
  <2> QED BY <2>1, <2>2
<1>12. q1[p] = bp /\ q1[bp] = IF up THEN ptr[n] ELSE n
  BY <1>2, <1>9, <1>10
<1>13. p \in F1 /\ bp \in F1 /\ F1 \in SUBSET Addr /\ F2 \in SUBSET Addr /\ 0 \in F2 /\ p \in F2
  <2>1. up => n # p /\ n # bp /\ n # 0
    BY <1>2, <1>3, <1>7
  <2>2. bp # 0 /\ bp # p
    BY <1>2, <1>3
  <2> HIDE DEF up, down, n
  <2> QED BY <2>1, <2>2, <1>2, <1>3
<1>14. ptr' = IF down THEN [q1 EXCEPT ![p] = q1[bp]] ELSE q1
  <2>1. q1 = [ptr EXCEPT ![bp] = IF up THEN ptr[n] ELSE n, ![p] = bp]
    BY <1>2, <1>3, <1>4, <1>10
  <2>2. ptr1[bp] = q1[bp]
    BY <1>2, <1>4, <1>12
  <2> HIDE DEF down
  <2> QED BY <2>1, <2>2, <1>1, <1>2, <1>4
<1>15. Sorted(F2, ptr') /\ ptr' \in [Addr -> Nat]
  <2> HIDE DEF q1, F1, down
  <2>1. CASE down
    BY <2>1, <1>2, <1>11, <1>12, <1>13, <1>14, SortedRemove
  <2>2. CASE ~down
    BY <2>2, <1>11, <1>14
  <2> QED BY <2>1, <2>2
<1>16. F2 \union held = IF down THEN (IF up THEN Blocks(F) \ {n} ELSE Blocks(F)) \ {bp}
                                ELSE IF up THEN Blocks(F) \ {n} ELSE Blocks(F)
  <2>1. n \notin held
    BY <1>3 DEF Started
  <2>2. Blocks(F) = F \union held \union {bp}
    BY <1>1 DEF Blocks
  <2> HIDE DEF up, down, n
  <2> QED BY <2>1, <2>2, <1>2
<1>17. Tiled(F2 \union held, size') /\ size' \in [Addr -> Nat]
  <2> DEFINE B1 == IF up THEN Blocks(F) \ {n} ELSE Blocks(F)
  <2>1. p \in B1 /\ bp \in B1
    BY <1>2, <1>6, <1>7
  <2> HIDE DEF B1, size1
  <2>2. CASE down
    <3>1. Tiled(B1 \ {bp}, [size1 EXCEPT ![p] = size1[p] + size1[bp]])
      BY <2>1, <2>2, <1>8, TiledAbsorb DEF B1
    <3>2. size1[p] + size1[bp] \in Nat
      BY <1>2, <1>8
    <3> HIDE DEF down, F2
    <3> QED BY <2>2, <3>1, <3>2, <1>1, <1>8, <1>16 DEF B1
  <2>3. CASE ~down
    BY <2>3, <1>1, <1>8, <1>16 DEF B1
  <2> QED BY <2>2, <2>3
<1>18. Coalesced(F2, size')
  <2>1. \A a, b \in F : a + size[a] # b
    BY DEF Started, Coalesced
  <2>2. \A a, b \in Blocks(F) : a < b => a + size[a] <= b
    BY <1>6 DEF Tiled
  <2>3. F \subseteq Blocks(F)
    BY DEF Blocks
  <2>4. ASSUME NEW b \in F, (up => b # n) PROVE bp + size1[bp] # b
    <3>1. CASE up
      BY <3>1, <2>1, <2>4, <1>2, <1>3, <1>4
    <3>2. CASE ~up
      <4>1. size1[bp] = size[bp] /\ b \in Nat /\ size[bp] \in Nat /\ size[bp] >= 1
        BY <3>2, <1>2, <1>4, <1>5, <1>6 DEF Addr
      <4>2. CASE b > bp
        <5>1. n > bp /\ b >= n /\ bp + size[bp] <= n
          BY <4>2, <2>2, <1>2, <1>3, <1>6
        <5> QED BY <5>1, <4>1, <3>2, <1>2, <1>3
      <4>3. CASE b <= bp
        BY <4>1, <4>3, <1>2
      <4> QED BY <4>1, <4>2, <4>3, <1>2
    <3> QED BY <3>1, <3>2
  <2>5. ASSUME NEW a \in F PROVE a # p => a + size[a] # bp
    <3>1. a \in Nat /\ a \in Addr /\ size[a] \in Nat /\ size[a] >= 1
      BY <2>3, <1>4, <1>5 DEF Addr
    <3>2. CASE a < p
      BY <3>1, <3>2, <2>2, <2>3, <1>2, <1>6
    <3>3. CASE a > p
      BY <3>1, <3>3, <1>2
    <3> QED BY <3>1, <3>2, <3>3, <1>2
  <2>6. \A a \in F : size1[a] = size[a]
    BY <1>2, <1>4
  <2>7. /\ p + size[p] # bp => ~down
        /\ size'[p] = IF down THEN size[p] + size1[bp] ELSE size[p]
        /\ \A a \in F : a # p => size'[a] = size[a]
        /\ ~down => size'[bp] = size1[bp]
    BY <2>6, <1>1, <1>2, <1>8
  <2> SUFFICES ASSUME NEW a \in F2, NEW b \in F2 PROVE a + size'[a] # b
    BY DEF Coalesced
  <2>8. /\ a \in F \union {bp} /\ b \in F \union {bp}
        /\ up => b # n
        /\ down => a # bp /\ b # bp
    BY <1>2, <1>7
  <2>9. CASE a = bp
    <3>1. b # bp => bp + size1[bp] # b
      BY <2>4, <2>8
    <3>2. size1[bp] \in Nat /\ size1[bp] >= 1
      BY <1>2, <1>3, <1>4, <1>5, <1>6
    <3> HIDE DEF size1, down
    <3> QED BY <3>1, <3>2, <2>7, <2>8, <2>9, <1>2
  <2>10. CASE a = p /\ down
    <3>1. p + size[p] = bp /\ size1[bp] \in Nat /\ size[p] \in Nat
      BY <2>10, <2>7, <1>2, <1>4, <1>8
    <3>2. bp + size1[bp] # b
      BY <2>4, <2>8, <2>10
    <3> HIDE DEF size1, down
    <3> QED BY <3>1, <3>2, <2>7, <2>10, <1>2
  <2>11. CASE a = p /\ ~down
    <3>1. p + size[p] # bp
      BY <2>6, <2>11, <1>2
    <3> HIDE DEF size1, down
    <3> QED BY <3>1, <2>1, <2>7, <2>8, <2>11, <1>2
  <2>12. CASE a # p /\ a # bp
    <3> HIDE DEF size1, down
    <3> QED BY <2>1, <2>5, <2>7, <2>8, <2>12
  <2> QED BY <2>9, <2>10, <2>11, <2>12
<1>19. F2 \cap held = {}
  BY <1>2 DEF Started
<1>20. TypeOK'
  BY <1>1, <1>2, <1>15, <1>17 DEF TypeOK
<1>21. PICK G \in SUBSET Addr : G = F2
  BY <1>13
<1> HIDE DEF F2
<1>22. Blocks(G)' = G \union held
  BY <1>1 DEF Blocks
<1>23. Started(G)'
  BY <1>1, <1>13, <1>15, <1>17, <1>18, <1>19, <1>21, <1>22 DEF Started, Walking
<1> QED BY <1>20, <1>21, <1>23

\* What the tiling says of one block.
LEMMA BlockFacts ==
  ASSUME TypeOK, NEW F \in SUBSET Addr, Started(F), NEW a \in Blocks(F)
  PROVE  /\ a \in Addr /\ a \in Nat /\ size[a] \in Nat /\ size[a] >= 1 /\ a + size[a] <= Heap
         /\ \A b \in Blocks(F) : a < b => a + size[a] <= b
<1>1. a \in Addr /\ size[a] >= 1 /\ a + size[a] <= Heap
  BY DEF Started, Tiled
<1>2. size[a] \in Nat
  BY <1>1 DEF TypeOK
<1>3. a \in Nat
  BY <1>1 DEF Addr
<1>4. \A b \in Blocks(F) : a < b => a + size[a] <= b
  BY DEF Started, Tiled
<1> QED BY <1>1, <1>2, <1>3, <1>4

\* A caller's payload holds no header of another block.
LEMMA Write ==
  ASSUME TypeOK, NEW F \in SUBSET Addr, Started(F), NEW a \in held, NEW j \in Junk, CallerWrite(a, j)
  PROVE  /\ TypeOK' /\ Started(F)'
         /\ \A b \in Blocks(F) : size'[b] = size[b] /\ ptr'[b] = ptr[b]
<1>1. /\ held' = held /\ freep' = freep /\ pc' = pc /\ want' = want /\ p' = p /\ prevp' = prevp
      /\ nunits' = nunits /\ nbytes' = nbytes /\ ret' = ret /\ bp' = bp /\ pc = "idle"
      /\ ptr' = [u \in Addr |-> IF u \in Units(a) \ {a} THEN j ELSE ptr[u]]
      /\ size' = [u \in Addr |-> IF u \in Units(a) \ {a} THEN j ELSE size[u]]
  BY DEF CallerWrite
<1>2. j \in Nat
  BY JunkAssumption
<1>3. TypeOK'
  BY <1>1, <1>2 DEF TypeOK
<1>4. ASSUME NEW b \in Blocks(F) PROVE size'[b] = size[b] /\ ptr'[b] = ptr[b]
  <2>1. a \in Blocks(F)
    BY DEF Blocks
  <2>2. /\ a \in Nat /\ b \in Nat /\ b \in Addr /\ size[a] \in Nat /\ size[b] \in Nat /\ size[b] >= 1
        /\ a < b => a + size[a] <= b
    BY <2>1, BlockFacts
  <2>3. b \notin Units(a) \ {a}
    BY <2>2 DEF Units
  <2> QED BY <2>2, <2>3, <1>1
<1>5. Blocks(F)' = Blocks(F) /\ F \subseteq Blocks(F)
  BY <1>1 DEF Blocks
<1>6. Sorted(F, ptr') /\ Coalesced(F, size')
  BY <1>4, <1>5 DEF Started, Sorted, Coalesced
<1>7. Tiled(Blocks(F), size')
  <2>1. \A b \in Blocks(F) : size'[b] = size[b]
    BY <1>4
  <2> QED BY <2>1 DEF Started, Tiled
<1> QED BY <1>1, <1>3, <1>4, <1>5, <1>6, <1>7 DEF Started, Walking

\* The invariant is inductive for callers that never fit base exactly.
LEMMA GuardedStep == Inv /\ [GuardedNext]_vars => Inv'
<1> SUFFICES ASSUME Inv, [GuardedNext]_vars PROVE Inv'
  OBVIOUS
<1>1. TypeOK
  BY DEF Inv
<1>2. CASE freep = Nil /\ held = {} /\ pc = "idle"
  <2>1. CASE \E n \in Requests : NUnits(n) # BaseSize /\ KmallocCall(n)
    <3>1. PICK n \in Requests : NUnits(n) # BaseSize /\ KmallocCall(n)
      BY <2>1
    <3>2. TypeOK' /\ Started({0})'
      BY <3>1, <1>1, <1>2, FirstCall
    <3> QED BY <3>2, HeapAssumption DEF Inv, ListInv, Addr
  <2>2. ~CallerStep /\ ~KmallocStep /\ ~KfreeStep
    BY <1>2 DEF CallerStep, KmallocStep, KfreeStep, KmallocTakeExact, KmallocTakeTail,
                KmallocNone, KmallocNext, KfreeNext, KfreeLink
  <2>3. CASE UNCHANGED vars
    BY <2>3, <1>1, <1>2 DEF vars, Inv, TypeOK, ListInv
  <2> QED BY <2>1, <2>2, <2>3 DEF GuardedNext
<1>3. CASE \E F \in SUBSET Addr : Started(F)
  <2>1. PICK F \in SUBSET Addr : Started(F)
    BY <1>3
  <2>2. freep # Nil
    BY <2>1 DEF Started, Nil, Addr
  <2>3. SUFFICES TypeOK' /\ \E G \in SUBSET Addr : Started(G)'
    BY DEF Inv, ListInv
  <2>4. CASE \E n \in Requests : NUnits(n) # BaseSize /\ KmallocCall(n)
    <3>1. PICK n \in Requests : NUnits(n) # BaseSize /\ KmallocCall(n)
      BY <2>4
    <3>2. pc = "idle"
      BY <3>1 DEF KmallocCall
    <3> QED BY <3>1, <3>2, <2>1, <2>2, <1>1, LaterCall
  <2>5. CASE CallerStep
    <3>1. PICK a \in held : KfreeCall(a) \/ \E j \in Junk : CallerWrite(a, j)
      BY <2>5 DEF CallerStep
    <3>2. CASE KfreeCall(a)
      BY <3>1, <3>2, <2>1, <1>1, FreeCall
    <3>3. CASE \E j \in Junk : CallerWrite(a, j)
      BY <3>1, <3>3, <2>1, <1>1, Write
    <3> QED BY <3>1, <3>2, <3>3
  <2>6. CASE KmallocTakeExact
    <3>1. PICK G : G = F \ {p}
      OBVIOUS
    <3>2. G \in SUBSET Addr
      BY <3>1
    <3> QED BY <3>1, <3>2, <2>1, <2>6, <1>1, TakeExact
  <2>7. CASE KmallocTakeTail
    BY <2>1, <2>7, <1>1, TakeTail
  <2>8. CASE KmallocNone
    BY <2>1, <2>8, <1>1, None
  <2>9. CASE KmallocNext
    BY <2>1, <2>9, <1>1, Step
  <2>10. CASE KfreeNext
    BY <2>1, <2>10, <1>1, FreeStep
  <2>11. CASE KfreeLink
    BY <2>1, <2>11, <1>1, FreeLink
  <2>12. CASE UNCHANGED vars
    <3>1. TypeOK'
      BY <1>1, <2>12 DEF vars, TypeOK
    <3>2. Blocks(F)' = Blocks(F)
      BY <2>12 DEF vars, Blocks
    <3>3. Walking(F)'
      BY <2>1, <2>12 DEF vars, Started, Walking, Passed
    <3> QED BY <3>1, <3>2, <3>3, <2>1, <2>12 DEF vars, Started
  <2> QED BY <2>4, <2>5, <2>6, <2>7, <2>8, <2>9, <2>10, <2>11, <2>12
          DEF GuardedNext, KmallocStep, KfreeStep
<1> QED BY <1>2, <1>3 DEF Inv, ListInv

-----------------------------------------------------------------------------
(* What follows for every behaviour of GuardedSpec.                        *)

\* The inductive invariant holds throughout.
LEMMA InvHolds == GuardedSpec => []Inv
  BY InitInv, GuardedStep, PTL DEF GuardedSpec

\* Whatever the arena, the requests and the memory's content, the free list of
\* kmalloc.c is a sorted circular list of disjoint, coalesced blocks that, with
\* the held ones, tile the arena.
THEOREM ListInvariant == GuardedSpec => []ListInv
<1>1. Inv => ListInv
  BY DEF Inv
<1> QED BY <1>1, InvHolds, PTL

\* Every variable keeps its type: the walks never leave the arena.
THEOREM TypeCorrect == GuardedSpec => []TypeOK
<1>1. Inv => TypeOK
  BY DEF Inv
<1> QED BY <1>1, InvHolds, PTL

\* Two blocks of the tiling share no unit.
LEMMA DisjointBlocks ==
  ASSUME TypeOK, NEW F \in SUBSET Addr, Started(F),
         NEW a \in Blocks(F), NEW b \in Blocks(F), a # b
  PROVE  Units(a) \cap Units(b) = {}
<1>1. /\ a \in Nat /\ b \in Nat /\ size[a] \in Nat /\ size[b] \in Nat
      /\ a < b => a + size[a] <= b
      /\ b < a => b + size[b] <= a
  BY BlockFacts
<1> QED BY <1>1 DEF Units

\* kmalloc never lets two held blocks overlap.
THEOREM HeldBlocksDisjoint == GuardedSpec => []HeldDisjoint
<1>1. Inv => HeldDisjoint
  <2> SUFFICES ASSUME Inv, NEW a \in held, NEW b \in held, a # b
               PROVE  Units(a) \cap Units(b) = {}
    BY DEF HeldDisjoint
  <2>1. PICK F \in SUBSET Addr : Started(F)
    BY DEF Inv, ListInv
  <2> QED BY <2>1, DisjointBlocks DEF Blocks, Inv
<1> QED BY <1>1, InvHolds, PTL

\* A block a caller holds is never on the free list.
THEOREM HeldBlocksNotFree == GuardedSpec => []HeldNotFree
<1>1. Inv => HeldNotFree
  <2> SUFFICES ASSUME Inv, NEW a \in held, a \in OnList PROVE FALSE
    BY DEF HeldNotFree
  <2>1. PICK F \in SUBSET Addr : Started(F)
    BY DEF Inv, ListInv
  <2>2. freep \in F /\ \A b \in F : ptr[b] \in F
    BY <2>1 DEF Started, Sorted
  <2>3. a \in F
    BY <2>2 DEF OnList
  <2> QED BY <2>1, <2>3 DEF Started
<1> QED BY <1>1, InvHolds, PTL

-----------------------------------------------------------------------------
(* The allocator implements HeapContract.                                  *)

Live == {[start |-> a, len |-> size[a]] : a \in held}
Asked == IF pc = "kmalloc" THEN nunits ELSE 0

\* The live blocks depend on the held blocks and their sizes only.
LEMMA LiveUnchanged ==
  ASSUME held' = held, \A a \in held : size'[a] = size[a]
  PROVE  Live' = Live
  BY DEF Live

\* The free units of the contract are the units no held block covers.
LEMMA ContractFree ==
  ASSUME TypeOK
  PROVE  Contract!Free = Addr \ UsedUnits
<1>1. \A a \in held : Contract!Extent([start |-> a, len |-> size[a]]) = Units(a)
  BY DEF Contract!Extent, Units
<1> QED BY <1>1 DEF Contract!Free, UsedUnits, Addr

\* The units of a free block are free.
LEMMA FreeBlockUnits ==
  ASSUME TypeOK, NEW F \in SUBSET Addr, Started(F), NEW x \in F,
         NEW y \in Units(x)
  PROVE  y \in Addr \ UsedUnits
<1>1. x \in Blocks(F) /\ x \notin held
  BY DEF Blocks, Started
<1>2. y \in Addr
  <2>1. x \in Nat /\ size[x] \in Nat /\ x + size[x] <= Heap
    BY <1>1, BlockFacts
  <2> QED BY <2>1, HeapAssumption DEF Units, Addr
<1>3. ASSUME NEW a \in held PROVE y \notin Units(a)
  <2>1. a \in Blocks(F) /\ a # x
    BY <1>1 DEF Blocks
  <2> QED BY <2>1, <1>1, DisjointBlocks
<1> QED BY <1>2, <1>3 DEF UsedUnits

\* A run of free units lies inside one free block, between calls and during
\* kmalloc.
LEMMA FreeRun ==
  ASSUME TypeOK, NEW F \in SUBSET Addr, Started(F), pc # "kfree",
         NEW s \in Addr, NEW n \in Nat, n >= 1, s .. s + n - 1 \subseteq Addr \ UsedUnits
  PROVE  \E a \in F : a <= s /\ s + n <= a + size[a]
<1>1. \A u \in Addr \ UsedUnits : \E a \in F : a <= u /\ u < a + size[a]
  <2> SUFFICES ASSUME NEW u \in Addr \ UsedUnits PROVE \E a \in F : a <= u /\ u < a + size[a]
    OBVIOUS
  <2>1. PICK a \in Blocks(F) : a <= u /\ u < a + size[a]
    BY DEF Started, Tiled
  <2>2. a \in Nat /\ size[a] \in Nat
    BY BlockFacts
  <2>3. u \in Units(a)
    BY <2>1, <2>2 DEF Units, Addr
  <2>4. a \notin held
    BY <2>3 DEF UsedUnits
  <2> QED BY <2>1, <2>4 DEF Blocks
<1>2. s \in Nat /\ s \in s .. s + n - 1
  BY DEF Addr
<1>3. PICK a \in F : a <= s /\ s < a + size[a]
  BY <1>1, <1>2
<1>4. a \in Blocks(F) /\ a \in Nat /\ size[a] \in Nat
  <2>1. a \in Blocks(F)
    BY DEF Blocks
  <2> QED BY <2>1, BlockFacts
<1>5. CASE a + size[a] < s + n
  <2>1. a + size[a] \in s .. s + n - 1
    BY <1>2, <1>3, <1>4, <1>5
  <2>2. PICK b \in F : b <= a + size[a] /\ a + size[a] < b + size[b]
    BY <2>1, <1>1
  <2>3. b \in Blocks(F) /\ b \in Nat /\ size[b] \in Nat
    <3>1. b \in Blocks(F)
      BY DEF Blocks
    <3> QED BY <3>1, BlockFacts
  <2>4. a + size[a] # b
    BY DEF Started, Coalesced
  <2>5. a < b => a + size[a] <= b
    BY <1>4, <2>3, BlockFacts
  <2>6. b < a => b + size[b] <= a
    BY <1>4, <2>3, BlockFacts
  <2> QED BY <2>2, <2>3, <2>4, <2>5, <2>6, <1>4
<1> QED BY <1>2, <1>3, <1>4, <1>5

\* A block cut out of a free block is a grant the contract allows.
LEMMA ContractGrant ==
  ASSUME TypeOK, NEW F \in SUBSET Addr, Started(F), pc = "kmalloc",
         NEW x \in F, NEW q \in Nat, x <= q, q + nunits <= x + size[x],
         held' = held \union {q}, size'[q] = nunits,
         \A a \in held : size'[a] = size[a],
         pc' = "idle", ret' = q
  PROVE  Contract!Grant
<1>1. nunits \in Nat /\ nunits >= 1
  BY DEF TypeOK, Started, Walking
<1>2. x \in Nat /\ size[x] \in Nat /\ x + size[x] <= Heap
  <2>1. x \in Blocks(F)
    BY DEF Blocks
  <2> QED BY <2>1, BlockFacts
<1>3. q .. q + nunits - 1 \subseteq Contract!Free
  <2>1. \A y \in q .. q + nunits - 1 : y \in Units(x)
    BY <1>1, <1>2 DEF Units
  <2> QED BY <2>1, FreeBlockUnits, ContractFree
<1>4. q \in Contract!Room(nunits)
  BY <1>1, <1>2, <1>3, HeapAssumption DEF Contract!Room
<1>5. Live' = Live \union {[start |-> q, len |-> nunits]}
  BY DEF Live
<1> QED BY <1>1, <1>4, <1>5 DEF Contract!Grant, Live

\* Every step of the allocator is a step of the contract or invisible to it.
LEMMA ContractStep ==
  Inv /\ [GuardedNext]_vars => [Contract!Next]_(Contract!cvars)
<1> SUFFICES ASSUME Inv, [GuardedNext]_vars
             PROVE  [Contract!Next]_(Contract!cvars)
  OBVIOUS
<1>1. TypeOK
  BY DEF Inv
<1>2. ASSUME ret' = ret, Live' = Live, Asked' = Asked
      PROVE  UNCHANGED Contract!cvars
  BY <1>2 DEF Contract!cvars, Live, Asked
<1>3. ASSUME NEW n \in Requests, KmallocCall(n) PROVE Contract!Ask
  <2>1. pc = "idle" /\ pc' = "kmalloc" /\ nunits' = NUnits(n) /\ ret' = Nil /\ held' = held
    BY <1>3 DEF KmallocCall
  <2>2. \A a \in held : size'[a] = size[a]
    <3>1. CASE freep = Nil
      <4>1. held = {}
        BY <3>1 DEF Inv, ListInv, Started, Nil, Addr
      <4> QED BY <4>1
    <3>2. CASE freep # Nil
      BY <3>2, <1>3 DEF KmallocCall, heapvars
    <3> QED BY <3>1, <3>2
  <2>3. Live' = Live
    BY <2>1, <2>2, LiveUnchanged
  <2> QED BY <2>1, <2>3, NUnitsPositive DEF Contract!Ask, Contract!Nil, Live, Nil
<1>4. CASE freep = Nil /\ held = {} /\ pc = "idle"
  <2>1. ~CallerStep /\ ~KmallocStep /\ ~KfreeStep
    BY <1>4 DEF CallerStep, KmallocStep, KfreeStep, KmallocTakeExact, KmallocTakeTail,
                KmallocNone, KmallocNext, KfreeNext, KfreeLink
  <2>2. CASE UNCHANGED vars
    BY <2>2, <1>2 DEF vars, Live, Asked
  <2> QED BY <2>1, <2>2, <1>3 DEF GuardedNext, Contract!Next
<1>5. CASE \E F \in SUBSET Addr : Started(F)
  <2>1. PICK F \in SUBSET Addr : Started(F)
    BY <1>5
  <2>2. CASE KmallocTakeExact
    <3>1. /\ pc = "kmalloc" /\ p \in F /\ p \in Nat /\ size[p] = nunits
          /\ held' = held \union {p} /\ size' = size /\ pc' = "idle" /\ ret' = p
      BY <2>1, <2>2 DEF KmallocTakeExact, KmallocGrant, KmallocReturn, Started, Walking, Addr
    <3>2. p + nunits <= p + size[p] /\ p <= p
      BY <3>1, <1>1 DEF TypeOK
    <3> QED BY <3>1, <3>2, <2>1, <1>1, ContractGrant DEF Contract!Next
  <2>3. CASE KmallocTakeTail
    <3> DEFINE q == p + (size[p] - nunits)
    <3>1. /\ pc = "kmalloc" /\ p \in F /\ p \in Addr /\ p \in Nat /\ size[p] \in Nat /\ nunits \in Nat
          /\ size[p] > nunits /\ nunits >= 1 /\ pc' = "idle" /\ ret' = q /\ held' = held \union {q}
          /\ size' = [size EXCEPT ![p] = size[p] - nunits, ![q] = nunits]
      BY <2>1, <2>3, <1>1 DEF KmallocTakeTail, KmallocGrant, KmallocReturn, Started, Walking, Addr, TypeOK
    <3>2. p \in Blocks(F) /\ Tiled(Blocks(F), size) /\ size \in [Addr -> Nat] /\ p \notin held
      BY <3>1, <2>1, <1>1 DEF Blocks, Started, TypeOK
    <3> HIDE DEF q
    <3>3. q \in Addr /\ q > p /\ q \notin Blocks(F)
      BY <3>1, <3>2, TiledCut DEF q
    <3>4. size'[q] = nunits /\ \A a \in held : size'[a] = size[a]
      <4>1. \A a \in held : a \in Addr /\ a # p /\ a # q
        BY <3>2, <3>3, <1>1 DEF Blocks, TypeOK
      <4> QED BY <4>1, <3>1, <3>2, <3>3
    <3>5. q \in Nat /\ p <= q /\ q + nunits <= p + size[p]
      BY <3>1 DEF q
    <3> QED BY <3>1, <3>4, <3>5, <2>1, <1>1, ContractGrant DEF Contract!Next
  <2>4. CASE KmallocNone
    <3>1. /\ pc = "kmalloc" /\ p = freep /\ size[p] < nunits /\ pc' = "idle" /\ ret' = Nil
          /\ held' = held /\ size' = size
      BY <2>4 DEF KmallocNone, KmallocReturn
    <3>2. /\ nunits \in Nat /\ nunits >= 1 /\ freep \in Nat
          /\ \A x \in F : Passed(x) => size[x] < nunits
      BY <3>1, <2>1, <1>1 DEF TypeOK, Started, Walking, Addr
    <3>3. \A x \in F : x \in Nat /\ size[x] \in Nat /\ size[x] < nunits
      <4> SUFFICES ASSUME NEW x \in F PROVE x \in Nat /\ size[x] \in Nat /\ size[x] < nunits
        OBVIOUS
      <4>1. x \in Nat /\ size[x] \in Nat
        BY <1>1 DEF TypeOK, Addr
      <4>2. x = freep \/ Passed(x)
        BY <4>1, <3>1, <3>2 DEF Passed
      <4> QED BY <4>1, <4>2, <3>1, <3>2
    <3>4. ASSUME NEW s \in Contract!Room(nunits) PROVE FALSE
      <4>1. s \in Addr /\ s \in Nat /\ s .. s + nunits - 1 \subseteq Addr \ UsedUnits
        BY <1>1, ContractFree DEF Contract!Room, Addr
      <4>2. PICK a \in F : a <= s /\ s + nunits <= a + size[a]
        BY <4>1, <3>1, <3>2, <2>1, <1>1, FreeRun
      <4> QED BY <4>1, <4>2, <3>2, <3>3
    <3>5. Contract!Refuse
      BY <3>1, <3>2, <3>4, LiveUnchanged DEF Contract!Refuse, Contract!Nil, Live, Nil
    <3> QED BY <3>5 DEF Contract!Next
  <2>5. CASE KmallocNext
    BY <2>5, <1>2 DEF KmallocNext, Live, Asked
  <2>6. CASE KfreeNext
    BY <2>6, <1>2 DEF KfreeNext, Live, Asked
  <2>7. CASE KfreeLink
    <3>1. /\ pc = "kfree" /\ pc' = "idle" /\ held' = held /\ ret' = ret /\ KfreePlace
          /\ \A a \in Addr : a # bp /\ a # p => size'[a] = size[a]
      BY <2>7, <1>1 DEF KfreeLink, TypeOK
    <3>2. \A a \in held : a \in Addr /\ a # bp /\ a # p
      BY <3>1, <2>1, <1>1 DEF TypeOK, Started, Walking
    <3>3. Live' = Live
      BY <3>1, <3>2, LiveUnchanged
    <3> QED BY <3>1, <3>3, <1>2 DEF Asked
  <2>8. ASSUME NEW a \in held, KfreeCall(a) PROVE Contract!Release
    <3>1. /\ pc = "idle" /\ pc' = "kfree" /\ held' = held \ {a} /\ size' = size /\ ret' = Nil
      BY <2>8 DEF KfreeCall
    <3>2. Live' = Live \ {[start |-> a, len |-> size[a]]}
      BY <3>1 DEF Live
    <3>3. [start |-> a, len |-> size[a]] \in Live
      BY DEF Live
    <3> QED BY <3>1, <3>2, <3>3 DEF Contract!Release, Contract!Nil, Live, Nil
  <2>9. ASSUME NEW a \in held, NEW j \in Junk, CallerWrite(a, j) PROVE UNCHANGED Contract!cvars
    <3>1. held' = held /\ ret' = ret /\ pc' = pc /\ nunits' = nunits
      BY <2>9 DEF CallerWrite
    <3>2. \A b \in held : size'[b] = size[b]
      BY <2>1, <2>9, <1>1, Write DEF Blocks
    <3>3. Live' = Live
      BY <3>1, <3>2, LiveUnchanged
    <3> QED BY <3>1, <3>3, <1>2 DEF Asked
  <2>10. CASE UNCHANGED vars
    BY <2>10, <1>2 DEF vars, Live, Asked
  <2> QED BY <2>2, <2>3, <2>4, <2>5, <2>6, <2>7, <2>8, <2>9, <2>10, <1>3
          DEF GuardedNext, CallerStep, KmallocStep, KfreeStep, Contract!Next
<1> QED BY <1>4, <1>5 DEF Inv, ListInv

\* kmalloc and kfree implement HeapContract: grants are free units, and NULL is
\* returned only when no run of free units is long enough for the request.
THEOREM Refinement == GuardedSpec => KeepsContract
<1>1. Init => Contract!Init
  BY DEF Init, Contract!Init, Contract!Nil, Nil
<1>2. Inv /\ [GuardedNext]_vars => [Contract!Next]_(Contract!cvars)
  BY ContractStep
<1> QED BY <1>1, <1>2, InvHolds, PTL DEF GuardedSpec, KeepsContract, Contract!Spec

-----------------------------------------------------------------------------
(* The free list is exactly the free runs.                                 *)

\* A non-empty set of naturals has a least element.
LEMMA NatMin ==
  ASSUME NEW T \in SUBSET Nat, T # {}
  PROVE  \E x \in T : \A y \in T : x <= y
<1>1. IsWellFoundedOn(OpToRel(<, Nat), Nat)
  BY NatLessThanWellFounded
<1>2. PICK x \in T : \A y \in T : ~ (<<y, x>> \in OpToRel(<, Nat))
  BY <1>1, WFMin
<1>3. \A y \in T : ~ (y < x)
  BY <1>2 DEF OpToRel
<1> QED BY <1>3

\* So has a bounded one a greatest element.
LEMMA NatMax ==
  ASSUME NEW T \in SUBSET Nat, T # {}, NEW n \in Nat, \A x \in T : x <= n
  PROVE  \E x \in T : \A y \in T : y <= x
<1> DEFINE U == {n - x : x \in T}
<1>1. U \in SUBSET Nat /\ U # {}
  <2>1. \A x \in T : n - x \in Nat
    OBVIOUS
  <2>2. PICK x \in T : TRUE
    OBVIOUS
  <2>3. n - x \in U
    OBVIOUS
  <2> QED BY <2>1, <2>3
<1>2. PICK u \in U : \A v \in U : u <= v
  BY <1>1, NatMin
<1>3. PICK x \in T : u = n - x
  OBVIOUS
<1>4. ASSUME NEW y \in T PROVE y <= x
  <2>1. n - y \in U
    OBVIOUS
  <2> QED BY <2>1, <1>2, <1>3
<1> QED BY <1>4

\* Every block of F is reached from freep: a set closed under ptr that holds one
\* block of F holds the last, therefore the first, therefore all of them.
LEMMA ListReachesAll ==
  ASSUME NEW F \in SUBSET Addr, Started(F),
         NEW S \in SUBSET Addr, freep \in S, \A b \in S : ptr[b] \in S
  PROVE  F \subseteq S
<1>1. Sorted(F, ptr) /\ freep \in F /\ 0 \in F
  BY DEF Started
<1>2. F \in SUBSET Nat /\ Heap \in Nat /\ \A x \in F : x <= Heap
  BY HeapAssumption DEF Addr
<1>3. 0 \in S
  <2>1. F \cap S \in SUBSET Nat /\ F \cap S # {} /\ \A x \in F \cap S : x <= Heap
    BY <1>1, <1>2
  <2>2. PICK m \in F \cap S : \A y \in F \cap S : y <= m
    BY <2>1, <1>2, NatMax
  <2>3. ptr[m] \in F \cap S
    BY <1>1 DEF Sorted
  <2>4. ptr[m] <= m /\ ptr[m] \in Nat
    BY <2>2, <2>3, <1>2
  <2>5. ptr[m] <= 0
    BY <2>4, <1>1, SortedList
  <2> QED BY <2>3, <2>4, <2>5
<1>4. CASE F \ S # {}
  <2>1. F \ S \in SUBSET Nat
    BY <1>2
  <2>2. PICK d \in F \ S : \A y \in F \ S : d <= y
    BY <2>1, <1>4, NatMin
  <2> DEFINE E == {x \in F : x < d}
  <2>3. d \in Nat /\ d # 0 /\ 0 \in E
    BY <1>1, <1>2, <1>3
  <2>4. E \in SUBSET Nat /\ E # {} /\ \A x \in E : x <= Heap
    BY <1>2, <2>3
  <2>5. PICK e \in E : \A y \in E : y <= e
    BY <2>4, <1>2, NatMax
  <2>6. e \in F /\ e < d /\ e \in S /\ e \in Nat
    BY <2>2, <2>3, <1>2
  <2>7. ptr[e] \in F /\ ptr[e] \in S /\ ptr[e] \in Nat
    BY <2>6, <1>1, SortedList
  <2>8. CASE ptr[e] > e
    <3>1. d >= ptr[e] /\ ptr[e] # d
      BY <2>3, <2>6, <2>7, <2>8, <1>1, SortedList
    <3>2. ptr[e] \in E
      BY <3>1, <2>3, <2>7
    <3> QED BY <3>2, <2>5, <2>6, <2>7, <2>8
  <2>9. CASE ptr[e] <= e
    <3>1. d \in F /\ \A b \in F : ptr[e] <= b /\ b <= e
      BY <2>2, <2>6, <2>9, <1>1, SortedList
    <3> QED BY <3>1, <2>3, <2>6
  <2> QED BY <2>6, <2>7, <2>8, <2>9
<1> QED BY <1>4

\* Between calls a maximal free run is a free block, and conversely.
LEMMA GapIsFreeBlock ==
  ASSUME TypeOK, NEW F \in SUBSET Addr, Started(F), pc = "idle",
         NEW a \in Addr, NEW n \in 1 .. Heap
  PROVE  Gap(a, n) <=> a \in F /\ size[a] = n
<1>1. a \in Nat /\ n \in Nat /\ n >= 1
  BY DEF Addr
<1>2. \A x \in F : x \in Blocks(F)
  BY DEF Blocks
<1>3. ASSUME Gap(a, n) PROVE a \in F /\ size[a] = n
  <2>1. PICK x \in F : x <= a /\ a + n <= x + size[x]
    BY <1>1, <1>3, FreeRun DEF Gap
  <2>2. x \in Nat /\ size[x] \in Nat
    BY <1>2, BlockFacts
  <2>3. x >= a
    <3>1. x < a => a - 1 \in Units(x)
      BY <2>1, <2>2, <1>1 DEF Units
    <3> QED BY <3>1, <2>2, <1>1, <1>3, FreeBlockUnits DEF Gap
  <2>4. x = a
    BY <2>1, <2>2, <2>3, <1>1
  <2>5. a + n < a + size[a] => a + n \in Units(a)
    BY <2>2, <2>4, <1>1 DEF Units
  <2>6. ~(a + n < a + size[a])
    BY <2>4, <2>5, <1>3, FreeBlockUnits DEF Gap
  <2> QED BY <2>1, <2>2, <2>4, <2>6, <1>1
<1>4. ASSUME a \in F, size[a] = n PROVE Gap(a, n)
  <2>1. a .. a + n - 1 \subseteq Addr \ UsedUnits
    BY <1>4, FreeBlockUnits DEF Units
  <2>2. ASSUME NEW u \in Addr \ UsedUnits
        PROVE  \E x \in F : x <= u /\ u + 1 <= x + size[x]
    <3>1. u \in Nat /\ u .. u + 1 - 1 \subseteq Addr \ UsedUnits
      BY DEF Addr
    <3> QED BY <3>1, FreeRun
  <2>3. \A x \in F : /\ x \in Nat /\ size[x] \in Nat
                     /\ x < a => x + size[x] <= a
                     /\ a < x => a + n <= x
                     /\ x + size[x] # a /\ a + n # x
    <3> SUFFICES ASSUME NEW x \in F
                 PROVE  /\ x \in Nat /\ size[x] \in Nat
                        /\ x < a => x + size[x] <= a
                        /\ a < x => a + n <= x
                        /\ x + size[x] # a /\ a + n # x
      OBVIOUS
    <3>1. x + size[x] # a /\ a + n # x
      BY <1>4 DEF Started, Coalesced
    <3> QED BY <3>1, <1>2, <1>4, BlockFacts
  <2>4. a - 1 \notin Addr \ UsedUnits
    BY <2>2, <2>3, <1>1
  <2>5. a + n \notin Addr \ UsedUnits
    BY <2>2, <2>3, <1>1, <1>4
  <2> QED BY <2>1, <2>4, <2>5, <1>1 DEF Gap
<1> QED BY <1>3, <1>4

\* Between calls the free list is exactly the maximal free runs: no unit is
\* leaked, and kfree has joined all neighbours.
THEOREM FreeListCoalesced == GuardedSpec => []FreeListIsGaps
<1>1. Inv => FreeListIsGaps
  <2> SUFFICES ASSUME Inv, pc = "idle", freep # Nil, NEW a \in Addr, NEW n \in 1 .. Heap
               PROVE  Gap(a, n) <=> a \in OnList /\ size[a] = n
    BY DEF FreeListIsGaps
  <2>1. PICK F \in SUBSET Addr : Started(F)
    BY DEF Inv, ListInv
  <2>2. freep \in F /\ \A b \in F : ptr[b] \in F
    BY <2>1 DEF Started, Sorted
  <2>3. a \in OnList <=> a \in F
    <3>1. a \in OnList => a \in F
      BY <2>2 DEF OnList
    <3>2. a \in F => a \in OnList
      BY <2>1, ListReachesAll DEF OnList
    <3> QED BY <3>1, <3>2
  <2> QED BY <2>1, <2>3, GapIsFreeBlock DEF Inv
<1> QED BY <1>1, InvHolds, PTL

-----------------------------------------------------------------------------
(* Blocks are big enough when rounding a request up does not wrap.         *)

RequestsFit == \A n \in Requests : n + HeaderSize - 1 < WordMod

SizeInv == BigEnough /\ (pc = "kmalloc" => nbytes <= (nunits - 1) * HeaderSize)

\* The unit count of a request that does not wrap holds its bytes.
LEMMA NUnitsEnough ==
  ASSUME RequestsFit, NEW n \in Requests
  PROVE  n <= (NUnits(n) - 1) * HeaderSize
<1>1. n \in Nat /\ n + 8 - 1 < WordMod /\ WordMod \in Nat
  BY NUnitsPositive, WordAssumption DEF RequestsFit, HeaderSize
<1>2. (n + 8 - 1) % WordMod = n + 8 - 1
  BY <1>1
<1> QED BY <1>1, <1>2 DEF NUnits, HeaderSize

\* Sizes of held blocks never change, and a grant has the size asked for.
LEMMA SizeStep ==
  ASSUME RequestsFit, Inv, SizeInv, [GuardedNext]_vars
  PROVE  SizeInv'
<1>1. TypeOK
  BY DEF Inv
<1>2. ASSUME held' \subseteq held, \A a \in held' : size'[a] = size[a] /\ want'[a] = want[a]
      PROVE  BigEnough'
  BY <1>2 DEF SizeInv, BigEnough
<1>3. ASSUME NEW n \in Requests, KmallocCall(n) PROVE SizeInv'
  <2>1. \A a \in held : size'[a] = size[a]
    <3>1. CASE freep = Nil
      <4>1. held = {}
        BY <3>1 DEF Inv, ListInv, Started, Nil, Addr
      <4> QED BY <4>1
    <3>2. CASE freep # Nil
      BY <3>2, <1>3 DEF KmallocCall, heapvars
    <3> QED BY <3>1, <3>2
  <2> QED BY <2>1, <1>2, <1>3, NUnitsEnough DEF KmallocCall, SizeInv
<1>4. ASSUME NEW q \in Addr, pc = "kmalloc", pc' = "idle",
             held' = held \union {q}, want' = [want EXCEPT ![q] = nbytes], size'[q] = nunits,
             \A a \in held : a # q => size'[a] = size[a]
      PROVE  SizeInv'
  <2> SUFFICES ASSUME NEW a \in held' PROVE want'[a] <= (size'[a] - 1) * HeaderSize
    BY <1>4 DEF SizeInv, BigEnough
  <2>1. CASE a = q
    BY <2>1, <1>4, <1>1 DEF SizeInv, TypeOK
  <2>2. CASE a # q
    <3>1. a \in held /\ size'[a] = size[a] /\ want'[a] = want[a]
      BY <2>2, <1>4, <1>1 DEF TypeOK
    <3> QED BY <3>1 DEF SizeInv, BigEnough
  <2> QED BY <2>1, <2>2
<1>5. CASE freep = Nil /\ held = {} /\ pc = "idle"
  <2>1. ~CallerStep /\ ~KmallocStep /\ ~KfreeStep
    BY <1>5 DEF CallerStep, KmallocStep, KfreeStep, KmallocTakeExact, KmallocTakeTail,
                KmallocNone, KmallocNext, KfreeNext, KfreeLink
  <2>2. CASE UNCHANGED vars
    BY <2>2 DEF vars, SizeInv, BigEnough
  <2> QED BY <2>1, <2>2, <1>3 DEF GuardedNext
<1>6. CASE \E F \in SUBSET Addr : Started(F)
  <2>1. PICK F \in SUBSET Addr : Started(F)
    BY <1>6
  <2>2. CASE KmallocTakeExact
    <3>1. p \in Addr
      BY <2>1, <2>2 DEF KmallocTakeExact, Started, Walking
    <3> QED BY <3>1, <2>2, <1>4 DEF KmallocTakeExact, KmallocGrant, KmallocReturn
  <2>3. CASE KmallocTakeTail
    <3> DEFINE q == p + (size[p] - nunits)
    <3>1. /\ pc = "kmalloc" /\ p \in F /\ p \in Addr /\ p \in Nat /\ size[p] \in Nat /\ nunits \in Nat
          /\ size[p] > nunits /\ nunits >= 1 /\ pc' = "idle" /\ held' = held \union {q}
          /\ want' = [want EXCEPT ![q] = nbytes]
          /\ size' = [size EXCEPT ![p] = size[p] - nunits, ![q] = nunits]
      BY <2>1, <2>3, <1>1 DEF KmallocTakeTail, KmallocGrant, KmallocReturn, Started, Walking, Addr, TypeOK
    <3>2. p \in Blocks(F) /\ Tiled(Blocks(F), size) /\ size \in [Addr -> Nat] /\ p \notin held
      BY <3>1, <2>1, <1>1 DEF Blocks, Started, TypeOK
    <3> HIDE DEF q
    <3>3. q \in Addr
      BY <3>1, <3>2, TiledCut DEF q
    <3>4. size'[q] = nunits /\ \A a \in held : a # q => size'[a] = size[a]
      BY <3>1, <3>2, <3>3, <1>1 DEF TypeOK
    <3> QED BY <3>1, <3>3, <3>4, <1>4
  <2>4. CASE KmallocNone
    BY <2>4, <1>2 DEF KmallocNone, KmallocReturn, SizeInv
  <2>5. CASE KmallocNext
    BY <2>5, <1>2 DEF KmallocNext, SizeInv
  <2>6. CASE KfreeNext
    BY <2>6, <1>2 DEF KfreeNext, SizeInv
  <2>7. CASE KfreeLink
    <3>1. /\ pc = "kfree" /\ pc' = "idle" /\ held' = held /\ want' = want
          /\ \A a \in Addr : a # bp /\ a # p => size'[a] = size[a]
      BY <2>7, <1>1 DEF KfreeLink, TypeOK
    <3>2. \A a \in held : a \in Addr /\ a # bp /\ a # p
      BY <3>1, <2>1, <1>1 DEF TypeOK, Started, Walking
    <3> QED BY <3>1, <3>2, <1>2 DEF SizeInv
  <2>8. ASSUME NEW a \in held, KfreeCall(a) PROVE SizeInv'
    <3>1. /\ pc' = "kfree" /\ held' = held \ {a} /\ size' = size /\ want' = [want EXCEPT ![a] = 0]
      BY <2>8 DEF KfreeCall
    <3>2. \A b \in held' : want'[b] = want[b]
      BY <3>1, <1>1 DEF TypeOK
    <3> QED BY <3>1, <3>2, <1>2 DEF SizeInv
  <2>9. ASSUME NEW a \in held, NEW j \in Junk, CallerWrite(a, j) PROVE SizeInv'
    <3>1. held' = held /\ want' = want /\ pc' = pc /\ nunits' = nunits /\ nbytes' = nbytes
      BY <2>9 DEF CallerWrite
    <3>2. \A b \in held : size'[b] = size[b]
      BY <2>1, <2>9, <1>1, Write DEF Blocks
    <3> QED BY <3>1, <3>2, <1>2 DEF SizeInv
  <2>10. CASE UNCHANGED vars
    BY <2>10 DEF vars, SizeInv, BigEnough
  <2> QED BY <2>2, <2>3, <2>4, <2>5, <2>6, <2>7, <2>8, <2>9, <2>10, <1>3
          DEF GuardedNext, CallerStep, KmallocStep, KfreeStep
<1> QED BY <1>5, <1>6 DEF Inv, ListInv

\* Blocks are big enough for what was asked, as long as no request is within
\* HeaderSize - 1 of 2^32.
THEOREM BlocksBigEnough == ASSUME RequestsFit PROVE GuardedSpec => []BigEnough
<1>1. Init => SizeInv
  BY DEF Init, SizeInv, BigEnough
<1>2. Inv /\ SizeInv /\ [GuardedNext]_vars => SizeInv'
  BY SizeStep
<1>3. SizeInv => BigEnough
  BY DEF SizeInv
<1> QED BY <1>1, <1>2, <1>3, InvHolds, PTL DEF GuardedSpec
=============================================================================
