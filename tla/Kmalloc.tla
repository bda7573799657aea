------------------------------ MODULE Kmalloc ------------------------------
(***************************************************************************)
(* src/mm/kmalloc.c: the kernel's storage allocator, a circular list of    *)
(* free blocks in address order inside one fixed arena.                    *)
(*                                                                         *)
(* Memory is an array of header-sized units, 0 .. Heap-1; unit 0 is        *)
(* KERNEL_MEM_START.  A block is named by the unit its header is in, so    *)
(* the pointer kmalloc returns is p + 1 in the code and p here.  Each loop *)
(* iteration of kmalloc and kfree is one action: the free list is walked   *)
(* in memory, whatever that memory holds.  The locals of a call are Nil    *)
(* (or 0) between calls.                                                   *)
(***************************************************************************)
EXTENDS Integers

CONSTANTS
  Heap,        \* KERNEL_MEM_SIZE / sizeof(union header)
  WordMod,     \* 2^32: nbytes and nunits are 32-bit unsigned
  Requests,    \* the nbytes the callers pass
  Junk         \* what boot memory and the callers' payloads may hold

Addr == 0 .. Heap - 1
Nil == -1
HeaderSize == 8   \* sizeof(union header): two 32-bit words

ASSUME HeapAssumption == Heap \in Nat \ {0}
ASSUME WordAssumption == WordMod \in Nat \ {0}
ASSUME RequestAssumption == Requests \subseteq 0 .. WordMod - 1
ASSUME JunkAssumption == Junk \subseteq Nat /\ Junk # {}

VARIABLES
  ptr, size,   \* the two words of every unit, read as a union header
  freep,       \* start of the free list, Nil until the first kmalloc
  pc,          \* "idle", or the function that is running
  p, prevp,    \* the locals of the list walks
  nunits,      \* kmalloc's local
  nbytes,      \* kmalloc's argument
  bp,          \* kfree's local
  ret,         \* what kmalloc returned, until the next call
  held,        \* blocks granted and not yet freed
  want         \* the nbytes each held block was asked for

heapvars == <<ptr, size, freep>>
locals == <<p, prevp, nunits, nbytes, bp>>
callers == <<ret, held, want>>
vars == <<ptr, size, freep, pc, p, prevp, nunits, nbytes, bp, ret, held, want>>

-----------------------------------------------------------------------------
Units(a) == a .. a + size[a] - 1

\* Mutant: the byte count is rounded down.
NUnits_Bug(n) == (n % WordMod) \div HeaderSize + 1

\* The number of units for n bytes and a header, in 32-bit arithmetic.
NUnits(n) == ((n + HeaderSize - 1) % WordMod) \div HeaderSize + 1

Init ==
  /\ \E j \in Junk : ptr = [a \in Addr |-> j] /\ size = [a \in Addr |-> j]
  /\ freep = Nil
  /\ pc = "idle"
  /\ p = Nil /\ prevp = Nil /\ nunits = 0 /\ nbytes = 0 /\ bp = Nil
  /\ ret = Nil /\ held = {} /\ want = [a \in Addr |-> 0]

\* Entry of kmalloc: the first call builds the list, one block over the arena.
KmallocCall(n) ==
  /\ pc = "idle"
  /\ pc' = "kmalloc"
  /\ nbytes' = n
  /\ nunits' = NUnits(n)
  /\ IF freep = Nil
     THEN /\ ptr' = [ptr EXCEPT ![0] = 0]
          /\ size' = [size EXCEPT ![0] = Heap]
          /\ freep' = 0 /\ prevp' = 0 /\ p' = 0
     ELSE /\ prevp' = freep
          /\ p' = ptr[freep]
          /\ UNCHANGED heapvars
  /\ ret' = Nil
  /\ UNCHANGED <<bp, held, want>>

KmallocReturn(a) ==
  /\ pc' = "idle"
  /\ p' = Nil /\ prevp' = Nil /\ nunits' = 0 /\ nbytes' = 0
  /\ ret' = a
  /\ UNCHANGED bp

KmallocGrant(a) ==
  /\ held' = held \union {a}
  /\ want' = [want EXCEPT ![a] = nbytes]
  /\ freep' = prevp
  /\ KmallocReturn(a)

\* Mutant: the exact block is granted and not unlinked.
KmallocTakeExact_Bug ==
  /\ pc = "kmalloc"
  /\ size[p] = nunits
  /\ UNCHANGED <<ptr, size>>
  /\ KmallocGrant(p)

\* "exactly": unlink the block.
KmallocTakeExact ==
  /\ pc = "kmalloc"
  /\ size[p] = nunits
  /\ ptr' = [ptr EXCEPT ![prevp] = ptr[p]]
  /\ UNCHANGED size
  /\ KmallocGrant(p)

\* Mutant: the tail is located before the block is shortened.
KmallocTakeTail_Bug ==
  /\ pc = "kmalloc"
  /\ size[p] > nunits
  /\ size' = [size EXCEPT ![p] = size[p] - nunits, ![p + size[p]] = nunits]
  /\ KmallocGrant(p + size[p])
  /\ UNCHANGED ptr

\* Mutant: the block is not shortened.
KmallocTakeTail_Bug2 ==
  /\ pc = "kmalloc"
  /\ size[p] > nunits
  /\ LET rest == size[p] - nunits
     IN /\ size' = [size EXCEPT ![p + rest] = nunits]
        /\ KmallocGrant(p + rest)
  /\ UNCHANGED ptr

\* "allocate tail end": the block stays on the list, shorter.
KmallocTakeTail ==
  /\ pc = "kmalloc"
  /\ size[p] > nunits
  /\ LET rest == size[p] - nunits
     IN /\ size' = [size EXCEPT ![p] = rest, ![p + rest] = nunits]
        /\ KmallocGrant(p + rest)
  /\ UNCHANGED ptr

\* Mutant: the walk gives up at the first block that is too small.
KmallocNone_Bug ==
  /\ pc = "kmalloc"
  /\ size[p] < nunits
  /\ KmallocReturn(Nil)
  /\ UNCHANGED <<ptr, size, freep, held, want>>

\* "wrapped around free list": morecore has nothing to add, "none left".
KmallocNone ==
  /\ pc = "kmalloc"
  /\ size[p] < nunits
  /\ p = freep
  /\ KmallocReturn(Nil)
  /\ UNCHANGED <<ptr, size, freep, held, want>>

KmallocNext ==
  /\ pc = "kmalloc"
  /\ size[p] < nunits
  /\ p # freep
  /\ prevp' = p
  /\ p' = ptr[p]
  /\ UNCHANGED <<ptr, size, freep, pc, nunits, nbytes, bp, ret, held, want>>

\* Entry of kfree: from here the caller no longer has the block.
KfreeCall(a) ==
  /\ pc = "idle"
  /\ a \in held
  /\ pc' = "kfree"
  /\ bp' = a
  /\ p' = freep
  /\ held' = held \ {a}
  /\ want' = [want EXCEPT ![a] = 0]
  /\ ret' = Nil
  /\ UNCHANGED <<ptr, size, freep, prevp, nunits, nbytes>>

\* Mutant: the ends of the arena are forgotten.
KfreePlace_Bug == bp > p /\ bp < ptr[p]

\* bp belongs right after p: between p and its successor, or at either end
\* of the arena when p is the last block.
KfreePlace ==
  \/ bp > p /\ bp < ptr[p]
  \/ p >= ptr[p] /\ (bp > p \/ bp < ptr[p])

KfreeNext ==
  /\ pc = "kfree"
  /\ ~KfreePlace
  /\ p' = ptr[p]
  /\ UNCHANGED <<ptr, size, freep, pc, prevp, nunits, nbytes, bp, ret, held, want>>

\* Mutant: bp is never joined to its lower neighbour.
KfreeLink_Bug ==
  /\ pc = "kfree"
  /\ KfreePlace
  /\ LET up == bp + size[bp] = ptr[p]
     IN /\ size' = IF up THEN [size EXCEPT ![bp] = size[bp] + size[ptr[p]]] ELSE size
        /\ ptr' = [ptr EXCEPT ![bp] = IF up THEN ptr[ptr[p]] ELSE ptr[p], ![p] = bp]
  /\ freep' = p
  /\ pc' = "idle"
  /\ p' = Nil /\ bp' = Nil
  /\ UNCHANGED <<prevp, nunits, nbytes, ret, held, want>>

\* Join bp to the upper neighbour, then to the lower one, in that order, each
\* step reading the words the previous one wrote.
KfreeLink ==
  /\ pc = "kfree"
  /\ KfreePlace
  /\ LET up == bp + size[bp] = ptr[p]
         size1 == IF up THEN [size EXCEPT ![bp] = size[bp] + size[ptr[p]]] ELSE size
         ptr1 == [ptr EXCEPT ![bp] = IF up THEN ptr[ptr[p]] ELSE ptr[p]]
         down == p + size1[p] = bp
     IN /\ size' = IF down THEN [size1 EXCEPT ![p] = size1[p] + size1[bp]] ELSE size1
        /\ ptr' = [ptr1 EXCEPT ![p] = IF down THEN ptr1[bp] ELSE bp]
  /\ freep' = p
  /\ pc' = "idle"
  /\ p' = Nil /\ bp' = Nil
  /\ UNCHANGED <<prevp, nunits, nbytes, ret, held, want>>

\* A caller fills the block it holds; its header is out of its reach.
CallerWrite(a, j) ==
  /\ pc = "idle"
  /\ a \in held
  /\ LET payload == Units(a) \ {a}
     IN /\ ptr' = [u \in Addr |-> IF u \in payload THEN j ELSE ptr[u]]
        /\ size' = [u \in Addr |-> IF u \in payload THEN j ELSE size[u]]
  /\ UNCHANGED <<freep, pc, p, prevp, nunits, nbytes, bp, ret, held, want>>

KmallocStep == KmallocTakeExact \/ KmallocTakeTail \/ KmallocNone \/ KmallocNext
KfreeStep == KfreeNext \/ KfreeLink
CallerStep == \E a \in held : KfreeCall(a) \/ \E j \in Junk : CallerWrite(a, j)

Next ==
  \/ \E n \in Requests : KmallocCall(n)
  \/ CallerStep
  \/ KmallocStep
  \/ KfreeStep

Spec == Init /\ [][Next]_vars

-----------------------------------------------------------------------------
(***************************************************************************)
(* The list has no block of size 0 that could never be taken: base itself  *)
(* is the arena.  The allocator is correct for callers that never ask for  *)
(* exactly the size of base, the lowest block; GuardedSpec has those       *)
(* callers.                                                                *)
(***************************************************************************)
BaseSize == IF freep = Nil THEN Heap ELSE size[0]

GuardedNext ==
  \/ \E n \in Requests : NUnits(n) # BaseSize /\ KmallocCall(n)
  \/ CallerStep
  \/ KmallocStep
  \/ KfreeStep

GuardedSpec == Init /\ [][GuardedNext]_vars

\* The kernel runs with interrupts off and calls the allocator from one
\* thread: a call that can take a step takes it.
FairSpec == GuardedSpec /\ WF_vars(KmallocStep \/ KfreeStep)

-----------------------------------------------------------------------------
\* Every variable has a value the code can represent; the list pointers stay
\* inside the arena.
TypeOK ==
  /\ ptr \in [Addr -> Nat]
  /\ size \in [Addr -> Nat]
  /\ freep \in Addr \union {Nil}
  /\ pc \in {"idle", "kmalloc", "kfree"}
  /\ p \in Addr \union {Nil}
  /\ prevp \in Addr \union {Nil}
  /\ nunits \in Nat
  /\ nbytes \in Nat
  /\ bp \in Addr \union {Nil}
  /\ ret \in Addr \union {Nil}
  /\ held \subseteq Addr
  /\ want \in [Addr -> Nat]

\* The blocks reached from freep: the least set that holds freep and is closed
\* under ptr.
OnList ==
  {a \in Addr : \A S \in SUBSET Addr :
      (freep \in S /\ \A b \in S : ptr[b] \in S) => a \in S}

\* "next block if on free list": a block a caller holds is not on the free
\* list, so no later kmalloc can hand it out and no walk reads its payload.
HeldNotFree == freep # Nil => held \cap OnList = {}

\* No two blocks the callers hold share a unit, their headers included: the
\* cutting of tails and the joining of neighbours never let blocks overlap.
HeldDisjoint == \A a, b \in held : a # b => Units(a) \cap Units(b) = {}

UsedUnits == UNION {Units(a) : a \in held}

\* A maximal run of units no caller holds.
Gap(a, n) ==
  /\ n > 0
  /\ a .. a + n - 1 \subseteq Addr \ UsedUnits
  /\ a - 1 \notin Addr \ UsedUnits
  /\ a + n \notin Addr \ UsedUnits

\* Between calls the free list is exactly the maximal free runs: nothing is
\* leaked, nothing is listed twice, and kfree has joined all neighbours.
FreeListIsGaps ==
  pc = "idle" /\ freep # Nil =>
    \A a \in Addr : \A n \in 1 .. Heap :
      Gap(a, n) <=> a \in OnList /\ size[a] = n

\* The blocks of the arena when the free ones are F: free, held, or being freed.
Blocks(F) == F \union held \union (IF pc = "kfree" THEN {bp} ELSE {})

\* The pointers next run through F in address order, from the last block back
\* to the first.
Sorted(F, next) ==
  \A a, b \in F :
    /\ next[a] \in F
    /\ IF next[a] > a THEN b <= a \/ b >= next[a] ELSE next[a] <= b /\ b <= a

\* Blocks B of lengths len do not overlap and leave no unit of the arena out.
Tiled(B, len) ==
  /\ \A a \in B : a \in Addr /\ len[a] >= 1 /\ a + len[a] <= Heap
  /\ \A a, b \in B : a < b => a + len[a] <= b
  /\ \A u \in Addr : \E a \in B : a <= u /\ u < a + len[a]

\* No two free blocks touch.
Coalesced(F, len) == \A a, b \in F : a + len[a] # b

\* x lies strictly between freep and p in the order of the walk.
Passed(x) == IF freep < p THEN freep < x /\ x < p ELSE freep < x \/ x < p

\* What the walk of a running call knows.
Walking(F) ==
  /\ pc = "kmalloc" => /\ p \in F /\ prevp \in F /\ ptr[prevp] = p
                       /\ nunits >= 1 /\ nunits # size[0]
                       /\ \A x \in F : Passed(x) => size[x] < nunits
  /\ pc = "kfree" => p \in F /\ bp \in Addr /\ bp \notin F \union held

Started(F) ==
  /\ freep \in F /\ 0 \in F
  /\ F \cap held = {}
  /\ Sorted(F, ptr)
  /\ Tiled(Blocks(F), size)
  /\ Coalesced(F, size)
  /\ Walking(F)

\* The inductive invariant: before the first kmalloc nothing is held; after it
\* some set of blocks that holds base is the free list, and with the held
\* blocks it tiles the arena.
ListInv ==
  \/ freep = Nil /\ held = {} /\ pc = "idle"
  \/ \E F \in SUBSET Addr : Started(F)

\* "big enough": the units after the header hold what the caller asked for.
BigEnough == \A a \in held : want[a] <= (size[a] - 1) * HeaderSize

\* The promise of HeapContract, with the request visible while kmalloc runs
\* and the release visible when kfree is entered.
Contract == INSTANCE HeapContract WITH
  asked <- IF pc = "kmalloc" THEN nunits ELSE 0,
  live <- {[start |-> a, len |-> size[a]] : a \in held},
  answer <- ret

\* kmalloc and kfree implement the allocator's contract: grants come out of
\* free units, and NULL is returned only when no free run is long enough.
KeepsContract == Contract!Spec

\* "none left": when no run of free units is as long as the request, kmalloc
\* returns NULL.
NoneLeft ==
  [][ pc = "kmalloc" /\ pc' = "idle" /\ Contract!Room(nunits) = {} => ret' = Nil ]_vars

\* Every call of kmalloc and kfree returns: neither walk circles for ever.
CallsReturn == (pc # "idle") ~> (pc = "idle")
=============================================================================
