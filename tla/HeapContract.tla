---------------------------- MODULE HeapContract ----------------------------
(***************************************************************************)
(* What a storage allocator promises its callers, whatever it keeps in     *)
(* memory to do so: an arena of Heap units, a set of live blocks that      *)
(* never overlap, a request answered by a block cut out of free units, and *)
(* a request refused only when no run of free units is long enough.        *)
(* Kmalloc.tla is shown to implement this module.                          *)
(***************************************************************************)
EXTENDS Integers

CONSTANT Heap

VARIABLES
  asked,    \* length of the request being served, 0 when there is none
  live,     \* blocks the callers hold: records [start, len]
  answer    \* what the last call returned: a start, or Nil

cvars == <<asked, live, answer>>

Nil == -1
Extent(b) == b.start .. b.start + b.len - 1
Free == (0 .. Heap - 1) \ UNION {Extent(b) : b \in live}
Room(n) == {s \in 0 .. Heap - 1 : s .. s + n - 1 \subseteq Free}

Init == asked = 0 /\ live = {} /\ answer = Nil

Ask == /\ asked = 0
       /\ asked' \in Nat \ {0}
       /\ answer' = Nil
       /\ UNCHANGED live

Grant == /\ asked # 0
         /\ \E s \in Room(asked) :
              /\ live' = live \union {[start |-> s, len |-> asked]}
              /\ answer' = s
         /\ asked' = 0

Refuse == /\ asked # 0
          /\ Room(asked) = {}
          /\ answer' = Nil
          /\ asked' = 0
          /\ UNCHANGED live

Release == /\ asked = 0
           /\ \E b \in live : live' = live \ {b}
           /\ answer' = Nil
           /\ UNCHANGED asked

Next == Ask \/ Grant \/ Refuse \/ Release

Spec == Init /\ [][Next]_cvars
=============================================================================
