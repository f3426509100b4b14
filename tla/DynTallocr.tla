----------------------------- MODULE DynTallocr -----------------------------
(***************************************************************************)
(* ggml-alloc: ggml_dyn_tallocr, which hands out ranges of a buffer that    *)
(* does not exist yet, to find out how large it must be.  Offsets and sizes *)
(* are in units of the alignment.  The array of free blocks, sorted by      *)
(* offset, is the set of its blocks; "live" is what the caller holds and    *)
(* has not given back, which the code does not store.                       *)
(***************************************************************************)
EXTENDS Naturals

CONSTANTS Arena, \* SIZE_MAX/2, the extent of an empty allocator
          Sizes  \* the sizes callers ask for, rounded up to the alignment

VARIABLES
  free,    \* free_blocks
  maxSize, \* max_size
  live     \* ranges handed out

vars == <<free, maxSize, live>>

Block(offset, size) == [offset |-> offset, size |-> size]
End(b) == b.offset + b.size

Max2(a, b) == IF a > b THEN a ELSE b

(* ggml_dyn_tallocr_reset                                                   *)
Empty == {Block(0, Arena)}

(* The smallest block that fits, the last of several, but the last block of *)
(* all only when no other fits.                                             *)
IsLast(blocks, b) == \A c \in blocks : c.offset <= b.offset
Fits(blocks, size) == {b \in blocks : b.size >= size /\ ~IsLast(blocks, b)}
BestFit(blocks, size, b) ==
  \/ /\ b \in Fits(blocks, size)
     /\ \A c \in Fits(blocks, size) :
          \/ b.size < c.size
          \/ b.size = c.size /\ c.offset <= b.offset
  \/ /\ Fits(blocks, size) = {}
     /\ IsLast(blocks, b)

(* The blocks that are left when "size" is taken from the front of b.       *)
Cut(blocks, b, size) ==
  (blocks \ {b}) \union IF b.size = size THEN {}
                        ELSE {Block(b.offset + size, b.size - size)}

(* The blocks with b given back, merged with its neighbours.                *)
Before(blocks, b) == {c \in blocks : End(c) = b.offset}
After(blocks, b)  == {c \in blocks : c.offset = End(b)}
Merge(blocks, b) ==
  LET before == Before(blocks, b)
      after  == After(blocks, b)
      first  == IF before = {} THEN b.offset
                ELSE (CHOOSE c \in before : TRUE).offset
      end    == IF after = {} THEN End(b) ELSE End(CHOOSE c \in after : TRUE)
  IN (blocks \ (before \union after)) \union {Block(first, end - first)}

-----------------------------------------------------------------------------
Init ==
  /\ free = Empty
  /\ maxSize = 0
  /\ live = {}

(* ggml_dyn_tallocr_alloc; the last block never runs out.                   *)
Alloc(size) ==
  \E b \in free :
    /\ BestFit(free, size, b)
    /\ b.size >= size
    /\ free' = Cut(free, b, size)
    /\ maxSize' = Max2(maxSize, b.offset + size)
    /\ live' = live \union {Block(b.offset, size)}

(* ggml_dyn_tallocr_free_tensor                                             *)
FreeTensor(b) ==
  /\ b \in live
  /\ free' = Merge(free, b)
  /\ live' = live \ {b}
  /\ UNCHANGED maxSize

Reset ==
  /\ free' = Empty
  /\ maxSize' = 0
  /\ live' = {}

Next ==
  \/ \E size \in Sizes : Alloc(size)
  \/ \E b \in live : FreeTensor(b)
  \/ Reset

Spec == Init /\ [][Next]_vars

-----------------------------------------------------------------------------
Apart(a, b) == End(a) <= b.offset \/ End(b) <= a.offset

(* What is handed out overlaps nothing, neither other live ranges nor free  *)
(* blocks, free neighbours are always merged, nothing is lost, and a buffer *)
(* of max_size units holds every live range.                                *)
Disjoint  == \A a, b \in free \union live : a # b => Apart(a, b)
Distinct  == free \intersect live = {}
Coalesced == \A a, b \in free : End(a) # b.offset
NothingLost ==
  \A u \in 0..Arena-1 : \E b \in free \union live : b.offset <= u /\ u < End(b)
InBuffer  == \A b \in live : End(b) <= maxSize

=============================================================================
