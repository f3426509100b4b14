-------------------------- MODULE DynTallocrProofs --------------------------
(***************************************************************************)
(* Proofs about DynTallocr, for any extent of the allocator and any sizes.  *)
(* What they need of the constants is a hypothesis: GraphAllocatorProofs    *)
(* takes this module by INSTANCE.                                           *)
(***************************************************************************)
EXTENDS DynTallocr, TLAPS

ConstantsOK == Arena \in Nat \ {0} /\ Sizes \subseteq Nat \ {0}

Blocks == [offset : Nat, size : Nat \ {0}]

TallocrInv == /\ free \subseteq Blocks /\ live \subseteq Blocks /\ maxSize \in Nat
              /\ Disjoint /\ Distinct /\ Coalesced /\ NothingLost /\ InBuffer

-----------------------------------------------------------------------------
(* Blocks and their extents.                                                *)
LEMMA BlockType ==
  ASSUME NEW offset \in Nat, NEW size \in Nat \ {0}
  PROVE  /\ Block(offset, size) \in Blocks
         /\ Block(offset, size).offset = offset
         /\ End(Block(offset, size)) = offset + size
BY DEF Block, Blocks, End

LEMMA EndType ==
  ASSUME NEW b \in Blocks
  PROVE  b.offset \in Nat /\ b.size \in Nat \ {0} /\ End(b) \in Nat
         /\ End(b) = b.offset + b.size /\ b.offset < End(b)
BY DEF Blocks, End

(* What is apart from a block is apart from every part of it.               *)
LEMMA ApartFromPart ==
  ASSUME NEW a \in Blocks, NEW b \in Blocks, NEW part \in Blocks,
         b.offset <= part.offset, End(part) <= End(b), Apart(a, b)
  PROVE  Apart(a, part) /\ Apart(part, a) /\ a # part
BY EndType DEF Apart

(* What is cut from the front of a free block is apart from all live ranges. *)
LEMMA CutApart ==
  ASSUME TallocrInv, NEW size \in Nat \ {0}, NEW b \in free, b.size >= size
  PROVE  /\ b.offset \in Nat
         /\ \A x \in live : Apart(x, Block(b.offset, size)) /\ x # Block(b.offset, size)
<1> DEFINE new == Block(b.offset, size)
<1>1. /\ b \in Blocks /\ b.offset \in Nat /\ b.size \in Nat
      /\ End(b) = b.offset + b.size
  BY EndType DEF TallocrInv
<1>2. new \in Blocks /\ new.offset = b.offset /\ End(new) = b.offset + size
  BY <1>1, BlockType
<1>3. b.offset <= new.offset /\ End(new) <= End(b)
  BY <1>1, <1>2
<1>4. \A x \in live : x \in Blocks /\ x # b /\ Apart(x, b)
  BY DEF TallocrInv, Disjoint, Distinct
<1> HIDE DEF new
<1>5. \A x \in live : Apart(x, new) /\ x # new
  BY <1>1, <1>2, <1>3, <1>4, ApartFromPart
<1> QED
  BY <1>1, <1>5 DEF new

-----------------------------------------------------------------------------
LEMMA EmptyHolds ==
  ASSUME ConstantsOK
  PROVE  /\ Empty \subseteq Blocks
         /\ \A a, b \in Empty : a = b /\ End(a) # b.offset
         /\ \A u \in 0..Arena-1 : \E b \in Empty : b.offset <= u /\ u < End(b)
<1>1. /\ Block(0, Arena) \in Blocks /\ Block(0, Arena).offset = 0
      /\ End(Block(0, Arena)) = Arena
  BY BlockType DEF ConstantsOK
<1> QED
  BY <1>1 DEF Empty, ConstantsOK

LEMMA TallocrInitHolds ==
  ASSUME ConstantsOK, Init
  PROVE  TallocrInv
BY EmptyHolds DEF Init, TallocrInv, Disjoint, Distinct, Coalesced, NothingLost, InBuffer

(* The range is cut from the front of a free block.                         *)
LEMMA AllocKept ==
  ASSUME ConstantsOK, TallocrInv, NEW size \in Sizes, Alloc(size)
  PROVE  TallocrInv'
<1>1. PICK b \in free :
        /\ b.size >= size
        /\ free' = Cut(free, b, size)
        /\ maxSize' = Max2(maxSize, b.offset + size)
        /\ live' = live \union {Block(b.offset, size)}
  BY DEF Alloc
<1> DEFINE new == Block(b.offset, size)
           rest == Block(b.offset + size, b.size - size)
           others == (free \union live) \ {b}
<1>2. /\ size \in Nat \ {0} /\ b \in Blocks /\ b.offset \in Nat /\ b.size \in Nat
      /\ End(b) = b.offset + b.size /\ maxSize \in Nat
  BY EndType DEF ConstantsOK, TallocrInv
<1>3. /\ new \in Blocks /\ new.offset = b.offset /\ End(new) = b.offset + size
      /\ End(new) <= End(b)
  <2>1. /\ Block(b.offset, size) \in Blocks
        /\ Block(b.offset, size).offset = b.offset
        /\ End(Block(b.offset, size)) = b.offset + size
    BY <1>2, BlockType
  <2> QED
    BY <1>1, <1>2, <2>1
<1>4. b.size # size =>
        rest \in Blocks /\ rest.offset = End(new) /\ End(rest) = End(b)
  <2> HAVE b.size # size
  <2> DEFINE o == b.offset + size
             s == b.size - size
  <2>1. s \in Nat \ {0} /\ o \in Nat /\ o + s = End(b) /\ o = End(new)
    BY <1>1, <1>2, <1>3
  <2> HIDE DEF o, s, new
  <2>2. Block(o, s) \in Blocks /\ Block(o, s).offset = o /\ End(Block(o, s)) = o + s
    BY <2>1, BlockType
  <2>3. rest = Block(o, s)
    BY DEF o, s
  <2> QED
    BY <2>1, <2>2, <2>3
<1>5. \A x \in others : x \in Blocks /\ Apart(x, b) /\ Apart(b, x)
  BY DEF TallocrInv, Disjoint
<1>6. /\ free' = (free \ {b}) \union (IF b.size = size THEN {} ELSE {rest})
      /\ live' = live \union {new}
      /\ b \notin live
  BY <1>1 DEF Cut, TallocrInv, Distinct
<1> HIDE DEF new, rest
<1>7. \A x \in others : /\ Apart(x, new) /\ Apart(new, x) /\ x # new
                        /\ b.size # size => Apart(x, rest) /\ Apart(rest, x) /\ x # rest
  BY <1>2, <1>3, <1>4, <1>5, ApartFromPart, EndType
<1>8. free' \subseteq Blocks /\ live' \subseteq Blocks /\ maxSize' \in Nat
  BY <1>1, <1>2, <1>3, <1>4, <1>6 DEF TallocrInv, Max2
<1>9. Disjoint'
  <2>1. b.size # size => Apart(new, rest) /\ Apart(rest, new)
    BY <1>3, <1>4, EndType DEF Apart
  <2>2. \A x, y \in others : x # y => Apart(x, y)
    BY DEF TallocrInv, Disjoint
  <2>3. free' \union live' \subseteq
          others \union {new} \union (IF b.size = size THEN {} ELSE {rest})
    BY <1>6
  <2> HIDE DEF others
  <2> QED
    BY <1>7, <2>1, <2>2, <2>3 DEF Disjoint
<1>10. Distinct'
  <2>1. b.size # size => new # rest
    BY <1>3, <1>4, EndType
  <2> QED
    BY <1>6, <1>7, <2>1 DEF TallocrInv, Distinct
<1>11. Coalesced'
  <2>1. \A x, y \in free : End(x) # y.offset
    BY DEF TallocrInv, Coalesced
  <2>2. ASSUME b.size # size
        PROVE  /\ End(rest) # rest.offset
               /\ \A x \in free \ {b} : End(rest) # x.offset /\ End(x) # rest.offset
    <3>1. End(rest) # rest.offset
      BY <1>4, <2>2, EndType
    <3>2. ASSUME NEW x \in free \ {b}
          PROVE  End(rest) # x.offset /\ End(x) # rest.offset
      <4>1. x \in Blocks /\ Apart(x, b) /\ End(b) # x.offset
        BY <1>5, <2>1
      <4> QED
        BY <1>2, <1>3, <1>4, <2>2, <4>1, EndType DEF Apart
    <3> QED
      BY <3>1, <3>2
  <2> QED
    BY <1>6, <2>1, <2>2 DEF Coalesced
<1>12. NothingLost'
  <2> SUFFICES ASSUME NEW u \in 0..Arena-1
               PROVE  \E x \in free' \union live' : x.offset <= u /\ u < End(x)
    BY DEF NothingLost
  <2>1. PICK x \in free \union live : x.offset <= u /\ u < End(x)
    BY DEF TallocrInv, NothingLost
  <2>2. CASE x # b
    BY <1>6, <2>1, <2>2
  <2>3. CASE x = b /\ u < End(new)
    BY <1>3, <1>6, <2>1, <2>3
  <2>4. CASE x = b /\ ~(u < End(new))
    <3>1. u \in Nat /\ End(new) \in Nat /\ End(new) <= u /\ u < End(b)
      BY <1>2, <1>3, <2>1, <2>4, EndType DEF ConstantsOK
    <3>2. b.size # size
      BY <1>2, <1>3, <3>1
    <3> QED
      BY <1>4, <1>6, <3>1, <3>2
  <2> QED
    BY <2>2, <2>3, <2>4
<1>13. InBuffer'
  BY <1>1, <1>2, <1>3, <1>6, EndType DEF TallocrInv, InBuffer, Max2
<1> QED
  BY <1>8, <1>9, <1>10, <1>11, <1>12, <1>13 DEF TallocrInv

(* The range becomes one free block with the neighbours it has.             *)
LEMMA FreeTensorKept ==
  ASSUME ConstantsOK, TallocrInv, NEW b \in live, FreeTensor(b)
  PROVE  TallocrInv'
<1> DEFINE before == Before(free, b)
           after == After(free, b)
           first == IF before = {} THEN b.offset ELSE (CHOOSE c \in before : TRUE).offset
           end == IF after = {} THEN End(b) ELSE End(CHOOSE c \in after : TRUE)
           merged == Block(first, end - first)
           rest == free \ (before \union after)
<1>1. /\ free' = rest \union {merged} /\ live' = live \ {b} /\ maxSize' = maxSize
  BY DEF FreeTensor, Merge
<1>2. /\ b \in Blocks /\ free \intersect live = {} /\ free \subseteq Blocks /\ live \subseteq Blocks
      /\ \A x, y \in free \union live : x # y => Apart(x, y)
      /\ \A x, y \in free : End(x) # y.offset
  BY DEF TallocrInv, Disjoint, Distinct, Coalesced
<1>3. \A c \in before : c \in free /\ c \in Blocks /\ End(c) = b.offset
  BY <1>2 DEF Before
<1>4. \A c \in after : c \in free /\ c \in Blocks /\ c.offset = End(b)
  BY <1>2 DEF After
<1>5. \A c, d \in before : c = d
  BY <1>2, <1>3, EndType DEF Apart
<1>6. \A c, d \in after : c = d
  BY <1>2, <1>4, EndType DEF Apart
<1>7. /\ before = {} => first = b.offset
      /\ \A c \in before : first = c.offset
  BY <1>5
<1>8. /\ after = {} => end = End(b)
      /\ \A c \in after : end = End(c)
  BY <1>6
<1> HIDE DEF before, after, first, end
<1>9. /\ first \in Nat /\ end \in Nat /\ first <= b.offset /\ End(b) <= end
      /\ end - first \in Nat \ {0}
  <2>1. first \in Nat /\ first <= b.offset
    BY <1>2, <1>3, <1>7, EndType
  <2>2. end \in Nat /\ End(b) <= end
    BY <1>2, <1>4, <1>8, EndType
  <2> QED
    BY <1>2, <2>1, <2>2, EndType
<1>10. merged \in Blocks /\ merged.offset = first /\ End(merged) = end
  BY <1>9, BlockType
<1> HIDE DEF merged
<1>11. ASSUME NEW x \in rest \union (live \ {b})
       PROVE  x \in Blocks /\ Apart(x, merged) /\ Apart(merged, x) /\ x # merged
  <2>1. x \in Blocks /\ Apart(x, b)
    BY <1>2
  <2>2. \A c \in before \union after : Apart(x, c)
    <3> SUFFICES ASSUME NEW c \in before \union after PROVE Apart(x, c)
      OBVIOUS
    <3>1. c \in free /\ x # c
      BY <1>2, <1>3, <1>4
    <3> QED
      BY <1>2, <3>1
  <2>3. CASE End(x) <= b.offset
    <3>1. End(x) <= first
      BY <1>2, <1>3, <1>7, <2>1, <2>2, <2>3, EndType DEF Apart
    <3> QED
      BY <1>9, <1>10, <2>1, <3>1, EndType DEF Apart
  <2>4. CASE End(b) <= x.offset
    <3>1. end <= x.offset
      BY <1>2, <1>4, <1>8, <2>1, <2>2, <2>4, EndType DEF Apart
    <3> QED
      BY <1>9, <1>10, <2>1, <3>1, EndType DEF Apart
  <2> QED
    BY <2>1, <2>3, <2>4 DEF Apart
<1>12. free' \subseteq Blocks /\ live' \subseteq Blocks /\ maxSize' \in Nat
  BY <1>1, <1>2, <1>10 DEF TallocrInv
<1>13. Disjoint'
  <2>1. free' \union live' = (rest \union (live \ {b})) \union {merged}
    BY <1>1
  <2>2. \A x, y \in rest \union (live \ {b}) : x # y => Apart(x, y)
    BY <1>2
  <2> HIDE DEF rest
  <2> QED
    BY <1>11, <2>1, <2>2 DEF Disjoint
<1>14. Distinct'
  BY <1>1, <1>11 DEF TallocrInv, Distinct
<1>15. Coalesced'
  <2>1. ASSUME NEW x \in rest
        PROVE  End(x) # merged.offset /\ End(merged) # x.offset
    <3>1. x \in free /\ End(x) # b.offset /\ x.offset # End(b)
      BY DEF before, after, Before, After
    <3>2. End(x) # first
      BY <1>2, <1>3, <1>7, <3>1
    <3>3. end # x.offset
      BY <1>2, <1>4, <1>8, <3>1
    <3> QED
      BY <1>10, <3>2, <3>3
  <2>2. End(merged) # merged.offset
    BY <1>10, EndType
  <2> QED
    BY <1>1, <1>2, <2>1, <2>2 DEF Coalesced
<1>16. NothingLost'
  <2> SUFFICES ASSUME NEW u \in 0..Arena-1
               PROVE  \E x \in free' \union live' : x.offset <= u /\ u < End(x)
    BY DEF NothingLost
  <2>1. PICK x \in free \union live : x.offset <= u /\ u < End(x)
    BY DEF TallocrInv, NothingLost
  <2>2. CASE x \in rest \union (live \ {b})
    BY <1>1, <2>1, <2>2
  <2>3. CASE x \in before \union after \union {b}
    <3>1. u \in Nat /\ x \in Blocks
      BY <1>2, <2>1 DEF ConstantsOK, TallocrInv
    <3>2. first <= u /\ u < end
      <4>1. CASE x = b
        BY <1>2, <1>9, <2>1, <3>1, <4>1, EndType
      <4>2. CASE x \in before
        BY <1>2, <1>3, <1>7, <1>9, <2>1, <3>1, <4>2, EndType
      <4>3. CASE x \in after
        BY <1>2, <1>4, <1>8, <1>9, <2>1, <3>1, <4>3, EndType
      <4> QED
        BY <2>3, <4>1, <4>2, <4>3
    <3> QED
      BY <1>1, <1>10, <3>2
  <2> QED
    BY <2>2, <2>3
<1>17. InBuffer'
  BY <1>1 DEF TallocrInv, InBuffer
<1> QED
  BY <1>12, <1>13, <1>14, <1>15, <1>16, <1>17 DEF TallocrInv

LEMMA TallocrInvKept ==
  ASSUME ConstantsOK
  PROVE  TallocrInv /\ [Next]_vars => TallocrInv'
<1> SUFFICES ASSUME TallocrInv, [Next]_vars PROVE TallocrInv'
  OBVIOUS
<1>1. ASSUME NEW size \in Sizes, Alloc(size)
      PROVE  TallocrInv'
  BY <1>1, AllocKept
<1>2. ASSUME NEW b \in live, FreeTensor(b)
      PROVE  TallocrInv'
  BY <1>2, FreeTensorKept
<1>3. CASE Reset
  BY <1>3, EmptyHolds
     DEF Reset, TallocrInv, Disjoint, Distinct, Coalesced, NothingLost, InBuffer
<1>4. CASE UNCHANGED vars
  BY <1>4 DEF vars, TallocrInv, Disjoint, Distinct, Coalesced, NothingLost, InBuffer
<1> QED
  BY <1>1, <1>2, <1>3, <1>4 DEF Next

-----------------------------------------------------------------------------
(* The tensor allocator, through any calls its rules allow: live ranges     *)
(* overlap nothing, nothing is lost, free neighbours are merged, and a      *)
(* buffer of max_size units holds what is live.                             *)
THEOREM TallocrCorrect ==
  ASSUME ConstantsOK
  PROVE  Spec => [](Disjoint /\ Distinct /\ Coalesced /\ NothingLost /\ InBuffer)
<1>1. Init => TallocrInv
  BY TallocrInitHolds
<1>2. TallocrInv /\ [Next]_vars => TallocrInv'
  BY TallocrInvKept
<1>3. TallocrInv => Disjoint /\ Distinct /\ Coalesced /\ NothingLost /\ InBuffer
  BY DEF TallocrInv
<1> QED
  BY <1>1, <1>2, <1>3, PTL DEF Spec

=============================================================================
