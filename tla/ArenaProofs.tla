---------------------------- MODULE ArenaProofs -----------------------------
(***************************************************************************)
(* The theorems of core/arena, for every slab size, every set of request   *)
(* sizes and every pattern of malloc and realloc failures.                 *)
(***************************************************************************)
EXTENDS Arena, TLAPS

(***************************************************************************)
(* No request is so large that adding the redzone wraps the size: always   *)
(* true of a build without ASan (LEMMA NoWrapWithoutRedzone).              *)
(***************************************************************************)
NoChargeWrap == \A n \in Sizes : AlignUp(n) + Redzone <= SizeMax

(***************************************************************************)
(* Every cursor is aligned: what makes the next chunk aligned.             *)
(***************************************************************************)
CursorsAligned == \A i \in DOMAIN blocks : blocks[i].used % 16 = 0

IInv == /\ TypeOK /\ DescriptorsInBounds /\ SlabsOwnedOnce
        /\ LiveInsideSlab /\ LiveApart /\ CursorsAligned

-----------------------------------------------------------------------------

(***************************************************************************)
(* dtl_arena_align_up returns a multiple of 16 no smaller than an accepted *)
(* request, and never more than SIZE_MAX.                                  *)
(***************************************************************************)
LEMMA AlignUpRounds ==
  ASSUME NEW n \in Sizes
  PROVE  /\ AlignUp(n) \in Nat /\ AlignUp(n) % 16 = 0 /\ AlignUp(n) <= SizeMax
         /\ Accepted(n) => AlignUp(n) >= n /\ n > 0
BY ArenaConstants DEF AlignUp, Accepted, DTL_ARENA_ALIGN

(***************************************************************************)
(* Reduction modulo the size of size_t does nothing to a value that fits.  *)
(***************************************************************************)
LEMMA ModFits ==
  ASSUME NEW x \in Nat, NEW m \in Nat, x < m
  PROVE  x % m = x
OBVIOUS

(***************************************************************************)
(* A cursor and a charge that are aligned add up to an aligned cursor.     *)
(***************************************************************************)
LEMMA AlignedSum ==
  ASSUME NEW x \in Nat, NEW y \in Nat, x % 16 = 0, y % 16 = 0
  PROVE  (x + y) % 16 = 0
OBVIOUS

(***************************************************************************)
(* Without a redzone no charge wraps.                                      *)
(***************************************************************************)
LEMMA NoWrapWithoutRedzone == Redzone = 0 => NoChargeWrap
BY AlignUpRounds DEF NoChargeWrap

(***************************************************************************)
(* The charge of an accepted request covers it and its redzone and keeps   *)
(* the cursor aligned.                                                     *)
(***************************************************************************)
LEMMA NeedCovers ==
  ASSUME NoChargeWrap, NEW n \in Sizes, Accepted(n)
  PROVE  /\ Need(n) \in Nat /\ Need(n) % 16 = 0
         /\ n \in Nat /\ n > 0 /\ n + Redzone <= Need(n) /\ Need(n) <= SizeMax
<1>1. /\ AlignUp(n) \in Nat /\ AlignUp(n) % 16 = 0
      /\ AlignUp(n) >= n /\ n > 0 /\ n \in Nat
  BY AlignUpRounds, ArenaConstants
<1>2. AlignUp(n) + Redzone <= SizeMax /\ Redzone \in {0, 16} /\ SizeMax \in Nat
  BY ArenaConstants DEF NoChargeWrap
<1>3. Need(n) = AlignUp(n) + Redzone
  BY <1>1, <1>2, ModFits DEF Need
<1> QED BY <1>1, <1>2, <1>3

(***************************************************************************)
(* The size of a fresh slab is a size_t value.                             *)
(***************************************************************************)
LEMMA BlockSizeType == BlockSize \in 0 .. SizeMax
BY ArenaConstants DEF BlockSize

(***************************************************************************)
(* The types of the fields of a block descriptor.                          *)
(***************************************************************************)
LEMMA BlockFields ==
  \A b \in Block : b.used \in Nat /\ b.cap \in Nat /\ b.data \in Slabs
BY DEF Block

(***************************************************************************)
(* The types of the fields of a chunk handed to a caller.                  *)
(***************************************************************************)
LEMMA ChunkFields ==
  \A c \in Chunk : c.off \in Nat /\ c.len \in Nat /\ c.slab \in Slabs
BY DEF Chunk

(***************************************************************************)
(* Moving the cursor of a descriptor leaves its slab and capacity alone.   *)
(***************************************************************************)
LEMMA WithUsed ==
  ASSUME NEW b \in Block, NEW u \in 0 .. SizeMax
  PROVE  LET d == [b EXCEPT !.used = u]
         IN  d \in Block /\ d.used = u /\ d.data = b.data /\ d.cap = b.cap
BY DEF Block

(***************************************************************************)
(* Storing one descriptor changes that entry of the array and no other.    *)
(***************************************************************************)
LEMMA ReplaceBlock ==
  ASSUME NEW s \in Seq(Block), NEW k \in 1 .. Len(s), NEW d \in Block
  PROVE  LET t == [s EXCEPT ![k] = d]
         IN  /\ t \in Seq(Block) /\ Len(t) = Len(s) /\ t[k] = d
             /\ \A i \in 1 .. Len(s) : i # k => t[i] = s[i]
OBVIOUS

-----------------------------------------------------------------------------

(***************************************************************************)
(* The initial arena satisfies the invariant.                              *)
(***************************************************************************)
LEMMA InitIInv == Init => IInv
BY DEF Init, IInv, TypeOK, DescriptorsInBounds, SlabsOwnedOnce,
       LiveInsideSlab, LiveApart, CursorsAligned

(***************************************************************************)
(* The fast path bumps the last cursor past everything handed out of the   *)
(* last slab, so the new chunk is apart from the older ones.               *)
(***************************************************************************)
LEMMA FastStep ==
  ASSUME NoChargeWrap, IInv, NEW n \in Sizes, AllocFast(n)
  PROVE  IInv'
<1> DEFINE k == Len(blocks)
           c == [slab |-> Last.data, off |-> Last.used, len |-> n]
<1>1. /\ blocks \in Seq(Block) /\ k \in Nat /\ k > 0 /\ k \in DOMAIN blocks
      /\ DOMAIN blocks = 1 .. k /\ blocks[k] \in Block
      /\ Redzone \in Nat
  BY ArenaConstants DEF AllocFast, FitsLast, IInv, TypeOK
<1>2. /\ Need(n) \in Nat /\ Need(n) % 16 = 0
      /\ n \in Nat /\ n > 0 /\ n + Redzone <= Need(n)
  BY NeedCovers DEF AllocFast
<1>3. /\ blocks[k].used \in Nat /\ blocks[k].cap \in Nat /\ blocks[k].data \in Slabs
      /\ blocks[k].used + Need(n) <= blocks[k].cap
  BY <1>1, <1>2 DEF AllocFast, FitsLast, Last, Block
<1>4. /\ blocks' = [blocks EXCEPT ![k].used = @ + Need(n)]
      /\ live' = live \cup {c} /\ blocks_cap' = blocks_cap /\ heap' = heap
  BY DEF AllocFast
<1> DEFINE d == [blocks[k] EXCEPT !.used = blocks[k].used + Need(n)]
<1>5. /\ blocks'[k].used = blocks[k].used + Need(n)
      /\ blocks'[k].cap = blocks[k].cap /\ blocks'[k].data = blocks[k].data
      /\ \A i \in 1 .. k : i # k => blocks'[i] = blocks[i]
      /\ \A i \in 1 .. k : blocks'[i].data = blocks[i].data
      /\ Len(blocks') = k /\ DOMAIN blocks' = 1 .. k
      /\ blocks' \in Seq(Block)
  <2>1. /\ d \in Block /\ d.used = blocks[k].used + Need(n)
        /\ d.data = blocks[k].data /\ d.cap = blocks[k].cap
    <3>1. blocks[k] \in Block /\ blocks[k].cap <= SizeMax
      BY <1>1, ArenaConstants DEF Block
    <3>2. blocks[k].used + Need(n) \in 0 .. SizeMax
      BY <1>2, <1>3, <3>1, ArenaConstants
    <3> QED BY <3>1, <3>2, WithUsed, Zenon
  <2>2. blocks' = [blocks EXCEPT ![k] = d]
    BY <1>4
  <2> HIDE DEF d
  <2>3. /\ blocks' \in Seq(Block) /\ Len(blocks') = k /\ blocks'[k] = d
        /\ \A i \in 1 .. k : i # k => blocks'[i] = blocks[i]
    BY <1>1, <2>1, <2>2, ReplaceBlock
  <2>4. Len(blocks') = k /\ DOMAIN blocks' = 1 .. k /\ blocks' \in Seq(Block)
    BY <2>3
  <2>5. \A i \in 1 .. k : blocks'[i].data = blocks[i].data
    BY <2>1, <2>3
  <2> HIDE DEF k
  <2> QED BY <2>1, <2>3, <2>4, <2>5
<1>6. c.slab = blocks[k].data /\ c.off = blocks[k].used /\ c.len = n /\ c \in Chunk
  BY <1>2, <1>3 DEF Last, Chunk
<1> HIDE DEF k, c
<1>7. TypeOK'
  BY <1>4, <1>5, <1>6 DEF IInv, TypeOK
<1>8. DescriptorsInBounds' /\ SlabsOwnedOnce'
  BY <1>1, <1>4, <1>5 DEF IInv, DescriptorsInBounds, SlabsOwnedOnce
<1>9. LiveInsideSlab'
  <2>1. \A i \in 1 .. k : blocks'[i].used <= blocks'[i].cap
    BY <1>1, <1>3, <1>5 DEF IInv, LiveInsideSlab
  <2>2. ASSUME NEW q \in live
        PROVE  \E i \in 1 .. k : /\ blocks'[i].data = q.slab
                                 /\ q.off + q.len + Redzone <= blocks'[i].used
    <3>1. PICK i \in 1 .. k : /\ blocks[i].data = q.slab
                              /\ q.off + q.len + Redzone <= blocks[i].used
      BY <1>1 DEF IInv, LiveInsideSlab
    <3>2. blocks[i] \in Block /\ q \in Chunk
      BY <1>1 DEF IInv, TypeOK
    <3>3. blocks[i].used \in Nat /\ q.off \in Nat /\ q.len \in Nat
      BY <3>2, BlockFields, ChunkFields
    <3>4. blocks[i].used <= blocks'[i].used /\ blocks'[i].used \in Nat
      BY <1>2, <1>3, <1>5, <3>3
    <3>5. q.off + q.len + Redzone <= blocks'[i].used
      BY <1>1, <3>1, <3>3, <3>4
    <3> QED BY <1>5, <3>1, <3>5
  <2>3. \E i \in 1 .. k : /\ blocks'[i].data = c.slab
                          /\ c.off + c.len + Redzone <= blocks'[i].used
    <3>1. c.off + c.len + Redzone <= blocks'[k].used
      BY <1>1, <1>2, <1>3, <1>5, <1>6
    <3> QED BY <1>1, <1>5, <1>6, <3>1
  <2> QED BY <1>4, <1>5, <2>1, <2>2, <2>3 DEF LiveInsideSlab
<1>10. LiveApart'
  <2>1. ASSUME NEW q \in live, q.slab = c.slab
        PROVE  q.off + q.len + Redzone <= c.off
    <3>1. PICK i \in 1 .. k : /\ blocks[i].data = q.slab
                              /\ q.off + q.len + Redzone <= blocks[i].used
      BY <1>1 DEF IInv, LiveInsideSlab
    <3>2. i = k
      BY <1>1, <1>6, <2>1, <3>1 DEF IInv, SlabsOwnedOnce
    <3> QED BY <1>6, <3>1, <3>2
  <2> QED BY <1>4, <2>1 DEF IInv, LiveApart, ArenaRegion!Apart, ArenaRegion!Before
<1>11. CursorsAligned'
  <2>1. blocks[k].used % 16 = 0
    BY <1>1 DEF IInv, CursorsAligned
  <2>2. blocks'[k].used % 16 = 0
    BY <1>2, <1>3, <1>5, <2>1, AlignedSum
  <2> QED BY <1>1, <1>5, <2>2 DEF IInv, CursorsAligned
<1> QED BY <1>7, <1>8, <1>9, <1>10, <1>11 DEF IInv

(***************************************************************************)
(* A new slab is fresh, so its first chunk shares it with no other.        *)
(***************************************************************************)
LEMMA SlabStep ==
  ASSUME NoChargeWrap, IInv, NEW n \in Sizes, AllocSlab(n)
  PROVE  IInv'
<1> DEFINE k == Len(blocks)
<1>1. /\ blocks \in Seq(Block) /\ k \in Nat /\ DOMAIN blocks = 1 .. k
      /\ Redzone \in Nat /\ blocks_cap \in Nat
  BY ArenaConstants DEF IInv, TypeOK
<1>2. /\ Need(n) \in Nat /\ Need(n) % 16 = 0
      /\ n \in Nat /\ n > 0 /\ n + Redzone <= Need(n) /\ Need(n) <= SizeMax
  BY NeedCovers DEF AllocSlab
<1>3. PICK s \in Slabs \ heap :
        /\ heap' = heap \cup {s}
        /\ blocks' = Append(blocks,
                       [data |-> s, used |-> Need(n),
                        cap |-> IF Need(n) > BlockSize THEN Need(n) ELSE BlockSize])
        /\ live' = live \cup {[slab |-> s, off |-> 0, len |-> n]}
  BY DEF AllocSlab
<1> DEFINE b == [data |-> s, used |-> Need(n),
                 cap |-> IF Need(n) > BlockSize THEN Need(n) ELSE BlockSize]
           c == [slab |-> s, off |-> 0, len |-> n]
<1>4. b \in Block /\ b.data = s /\ b.used = Need(n) /\ b.used <= b.cap /\ b.cap \in Nat
  BY <1>2, <1>3, BlockSizeType, ArenaConstants DEF Block
<1>5. /\ blocks' \in Seq(Block) /\ Len(blocks') = k + 1
      /\ DOMAIN blocks' = 1 .. (k + 1) /\ blocks'[k + 1] = b
      /\ \A i \in 1 .. k : blocks'[i] = blocks[i]
  BY <1>1, <1>3, <1>4
<1>6. c.slab = s /\ c.off = 0 /\ c.len = n /\ c \in Chunk
  BY <1>2, <1>3 DEF Chunk
<1>7. blocks_cap' \in Nat /\ k + 1 <= blocks_cap'
  <2>1. ReserveSlot(TRUE, blocks_cap')
    BY DEF AllocSlab
  <2>2. CASE k < blocks_cap
    BY <1>1, <2>1, <2>2 DEF ReserveSlot
  <2>3. CASE k >= blocks_cap
    <3>1. k = blocks_cap
      <4>1. k <= blocks_cap
        BY DEF IInv, DescriptorsInBounds
      <4> HIDE DEF k
      <4> QED BY <1>1, <2>3, <4>1
    <3>2. blocks_cap' = NewCap
      BY <1>1, <2>1, <2>3 DEF ReserveSlot
    <3>3. NewCap \in Nat /\ NewCap >= blocks_cap + 1
      BY <1>1, ArenaConstants DEF NewCap
    <3> QED BY <3>1, <3>2, <3>3
  <2> QED BY <1>1, <2>2, <2>3
<1>8. TypeOK'
  BY <1>3, <1>5, <1>6, <1>7 DEF IInv, TypeOK
<1>9. DescriptorsInBounds'
  BY <1>5, <1>7 DEF DescriptorsInBounds
<1>10. SlabsOwnedOnce'
  <2>1. \A i \in 1 .. k : blocks[i].data \in heap
    BY <1>1 DEF IInv, SlabsOwnedOnce
  <2>2. \A i \in 1 .. k : blocks'[i].data = blocks[i].data
    BY <1>5
  <2>3. blocks'[k + 1].data = s
    BY <1>4, <1>5
  <2>4. \A i \in 1 .. (k + 1) : i \in 1 .. k \/ i = k + 1
    BY <1>1
  <2>5. heap' = {blocks'[i].data : i \in 1 .. (k + 1)}
    <3>1. heap = {blocks[i].data : i \in 1 .. k}
      BY <1>1 DEF IInv, SlabsOwnedOnce
    <3>2. 1 .. k \subseteq 1 .. (k + 1) /\ k + 1 \in 1 .. (k + 1)
      BY <1>1
    <3> QED BY <1>3, <2>2, <2>3, <2>4, <3>1, <3>2
  <2>6. \A i, j \in 1 .. (k + 1) : blocks'[i].data = blocks'[j].data => i = j
    BY <1>1, <1>3, <2>1, <2>2, <2>3, <2>4 DEF IInv, SlabsOwnedOnce
  <2> QED BY <1>5, <2>5, <2>6 DEF SlabsOwnedOnce
<1>11. LiveInsideSlab'
  <2>1. \A i \in 1 .. (k + 1) : blocks'[i].used <= blocks'[i].cap
    BY <1>1, <1>4, <1>5 DEF IInv, LiveInsideSlab
  <2>2. ASSUME NEW q \in live
        PROVE  \E i \in 1 .. (k + 1) : /\ blocks'[i].data = q.slab
                                       /\ q.off + q.len + Redzone <= blocks'[i].used
    <3>1. PICK i \in 1 .. k : /\ blocks[i].data = q.slab
                              /\ q.off + q.len + Redzone <= blocks[i].used
      BY <1>1 DEF IInv, LiveInsideSlab
    <3> QED BY <1>1, <1>5, <3>1
  <2>3. \E i \in 1 .. (k + 1) : /\ blocks'[i].data = c.slab
                                /\ c.off + c.len + Redzone <= blocks'[i].used
    BY <1>1, <1>2, <1>4, <1>5, <1>6
  <2> QED BY <1>3, <1>5, <2>1, <2>2, <2>3 DEF LiveInsideSlab
<1>12. LiveApart'
  <2>1. \A q \in live : q.slab # s
    BY <1>1, <1>3 DEF IInv, LiveInsideSlab, SlabsOwnedOnce
  <2> QED BY <1>3, <1>6, <2>1 DEF IInv, LiveApart, ArenaRegion!Apart, ArenaRegion!Before
<1>13. CursorsAligned'
  BY <1>1, <1>2, <1>4, <1>5 DEF IInv, CursorsAligned
<1> QED BY <1>8, <1>9, <1>10, <1>11, <1>12, <1>13 DEF IInv

(***************************************************************************)
(* A failed allocation may grow the descriptor array and nothing else.     *)
(***************************************************************************)
LEMMA FailStep ==
  ASSUME IInv, NEW n \in Sizes, AllocNoSlot(n) \/ AllocNoSlab(n)
  PROVE  IInv'
<1>1. UNCHANGED <<blocks, heap, live>>
  BY DEF AllocNoSlot, AllocNoSlab
<1>2. blocks_cap' \in Nat /\ Len(blocks) <= blocks_cap'
  <2>1. blocks_cap \in Nat /\ Len(blocks) \in Nat /\ Len(blocks) <= blocks_cap
    BY DEF IInv, TypeOK, DescriptorsInBounds
  <2>2. NewCap \in Nat /\ NewCap >= blocks_cap
    BY <2>1, ArenaConstants DEF NewCap
  <2> QED BY <2>1, <2>2 DEF AllocNoSlot, AllocNoSlab, ReserveSlot
<1> QED BY <1>1, <1>2 DEF IInv, TypeOK, DescriptorsInBounds, SlabsOwnedOnce,
                          LiveInsideSlab, LiveApart, CursorsAligned

(***************************************************************************)
(* Rewinding or freeing ends every chunk and keeps each slab owned once.   *)
(***************************************************************************)
LEMMA ResetStep == IInv /\ Reset => IInv'
<1> SUFFICES ASSUME IInv, Reset PROVE IInv'
  OBVIOUS
<1>1. /\ blocks' = [i \in DOMAIN blocks |-> [blocks[i] EXCEPT !.used = 0]]
      /\ live' = {} /\ heap' = heap /\ blocks_cap' = blocks_cap
  BY DEF Reset
<1>2. blocks \in Seq(Block) /\ DOMAIN blocks = 1 .. Len(blocks) /\ Len(blocks) \in Nat
  BY DEF IInv, TypeOK
<1>3. /\ DOMAIN blocks' = 1 .. Len(blocks)
      /\ \A i \in 1 .. Len(blocks) :
           /\ blocks'[i] \in Block /\ blocks'[i].used = 0
           /\ blocks'[i].cap = blocks[i].cap /\ blocks[i].cap \in Nat
           /\ blocks'[i].data = blocks[i].data
  <2>1. DOMAIN blocks' = 1 .. Len(blocks)
    BY <1>1, <1>2
  <2>2. ASSUME NEW i \in 1 .. Len(blocks)
        PROVE  /\ blocks'[i] \in Block /\ blocks'[i].used = 0
               /\ blocks'[i].cap = blocks[i].cap /\ blocks[i].cap \in Nat
               /\ blocks'[i].data = blocks[i].data
    <3>1. blocks'[i] = [blocks[i] EXCEPT !.used = 0] /\ blocks[i] \in Block
      BY <1>1, <1>2
    <3>2. /\ blocks'[i] \in Block /\ blocks'[i].used = 0
          /\ blocks'[i].cap = blocks[i].cap /\ blocks'[i].data = blocks[i].data
      <4> DEFINE d == [blocks[i] EXCEPT !.used = 0]
      <4>1. d \in Block /\ d.used = 0 /\ d.cap = blocks[i].cap /\ d.data = blocks[i].data
        <5>1. 0 \in 0 .. SizeMax
          BY ArenaConstants
        <5> QED BY <3>1, <5>1, WithUsed, Zenon
      <4>2. blocks'[i] = d
        BY <3>1
      <4> HIDE DEF d
      <4> QED BY <4>1, <4>2
    <3> QED BY <3>1, <3>2, BlockFields
  <2> QED BY <2>1, <2>2
<1>4. blocks' \in Seq(Block) /\ Len(blocks') = Len(blocks)
  BY <1>1, <1>2, <1>3
<1>5. TypeOK' /\ DescriptorsInBounds'
  BY <1>1, <1>4 DEF IInv, TypeOK, DescriptorsInBounds
<1>6. SlabsOwnedOnce'
  BY <1>1, <1>2, <1>3 DEF IInv, SlabsOwnedOnce
<1>7. LiveInsideSlab' /\ LiveApart' /\ CursorsAligned'
  <2>1. \A i \in DOMAIN blocks' : blocks'[i].used <= blocks'[i].cap
    BY <1>3
  <2>4. LiveInsideSlab'
    BY <1>1, <2>1 DEF LiveInsideSlab
  <2>2. LiveApart'
    BY <1>1 DEF LiveApart
  <2>3. CursorsAligned'
    BY <1>3 DEF CursorsAligned
  <2> QED BY <2>2, <2>3, <2>4
<1> QED BY <1>5, <1>6, <1>7 DEF IInv

(***************************************************************************)
(* dtl_arena_free leaves an arena as dtl_arena_init made it.               *)
(***************************************************************************)
LEMMA FreeStep == IInv /\ Free => IInv'
BY DEF IInv, Free, TypeOK, DescriptorsInBounds, SlabsOwnedOnce,
       LiveInsideSlab, LiveApart, CursorsAligned

(***************************************************************************)
(* Every step of the arena keeps the invariant.                            *)
(***************************************************************************)
LEMMA NextIInv == NoChargeWrap /\ IInv /\ [Next]_vars => IInv'
<1> SUFFICES ASSUME NoChargeWrap, IInv, [Next]_vars PROVE IInv'
  OBVIOUS
<1>1. CASE UNCHANGED vars
  BY <1>1 DEF vars, IInv, TypeOK, DescriptorsInBounds, SlabsOwnedOnce,
              LiveInsideSlab, LiveApart, CursorsAligned
<1>2. ASSUME NEW n \in Sizes, Alloc(n) PROVE IInv'
  BY <1>1, <1>2, FastStep, SlabStep, FailStep DEF Alloc, AllocRefused
<1>3. CASE Reset
  BY <1>3, ResetStep
<1>4. CASE Free
  BY <1>4, FreeStep
<1> QED BY <1>1, <1>2, <1>3, <1>4 DEF Next

-----------------------------------------------------------------------------

(***************************************************************************)
(* dtl_arena keeps its representation sound: types, the descriptor array   *)
(* large enough, and every slab owned exactly once.                        *)
(***************************************************************************)
THEOREM ArenaSound ==
  NoChargeWrap => (Spec => [](TypeOK /\ DescriptorsInBounds /\ SlabsOwnedOnce))
<1> SUFFICES ASSUME NoChargeWrap
             PROVE  Spec => [](TypeOK /\ DescriptorsInBounds /\ SlabsOwnedOnce)
  OBVIOUS
<1>1. IInv /\ [Next]_vars => IInv'
  BY NextIInv
<1>2. IInv => TypeOK /\ DescriptorsInBounds /\ SlabsOwnedOnce
  BY DEF IInv
<1> QED BY InitIInv, <1>1, <1>2, PTL DEF Spec

(***************************************************************************)
(* Every chunk dtl_arena_alloc handed out since the last reset or free     *)
(* lies inside a slab the arena still owns.                                *)
(***************************************************************************)
THEOREM ChunksInsideSlabs == NoChargeWrap => (Spec => []LiveInsideSlab)
<1> SUFFICES ASSUME NoChargeWrap
             PROVE  Spec => [](LiveInsideSlab)
  OBVIOUS
<1>1. IInv /\ [Next]_vars => IInv'
  BY NextIInv
<1>2. IInv => LiveInsideSlab
  BY DEF IInv
<1> QED BY InitIInv, <1>1, <1>2, PTL DEF Spec

(***************************************************************************)
(* No two of those chunks overlap or touch each other's redzone.           *)
(***************************************************************************)
THEOREM ChunksApart == NoChargeWrap => (Spec => []LiveApart)
<1> SUFFICES ASSUME NoChargeWrap
             PROVE  Spec => [](LiveApart)
  OBVIOUS
<1>1. IInv /\ [Next]_vars => IInv'
  BY NextIInv
<1>2. IInv => LiveApart
  BY DEF IInv
<1> QED BY InitIInv, <1>1, <1>2, PTL DEF Spec

-----------------------------------------------------------------------------

(***************************************************************************)
(* The chunk of a successful allocation is a grant of the region.          *)
(***************************************************************************)
LEMMA FastGrants ==
  ASSUME NoChargeWrap, IInv, NEW n \in Sizes, AllocFast(n)
  PROVE  ArenaRegion!Grant
<1> DEFINE k == Len(blocks)
           c == [slab |-> Last.data, off |-> Last.used, len |-> n]
<1>1. k \in DOMAIN blocks /\ DOMAIN blocks = 1 .. k /\ blocks[k] \in Block
  BY DEF AllocFast, FitsLast, IInv, TypeOK
<1>2. live' = live \cup {c} /\ Last = blocks[k]
  BY DEF AllocFast, Last
<1>3. c.slab = blocks[k].data /\ c.off = blocks[k].used /\ c.len = n
  BY <1>2
<1> HIDE DEF k, c
<1>4. c.len > 0
  BY <1>3, NeedCovers DEF AllocFast
<1>5. c.off % DTL_ARENA_ALIGN = 0
  BY <1>1, <1>3 DEF IInv, CursorsAligned, DTL_ARENA_ALIGN
<1>6. ASSUME NEW q \in live PROVE ArenaRegion!Apart(c, q)
  <2>1. PICK i \in DOMAIN blocks : /\ blocks[i].data = q.slab
                                   /\ q.off + q.len + Redzone <= blocks[i].used
    BY DEF IInv, LiveInsideSlab
  <2>2. q.slab = c.slab => i = k
    BY <1>1, <1>3, <2>1 DEF IInv, SlabsOwnedOnce
  <2> QED BY <1>3, <2>1, <2>2 DEF ArenaRegion!Apart, ArenaRegion!Before
<1>7. c \in live'
  BY <1>2
<1> QED BY <1>2, <1>4, <1>5, <1>6, <1>7 DEF ArenaRegion!Grant

(***************************************************************************)
(* The first chunk of a fresh slab is a grant of the region.               *)
(***************************************************************************)
LEMMA SlabGrants ==
  ASSUME NoChargeWrap, IInv, NEW n \in Sizes, AllocSlab(n)
  PROVE  ArenaRegion!Grant
<1>1. PICK s \in Slabs \ heap : live' = live \cup {[slab |-> s, off |-> 0, len |-> n]}
  BY DEF AllocSlab
<1> DEFINE c == [slab |-> s, off |-> 0, len |-> n]
<1>2. live' = live \cup {c} /\ c.slab = s /\ c.off = 0 /\ c.len = n
  BY <1>1
<1> HIDE DEF c
<1>3. c.len > 0
  BY <1>2, NeedCovers DEF AllocSlab
<1>4. c.off % DTL_ARENA_ALIGN = 0
  BY <1>2 DEF DTL_ARENA_ALIGN
<1>5. \A q \in live : q.slab # s
  BY <1>1 DEF IInv, LiveInsideSlab, SlabsOwnedOnce
<1>6. \A q \in live : ArenaRegion!Apart(c, q)
  BY <1>2, <1>5 DEF ArenaRegion!Apart
<1>7. c \in live'
  BY <1>2
<1> QED BY <1>2, <1>3, <1>4, <1>6, <1>7 DEF ArenaRegion!Grant

(***************************************************************************)
(* dtl_arena is a region allocator: every chunk it hands out is aligned    *)
(* and apart from the live ones, and chunks only ever die all together.    *)
(***************************************************************************)
THEOREM ArenaIsRegion == NoChargeWrap => (Spec => ImplementsRegion)
<1> SUFFICES ASSUME NoChargeWrap PROVE Spec => ImplementsRegion
  OBVIOUS
<1>1. Init => ArenaRegion!Init
  BY DEF Init, ArenaRegion!Init
<1>2. IInv /\ [Next]_vars => [ArenaRegion!Next]_live
  <2> SUFFICES ASSUME IInv, [Next]_vars PROVE [ArenaRegion!Next]_live
    OBVIOUS
  <2>1. ASSUME NEW n \in Sizes, Alloc(n) PROVE [ArenaRegion!Next]_live
    <3>1. CASE AllocFast(n)
      BY <3>1, FastGrants DEF ArenaRegion!Next
    <3>2. CASE AllocSlab(n)
      BY <3>2, SlabGrants DEF ArenaRegion!Next
    <3>3. CASE AllocRefused(n) \/ AllocNoSlot(n) \/ AllocNoSlab(n)
      BY <3>3 DEF AllocRefused, AllocNoSlot, AllocNoSlab, vars
    <3> QED BY <2>1, <3>1, <3>2, <3>3 DEF Alloc
  <2>2. CASE Reset \/ Free
    BY <2>2 DEF Reset, Free, ArenaRegion!Next, ArenaRegion!ReleaseAll
  <2>3. CASE UNCHANGED vars
    BY <2>3 DEF vars
  <2> QED BY <2>1, <2>2, <2>3 DEF Next
<1>3. IInv /\ [Next]_vars => IInv'
  BY NextIInv
<1> QED BY InitIInv, <1>1, <1>2, <1>3, PTL
        DEF Spec, ImplementsRegion, ArenaRegion!Spec
=============================================================================
