------------------------------- MODULE Arena --------------------------------
(***************************************************************************)
(* core/arena: the growable bump allocator every parsed record, decoded    *)
(* section and output buffer of the toolkit comes from.                    *)
(*                                                                         *)
(* The state is the dtl_arena struct: the sequence of block descriptors    *)
(* (a->blocks with a->nblocks entries) and the capacity of the descriptor  *)
(* array.  Two history variables say what C leaves implicit: heap, the     *)
(* slabs malloc returned and free has not taken back, and live, the chunks *)
(* the callers were handed since the last reset or free.  malloc and       *)
(* realloc may fail at every call.                                         *)
(***************************************************************************)
EXTENDS Integers, Sequences

CONSTANTS Slabs,         \* identities malloc can give to a slab
          BlockSizeArg,  \* the block_size passed to dtl_arena_init
          DefaultBlock,  \* DTL_ARENA_DEFAULT_BLOCK
          MinBlocks,     \* DTL_ARENA_MIN_BLOCKS
          DescSize,      \* sizeof(dtl_arena_block)
          Redzone,       \* DTL_ARENA_REDZONE in an ASan build, else 0
          SizeMax,       \* SIZE_MAX
          Sizes          \* the request sizes callers use

DTL_ARENA_ALIGN == 16

ASSUME ArenaConstants ==
  /\ BlockSizeArg \in Nat /\ DefaultBlock \in Nat \ {0}
  /\ MinBlocks \in Nat \ {0} /\ DescSize \in Nat \ {0}
  /\ Redzone \in {0, 16}
  /\ SizeMax \in Nat /\ SizeMax >= 15 /\ SizeMax % 16 = 15
  /\ BlockSizeArg <= SizeMax /\ DefaultBlock <= SizeMax
  /\ Sizes \subseteq 0 .. SizeMax

VARIABLES blocks,      \* a->blocks[0 .. a->nblocks - 1]
          blocks_cap,  \* a->blocks_cap
          heap,        \* slabs malloc'd and not yet freed
          live         \* chunks handed out since the last reset or free

vars == <<blocks, blocks_cap, heap, live>>

-----------------------------------------------------------------------------

BlockSize == IF BlockSizeArg # 0 THEN BlockSizeArg ELSE DefaultBlock

MutAlignUp(n) == IF n > SizeMax - (DTL_ARENA_ALIGN - 1) THEN 0
                 ELSE n - (n % DTL_ARENA_ALIGN)

(***************************************************************************)
(* dtl_arena_align_up: 0 stands for a request that cannot be rounded.      *)
(***************************************************************************)
AlignUp(n) ==
  IF n > SizeMax - (DTL_ARENA_ALIGN - 1) THEN 0
  ELSE IF n % DTL_ARENA_ALIGN # 0
       THEN n + (DTL_ARENA_ALIGN - (n % DTL_ARENA_ALIGN))
       ELSE n

(***************************************************************************)
(* The bytes dtl_arena_alloc charges for a request, in size_t arithmetic:  *)
(* the redzone of an ASan build is added after the overflow check.         *)
(***************************************************************************)
Need(n) == (AlignUp(n) + Redzone) % (SizeMax + 1)

Accepted(n) == n # 0 /\ AlignUp(n) # 0

Last == blocks[Len(blocks)]

MutFits(n) == blocks # <<>> /\ Last.cap >= Need(n)

(***************************************************************************)
(* The fast path: only the last block is looked at.                        *)
(***************************************************************************)
FitsLast(n) == blocks # <<>> /\ Last.cap - Last.used >= Need(n)

NewCap == IF blocks_cap # 0 THEN blocks_cap * 2 ELSE MinBlocks

(***************************************************************************)
(* dtl_arena_reserve_slot: whether it succeeds, and the capacity of the    *)
(* descriptor array after it.  realloc may fail whenever it is called.     *)
(***************************************************************************)
ReserveSlot(ok, cap) ==
  \/ Len(blocks) < blocks_cap /\ ok /\ cap = blocks_cap
  \/ /\ Len(blocks) >= blocks_cap
     /\ NewCap <= SizeMax \div DescSize
     /\ ok /\ cap = NewCap
  \/ Len(blocks) >= blocks_cap /\ ~ok /\ cap = blocks_cap

-----------------------------------------------------------------------------

(***************************************************************************)
(* dtl_arena_init.                                                         *)
(***************************************************************************)
Init == blocks = <<>> /\ blocks_cap = 0 /\ heap = {} /\ live = {}

(***************************************************************************)
(* dtl_arena_alloc(n), one action per way out.  A request of 0 bytes, or   *)
(* one that cannot be aligned, returns NULL before anything is touched.    *)
(***************************************************************************)
AllocRefused(n) == ~Accepted(n) /\ UNCHANGED vars

AllocFast(n) ==
  /\ Accepted(n) /\ FitsLast(n)
  /\ blocks' = [blocks EXCEPT ![Len(blocks)].used = @ + Need(n)]
  /\ live' = live \cup {[slab |-> Last.data, off |-> Last.used, len |-> n]}
  /\ UNCHANGED <<blocks_cap, heap>>

AllocSlab(n) ==
  /\ Accepted(n) /\ ~FitsLast(n)
  /\ ReserveSlot(TRUE, blocks_cap')
  /\ \E s \in Slabs \ heap :
       /\ heap' = heap \cup {s}
       /\ blocks' = Append(blocks,
                      [data |-> s, used |-> Need(n),
                       cap |-> IF Need(n) > BlockSize THEN Need(n) ELSE BlockSize])
       /\ live' = live \cup {[slab |-> s, off |-> 0, len |-> n]}

AllocNoSlot(n) ==
  /\ Accepted(n) /\ ~FitsLast(n)
  /\ ReserveSlot(FALSE, blocks_cap')
  /\ UNCHANGED <<blocks, heap, live>>

MutAllocNoSlab(n) ==
  /\ Accepted(n) /\ ~FitsLast(n)
  /\ \/ ReserveSlot(TRUE, blocks_cap') /\ UNCHANGED heap
     \/ /\ ReserveSlot(FALSE, blocks_cap')
        /\ \E s \in Slabs \ heap : heap' = heap \cup {s}
  /\ UNCHANGED <<blocks, live>>

(***************************************************************************)
(* malloc fails after the descriptor array has already grown.              *)
(***************************************************************************)
AllocNoSlab(n) ==
  /\ Accepted(n) /\ ~FitsLast(n)
  /\ ReserveSlot(TRUE, blocks_cap')
  /\ UNCHANGED <<blocks, heap, live>>

Alloc(n) == \/ AllocRefused(n) \/ AllocFast(n) \/ AllocSlab(n)
            \/ AllocNoSlot(n) \/ AllocNoSlab(n)

(***************************************************************************)
(* dtl_arena_reset rewinds every block and keeps it.                       *)
(***************************************************************************)
Reset ==
  /\ blocks' = [i \in DOMAIN blocks |-> [blocks[i] EXCEPT !.used = 0]]
  /\ live' = {}
  /\ UNCHANGED <<blocks_cap, heap>>

(***************************************************************************)
(* dtl_arena_free gives every slab and the descriptor array back.          *)
(***************************************************************************)
Free ==
  /\ blocks' = <<>> /\ blocks_cap' = 0
  /\ heap' = heap \ {blocks[i].data : i \in DOMAIN blocks}
  /\ live' = {}

Next == (\E n \in Sizes : Alloc(n)) \/ Reset \/ Free

Spec == Init /\ [][Next]_vars

-----------------------------------------------------------------------------

Block == [data : Slabs, cap : 0 .. SizeMax, used : 0 .. SizeMax]
Chunk == [slab : Slabs, off : Nat, len : Nat]

(***************************************************************************)
(* Every variable has its type.                                            *)
(***************************************************************************)
TypeOK == /\ blocks \in Seq(Block) /\ blocks_cap \in Nat
          /\ heap \in SUBSET Slabs /\ live \in SUBSET Chunk

(***************************************************************************)
(* The write of the new descriptor at a->blocks[a->nblocks] stays inside   *)
(* the array realloc sized, also after a malloc failure that left the      *)
(* array grown and after a free that dropped it.                           *)
(***************************************************************************)
DescriptorsInBounds == Len(blocks) <= blocks_cap

(***************************************************************************)
(* The descriptors hold every slab that was malloc'd and not freed, each   *)
(* once: dtl_arena_free leaks nothing and frees nothing twice, whichever   *)
(* allocation failed before it.                                            *)
(***************************************************************************)
SlabsOwnedOnce ==
  /\ heap = {blocks[i].data : i \in DOMAIN blocks}
  /\ \A i, j \in DOMAIN blocks : blocks[i].data = blocks[j].data => i = j

(***************************************************************************)
(* Every chunk a caller still holds lies, with its redzone, inside the     *)
(* handed-out prefix of an existing slab, and that prefix lies inside the  *)
(* slab.                                                                   *)
(***************************************************************************)
LiveInsideSlab ==
  /\ \A i \in DOMAIN blocks : blocks[i].used <= blocks[i].cap
  /\ \A c \in live : \E i \in DOMAIN blocks :
       blocks[i].data = c.slab /\ c.off + c.len + Redzone <= blocks[i].used

ArenaRegion == INSTANCE Region WITH Gap <- Redzone, Align <- DTL_ARENA_ALIGN

(***************************************************************************)
(* No two chunks handed out since the last reset overlap, and in an ASan   *)
(* build a redzone lies between any two.                                   *)
(***************************************************************************)
LiveApart == \A p, q \in live : p # q => ArenaRegion!Apart(p, q)

(***************************************************************************)
(* The arena is a region allocator: each successful dtl_arena_alloc grants *)
(* one aligned chunk apart from every other live one, and only             *)
(* dtl_arena_reset and dtl_arena_free end a chunk's life, all at once.     *)
(***************************************************************************)
ImplementsRegion == ArenaRegion!Spec
=============================================================================
