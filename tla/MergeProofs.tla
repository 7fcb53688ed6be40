----------------------------- MODULE MergeProofs -----------------------------
(***************************************************************************)
(* Proofs about merge and split: every array is freed exactly once, and    *)
(* the output is the input regrouped by tag unless merge grows an array in *)
(* the middle of a run.                                                    *)
(***************************************************************************)
EXTENDS Merge, DataLemmas, FiniteSetTheorems

Holdings == UNION {[D -> Nat] : D \in SUBSET Nat}

Block == [freed : Nat, slots : Holdings]

MergeType ==
  /\ tool \in {"merge", "split"} /\ pc \in {"absorb", "release", "done"}
  /\ blocks \in Seq(Block)
  /\ by_tag \in [Tags -> Nat \union {NoBlock}]
  /\ count \in [Tags -> Nat] /\ cap \in [Tags -> Nat]
  /\ recent_base \in Nat \union {NoBlock}
  /\ arrived \in Seq(Tags)

(***************************************************************************)
(* Each array with room has a block of its own.                            *)
(***************************************************************************)
Owning(bs, bt, c, n) ==
  /\ \A t \in Tags : n[t] <= c[t] /\ (c[t] # 0 => n[t] # 0)
  /\ \A t \in Tags : IF c[t] = 0 THEN bt[t] = NoBlock ELSE bt[t] \in 1 .. Len(bs)
  /\ \A t, u \in Tags : bt[t] = bt[u] /\ c[t] # 0 => t = u

(***************************************************************************)
(* Blocks in use were never freed; merge freed each of the others once,    *)
(* split none of them yet.                                                 *)
(***************************************************************************)
InUse(b, bt) == \E t \in Tags : bt[t] = b

Counted(bs, bt, s) ==
  \A b \in 1 .. Len(bs) : bs[b].freed = IF s = "split" \/ InUse(b, bt) THEN 0 ELSE 1

(***************************************************************************)
(* The inductive invariant of FreedOnce.                                   *)
(***************************************************************************)
HeapInv ==
  /\ MergeType
  /\ Owning(blocks, by_tag, cap, count)
  /\ recent_base # NoBlock => recent_base \in 1 .. Len(blocks)
  /\ pc # "done" => Counted(blocks, by_tag, tool)
  /\ pc = "done" => \A b \in 1 .. Len(blocks) : blocks[b].freed = 1

(***************************************************************************)
(* Freeing a block and writing to it make blocks of blocks.                *)
(***************************************************************************)
LEMMA BlockOps ==
  ASSUME NEW b \in Block
  PROVE  /\ \A n \in Nat : Freed(b, n) \in Block /\ Freed(b, n).freed = b.freed + n
         /\ \A n \in Nat : Freed(b, n).slots = b.slots
         /\ \A at, r \in Nat : Written(b, at, r) \in Block /\ Written(b, at, r).freed = b.freed
         /\ \A D : D \subseteq DOMAIN b.slots => Restrict(b.slots, D) \in Holdings
         /\ b.freed \in Nat
<1>1. b.freed \in Nat /\ b.slots \in Holdings
  BY DEF Block
<1>2. PICK D \in SUBSET Nat : b.slots \in [D -> Nat]
  BY <1>1 DEF Holdings
<1>3. ASSUME NEW n \in Nat
      PROVE Freed(b, n) \in Block /\ Freed(b, n).freed = b.freed + n /\ Freed(b, n).slots = b.slots
  <2>1. PICK m \in Nat : m = b.freed + n
    BY <1>1
  <2>2. PICK s \in Holdings : s = b.slots
    BY <1>1
  <2> QED BY <2>1, <2>2 DEF Freed, Block
<1>4. ASSUME NEW at \in Nat, NEW r \in Nat
      PROVE Written(b, at, r) \in Block /\ Written(b, at, r).freed = b.freed
  <2> DEFINE s == [k \in DOMAIN b.slots \union {at} |-> IF k = at THEN r ELSE b.slots[k]]
  <2>1. DOMAIN b.slots = D
    BY <1>2
  <2>2. s \in [D \union {at} -> Nat] /\ D \union {at} \in SUBSET Nat
    BY <1>2, <2>1
  <2>3. s \in Holdings
    BY <2>2 DEF Holdings
  <2>4. Written(b, at, r) = [freed |-> b.freed, slots |-> s]
    BY DEF Written
  <2> HIDE DEF s
  <2> QED BY <1>1, <2>3, <2>4 DEF Block
<1>5. ASSUME NEW E, E \subseteq DOMAIN b.slots PROVE Restrict(b.slots, E) \in Holdings
  <2>1. Restrict(b.slots, E) = [x \in E |-> b.slots[x]]
    BY DEF Restrict
  <2>2. E \in SUBSET Nat /\ [x \in E |-> b.slots[x]] \in [E -> Nat]
    BY <1>2, <1>5
  <2> QED BY <2>1, <2>2 DEF Holdings
<1> QED BY <1>1, <1>3, <1>4, <1>5

(***************************************************************************)
(* The blocks once there is room: the same blocks with the same contents,  *)
(* and after growth one more that starts with the copied records.          *)
(***************************************************************************)
LEMMA RoomyBlocks ==
  ASSUME HeapInv, pc = "absorb", NEW t \in Tags
  PROVE  /\ Roomy(t) \in Seq(Block)
         /\ Len(Roomy(t)) = IF Full(t) THEN Len(blocks) + 1 ELSE Len(blocks)
         /\ ArrayOf(t) \in 1 .. Len(Roomy(t)) /\ Base(t) \in 1 .. Len(Roomy(t))
         /\ \A b \in 1 .. Len(blocks) : Roomy(t)[b].slots = blocks[b].slots
         /\ Full(t) => Roomy(t)[Len(blocks) + 1] = [freed |-> 0, slots |-> Copied(t)]
         /\ Counted(Roomy(t), [by_tag EXCEPT ![t] = ArrayOf(t)], tool)
<1> DEFINE m == Len(blocks)
           bt == [by_tag EXCEPT ![t] = ArrayOf(t)]
<1>1. /\ blocks \in Seq(Block) /\ m \in Nat /\ tool \in {"merge", "split"}
      /\ by_tag \in [Tags -> Nat \union {NoBlock}]
      /\ count[t] \in Nat /\ cap[t] \in Nat /\ \A b \in 1 .. m : blocks[b] \in Block
  BY DEF HeapInv, MergeType
<1>2. /\ Counted(blocks, by_tag, tool) /\ Owning(blocks, by_tag, cap, count)
      /\ recent_base # NoBlock => recent_base \in 1 .. m
  BY DEF HeapInv
<1>3. /\ count[t] <= cap[t] /\ (cap[t] # 0 => by_tag[t] \in 1 .. m)
      /\ (cap[t] = 0 => by_tag[t] = NoBlock /\ count[t] = 0)
      /\ \A u \in Tags : by_tag[u] = by_tag[t] /\ by_tag[t] # NoBlock => u = t
  BY <1>1, <1>2 DEF Owning
<1>4. bt[t] = ArrayOf(t) /\ \A u \in Tags : u # t => bt[u] = by_tag[u]
  BY <1>1
<1> HIDE DEF bt
<1>5. CASE ~Full(t)
  <2>1. Roomy(t) = blocks /\ ArrayOf(t) = by_tag[t]
    BY <1>5 DEF Roomy, ArrayOf
  <2>2. cap[t] # 0
    BY <1>3, <1>5 DEF Full
  <2>3. Base(t) \in 1 .. m
    BY <1>2, <1>3, <2>1, <2>2 DEF Base
  <2>4. \A u \in Tags : bt[u] = by_tag[u]
    BY <1>4, <2>1
  <2>5. Counted(blocks, bt, tool)
    BY <1>2, <2>4 DEF Counted, InUse
  <2> QED BY <1>1, <1>3, <1>5, <2>1, <2>2, <2>3, <2>5 DEF bt
<1>6. CASE Full(t)
  <2>1. Copied(t) \in Holdings
    <3>1. CASE count[t] = 0
      <4>1. Nothing \in [{} -> Nat]
        BY DEF Nothing
      <4> QED BY <3>1, <4>1 DEF Copied, Holdings
    <3>2. CASE count[t] # 0
      <4>1. by_tag[t] \in 1 .. m
        BY <1>1, <1>3, <3>2
      <4>2. blocks[by_tag[t]] \in Block
        BY <1>1, <4>1
      <4> QED BY <3>2, <4>2, BlockOps DEF Copied
    <3> QED BY <3>1, <3>2
  <2>2. PICK x \in Block : x = [freed |-> 0, slots |-> Copied(t)] /\ x.freed = 0
    <3>1. PICK c \in Holdings : c = Copied(t)
      BY <2>1
    <3>2. [freed |-> 0, slots |-> c] \in Block
      BY DEF Block
    <3> QED BY <3>1, <3>2
  <2>3. PICK og \in Seq(Block) : og = Outgrown(t) /\ Len(og) = m
          /\ (\A b \in 1 .. m : og[b].slots = blocks[b].slots)
          /\ (\A b \in 1 .. m : b # by_tag[t] \/ tool = "split" => og[b] = blocks[b])
          /\ (tool = "merge" /\ by_tag[t] # NoBlock => og[by_tag[t]].freed = blocks[by_tag[t]].freed + 1)
    <3>1. CASE tool = "merge" /\ by_tag[t] # NoBlock
      <4>1. by_tag[t] \in 1 .. m
        BY <1>3, <3>1
      <4>2. PICK y \in Block : y = Freed(blocks[by_tag[t]], 1)
              /\ y.freed = blocks[by_tag[t]].freed + 1 /\ y.slots = blocks[by_tag[t]].slots
        <5>1. PICK z \in Block : z = blocks[by_tag[t]]
          BY <1>1, <4>1
        <5>2. Freed(z, 1) \in Block /\ Freed(z, 1).freed = z.freed + 1 /\ Freed(z, 1).slots = z.slots
          BY BlockOps
        <5> QED BY <5>1, <5>2
      <4>3. Outgrown(t) = [blocks EXCEPT ![by_tag[t]] = y]
        BY <3>1, <4>2 DEF Outgrown
      <4>4. PICK og \in Seq(Block) : og = [blocks EXCEPT ![by_tag[t]] = y]
        <5>1. PICK i \in 1 .. Len(blocks) : i = by_tag[t]
          BY <4>1
        <5>2. [blocks EXCEPT ![i] = y] \in Seq(Block)
          BY <1>1, ExceptSeq
        <5> QED BY <5>1, <5>2
      <4>5. Len(og) = m /\ og[by_tag[t]] = y /\ \A b \in 1 .. m : b # by_tag[t] => og[b] = blocks[b]
        BY <1>1, <4>1, <4>4
      <4> QED BY <3>1, <4>2, <4>3, <4>4, <4>5
    <3>2. CASE ~(tool = "merge" /\ by_tag[t] # NoBlock)
      <4>1. Outgrown(t) = blocks
        BY <3>2 DEF Outgrown
      <4> QED BY <1>1, <3>2, <4>1
    <3> QED BY <3>1, <3>2
  <2>4. PICK r \in Seq(Block) : r = Append(og, x) /\ Len(r) = m + 1 /\ r[m + 1] = x
          /\ \A b \in 1 .. m : r[b] = og[b]
    <3>1. /\ Append(og, x) \in Seq(Block) /\ Len(Append(og, x)) = m + 1
          /\ Append(og, x)[m + 1] = x /\ \A b \in 1 .. m : Append(og, x)[b] = og[b]
      BY <2>3, AppendProperties
    <3> HIDE DEF m
    <3> QED BY <3>1
  <2>5. Roomy(t) = r
    BY <1>6, <2>2, <2>3, <2>4 DEF Roomy
  <2>6. ArrayOf(t) = m + 1 /\ m + 1 \in 1 .. m + 1
    BY <1>1, <1>6 DEF ArrayOf
  <2>7. Base(t) \in 1 .. m + 1
    BY <1>1, <1>2, <2>6 DEF Base
  <2>8. Counted(r, bt, tool)
    <3> SUFFICES ASSUME NEW b \in 1 .. m + 1
                 PROVE  r[b].freed = IF tool = "split" \/ InUse(b, bt) THEN 0 ELSE 1
      BY <2>4 DEF Counted
    <3>1. CASE b = m + 1
      <4>1. InUse(b, bt)
        BY <1>4, <2>6, <3>1 DEF InUse
      <4> QED BY <2>2, <2>4, <3>1, <4>1
    <3>2. CASE b \in 1 .. m /\ b = by_tag[t]
      <4>1. by_tag[t] # NoBlock
        BY <3>2, MergeConstants
      <4>2. InUse(b, by_tag)
        BY <3>2 DEF InUse
      <4>3. blocks[b].freed = 0
        BY <1>2, <3>2, <4>2 DEF Counted
      <4>4. ~InUse(b, bt)
        BY <1>1, <1>3, <1>4, <2>6, <3>2, <4>1 DEF InUse
      <4> QED BY <1>1, <2>3, <2>4, <3>2, <4>1, <4>3, <4>4
    <3>3. CASE b \in 1 .. m /\ b # by_tag[t]
      <4>1. b # m + 1
        BY <1>1, <3>3
      <4>2. InUse(b, bt) <=> InUse(b, by_tag)
        BY <1>4, <2>6, <3>3, <4>1 DEF InUse
      <4>3. blocks[b].freed = IF tool = "split" \/ InUse(b, by_tag) THEN 0 ELSE 1
        BY <1>2, <3>3 DEF Counted
      <4>4. r[b] = blocks[b]
        BY <2>3, <2>4, <3>3
      <4> QED BY <4>2, <4>3, <4>4
    <3> QED BY <1>1, <3>1, <3>2, <3>3
  <2>9. \A b \in 1 .. m : r[b].slots = blocks[b].slots
    BY <2>3, <2>4
  <2> QED BY <1>6, <2>2, <2>4, <2>5, <2>6, <2>7, <2>8, <2>9 DEF bt
<1> QED BY <1>5, <1>6

(***************************************************************************)
(* What a record changes: blocks after the write are those with room, and  *)
(* only the block written to has other contents.                           *)
(***************************************************************************)
LEMMA WrittenBlocks ==
  ASSUME HeapInv, NEW t \in Tags, OnRecord(t)
  PROVE  /\ blocks' \in Seq(Block) /\ Len(blocks') = Len(Roomy(t))
         /\ \A b \in 1 .. Len(Roomy(t)) : blocks'[b].freed = Roomy(t)[b].freed
         /\ \A b \in 1 .. Len(Roomy(t)) : b # Base(t) => blocks'[b] = Roomy(t)[b]
         /\ blocks'[Base(t)] = Written(Roomy(t)[Base(t)], count[t], Len(arrived) + 1)
<1>1. pc = "absorb" /\ count[t] \in Nat /\ Len(arrived) + 1 \in Nat
  BY DEF OnRecord, HeapInv, MergeType
<1>2. PICK r \in Seq(Block) : r = Roomy(t)
  BY <1>1, RoomyBlocks
<1>3. PICK b \in 1 .. Len(r) : b = Base(t)
  BY <1>1, <1>2, RoomyBlocks
<1>4. r[b] \in Block
  OBVIOUS
<1>5. PICK w \in Block : w = Written(r[b], count[t], Len(arrived) + 1) /\ w.freed = r[b].freed
  <2>1. PICK n \in Nat : n = Len(arrived) + 1
    BY <1>1
  <2>2. Written(r[b], count[t], n) \in Block /\ Written(r[b], count[t], n).freed = r[b].freed
    BY <1>1, <1>4, BlockOps, ZenonT(30)
  <2> QED BY <2>1, <2>2
<1>6. blocks' = [r EXCEPT ![b] = w]
  BY <1>2, <1>3, <1>5 DEF OnRecord
<1>7. /\ [r EXCEPT ![b] = w] \in Seq(Block) /\ Len([r EXCEPT ![b] = w]) = Len(r)
      /\ \A j \in 1 .. Len(r) : [r EXCEPT ![b] = w][j] = IF j = b THEN w ELSE r[j]
  BY ExceptSeq
<1>8. \A j \in 1 .. Len(r) : blocks'[j].freed = r[j].freed
  BY <1>5, <1>6, <1>7
<1> QED BY <1>2, <1>3, <1>5, <1>6, <1>7, <1>8

(***************************************************************************)
(* A record keeps every array in a block of its own, never freed.          *)
(***************************************************************************)
LEMMA RecordHeap ==
  ASSUME HeapInv, NEW t \in Tags, OnRecord(t)
  PROVE  HeapInv'
<1> DEFINE m == Len(blocks)
           q == Len(Roomy(t))
<1>1. /\ pc = "absorb" /\ m \in Nat /\ tool \in {"merge", "split"}
      /\ by_tag \in [Tags -> Nat \union {NoBlock}]
      /\ count \in [Tags -> Nat] /\ cap \in [Tags -> Nat]
      /\ recent_base \in Nat \union {NoBlock} /\ arrived \in Seq(Tags)
      /\ Owning(blocks, by_tag, cap, count)
  BY DEF HeapInv, MergeType, OnRecord
<1>2. /\ q = IF Full(t) THEN m + 1 ELSE m
      /\ ArrayOf(t) \in 1 .. q /\ Base(t) \in 1 .. q
      /\ Counted(Roomy(t), [by_tag EXCEPT ![t] = ArrayOf(t)], tool)
  BY <1>1, RoomyBlocks
<1>3. /\ blocks' \in Seq(Block) /\ Len(blocks') = q
      /\ \A b \in 1 .. q : blocks'[b].freed = Roomy(t)[b].freed
  BY WrittenBlocks
<1> DEFINE bt == [by_tag EXCEPT ![t] = ArrayOf(t)]
           n == [count EXCEPT ![t] = @ + 1]
           c == [cap EXCEPT ![t] = IF Full(t) THEN NewCap(t) ELSE @]
<1>4. /\ bt \in [Tags -> Nat \union {NoBlock}] /\ bt[t] = ArrayOf(t)
      /\ \A u \in Tags : u # t => bt[u] = by_tag[u]
  <2>1. ArrayOf(t) \in Nat \union {NoBlock}
    BY <1>1, <1>2
  <2> QED BY <1>1, <2>1
<1>5. n \in [Tags -> Nat] /\ n[t] = count[t] + 1 /\ \A u \in Tags : u # t => n[u] = count[u]
  BY <1>1
<1>6. /\ c \in [Tags -> Nat] /\ c[t] = (IF Full(t) THEN NewCap(t) ELSE cap[t])
      /\ \A u \in Tags : u # t => c[u] = cap[u]
  <2>1. (IF Full(t) THEN NewCap(t) ELSE cap[t]) \in Nat
    BY <1>1, MergeConstants DEF NewCap
  <2> QED BY <1>1, <2>1
<1>7. by_tag' = bt /\ cap' = c /\ count' = n
  BY DEF OnRecord
<1> HIDE DEF bt, n, c
<1>8. arrived' \in Seq(Tags) /\ arrived' # <<>>
  BY SMTT(30), <1>1, AppendProperties DEF OnRecord
<1>9. n[t] <= c[t] /\ c[t] # 0 /\ n[t] # 0
  BY <1>1, <1>5, <1>6, MergeConstants DEF Owning, Full, NewCap
<1>10. Owning(blocks', bt, c, n)
  <2>1. \A u \in Tags : n[u] <= c[u] /\ (c[u] # 0 => n[u] # 0)
    BY <1>1, <1>5, <1>6, <1>9 DEF Owning
  <2>2. ASSUME NEW u \in Tags
        PROVE  IF c[u] = 0 THEN bt[u] = NoBlock ELSE bt[u] \in 1 .. Len(blocks')
    <3>1. CASE u = t
      BY <1>2, <1>3, <1>4, <1>9, <3>1
    <3>2. CASE u # t
      BY <1>1, <1>2, <1>3, <1>4, <1>6, <3>2 DEF Owning
    <3> QED BY <3>1, <3>2
  <2>3. ASSUME NEW u \in Tags, u # t PROVE bt[u] # bt[t]
    <3>1. CASE Full(t)
      <4>1. bt[t] = m + 1
        BY <1>4, <3>1 DEF ArrayOf
      <4>2. by_tag[u] \in 1 .. m \/ by_tag[u] \notin Nat
        BY <1>1, MergeConstants DEF Owning
      <4> QED BY <1>1, <1>4, <2>3, <4>1, <4>2
    <3>2. CASE ~Full(t)
      <4>1. bt[t] = by_tag[t] /\ cap[t] # 0
        BY <1>1, <1>4, <3>2 DEF ArrayOf, Full, Owning
      <4> QED BY <1>1, <1>4, <2>3, <4>1 DEF Owning
    <3> QED BY <3>1, <3>2
  <2>4. ASSUME NEW u \in Tags, NEW v \in Tags, bt[u] = bt[v], c[u] # 0 PROVE u = v
    <3>1. CASE u = t \/ v = t
      BY <2>3, <2>4, <3>1
    <3>2. CASE u # t /\ v # t
      BY <1>1, <1>4, <1>6, <2>4, <3>2 DEF Owning
    <3> QED BY <3>1, <3>2
  <2> QED BY <2>1, <2>2, <2>4 DEF Owning
<1>11. Counted(blocks', bt, tool)
  BY <1>2, <1>3 DEF Counted, bt
<1>12. /\ tool' = tool /\ pc' = "absorb" /\ rc' = rc
       /\ recent_base' \in {recent_base, Base(t)}
  BY DEF OnRecord
<1>13. recent_base' \in Nat \union {NoBlock} /\ (recent_base' # NoBlock => recent_base' \in 1 .. q)
  BY <1>1, <1>2, <1>12 DEF HeapInv
<1>14. MergeType'
  BY <1>1, <1>3, <1>4, <1>5, <1>6, <1>7, <1>8, <1>12, <1>13 DEF MergeType
<1>15. Owning(blocks, by_tag, cap, count)' /\ Counted(blocks, by_tag, tool)'
  BY <1>7, <1>10, <1>11, <1>12
<1> HIDE DEF q
<1> QED
  BY <1>1, <1>3, <1>7, <1>8, <1>12, <1>13, <1>14, <1>15 DEF HeapInv

(***************************************************************************)
(* The release loop frees each array once: the arrays of two tags differ.  *)
(***************************************************************************)
LEMMA ReleaseHeap ==
  ASSUME HeapInv, Release
  PROVE  HeapInv'
<1> DEFINE m == Len(blocks)
           times(b) == IF tool = "split" THEN 1 ELSE Cardinality({t \in ToFree : by_tag[t] = b})
<1>1. /\ blocks \in Seq(Block) /\ m \in Nat /\ tool \in {"merge", "split"} /\ pc = "release"
      /\ Counted(blocks, by_tag, tool) /\ Owning(blocks, by_tag, cap, count)
      /\ by_tag \in [Tags -> Nat \union {NoBlock}]
      /\ DOMAIN blocks = 1 .. m /\ \A b \in 1 .. m : blocks[b] \in Block
  BY DEF HeapInv, MergeType, Release
<1>2. ASSUME NEW b \in 1 .. m
      PROVE  times(b) = IF tool = "split" \/ InUse(b, by_tag) THEN 1 ELSE 0
  <2> DEFINE F == {t \in ToFree : by_tag[t] = b}
  <2>0. b # NoBlock
    BY MergeConstants
  <2>1. CASE tool = "merge" /\ InUse(b, by_tag)
    <3>1. PICK t \in Tags : by_tag[t] = b
      BY <2>1 DEF InUse
    <3>2. cap[t] # 0
      BY <1>1, <2>0, <3>1 DEF Owning
    <3>3. F = {t}
      BY <1>1, <2>0, <3>1, <3>2 DEF Owning, ToFree
    <3>4. Cardinality(F) = 1
      BY <3>3, FS_Singleton
    <3> QED BY <2>1, <3>4
  <2>2. CASE tool = "merge" /\ ~InUse(b, by_tag)
    <3>1. F = {}
      BY <2>2 DEF InUse, ToFree
    <3>2. Cardinality(F) = 0
      BY <3>1, FS_EmptySet
    <3> QED BY <2>2, <3>2
  <2>3. CASE tool = "split"
    BY <2>3
  <2> QED BY <1>1, <2>1, <2>2, <2>3
<1>3. blocks' = [b \in 1 .. m |-> Freed(blocks[b], times(b))]
  BY <1>1 DEF Release
<1> HIDE DEF times
<1>4. ASSUME NEW b \in 1 .. m
      PROVE  blocks'[b] \in Block /\ blocks'[b].freed = 1
  <2>1. PICK n \in Nat : n = times(b) /\ blocks[b].freed + n = 1
    BY <1>1, <1>2 DEF Counted
  <2>2. PICK x \in Block : x = blocks[b]
    BY <1>1
  <2>3. Freed(x, n) \in Block /\ Freed(x, n).freed = x.freed + n
    BY BlockOps
  <2>4. blocks'[b] = Freed(x, n)
    BY <1>3, <2>1, <2>2
  <2> QED BY <2>1, <2>2, <2>3, <2>4
<1>5. DOMAIN blocks' = 1 .. m
  BY <1>3
<1>6. blocks' \in Seq(Block) /\ Len(blocks') = m
  <2>1. blocks' = [b \in 1 .. m |-> blocks'[b]]
    BY <1>3
  <2> QED BY <1>1, <1>4, <2>1
<1>7. Owning(blocks, by_tag, cap, count)'
  <2>1. Owning(blocks', by_tag, cap, count)
    BY <1>1, <1>6 DEF Owning
  <2>2. by_tag' = by_tag /\ cap' = cap /\ count' = count
    BY DEF Release
  <2> QED BY <2>1, <2>2
<1>8. MergeType'
  BY <1>6 DEF HeapInv, MergeType, Release
<1>9. /\ pc' = "done" /\ arrived' = arrived /\ rc' = rc /\ by_tag' = by_tag /\ cap' = cap
       /\ recent_base' = recent_base
  BY DEF Release
<1> QED BY <1>4, <1>6, <1>7, <1>8, <1>9 DEF HeapInv

(***************************************************************************)
(* Every step keeps the blocks in order.                                   *)
(***************************************************************************)
LEMMA HeapStep ==
  ASSUME HeapInv, [Next]_vars
  PROVE  HeapInv'
<1>1. ASSUME NEW t \in Tags, OnRecord(t) PROVE HeapInv'
  BY <1>1, RecordHeap
<1>2. CASE AbsorbFails \/ Write \/ WriteFails
  <2>1. /\ tool' = tool /\ blocks' = blocks /\ count' = count /\ cap' = cap
        /\ recent_base' = recent_base /\ arrived' = arrived /\ by_tag' = by_tag
        /\ pc = "absorb" /\ pc' = "release"
    BY <1>2 DEF AbsorbFails, Write, WriteFails, Fails
  <2>2. MergeType'
    BY <2>1 DEF HeapInv, MergeType
  <2>3. Owning(blocks, by_tag, cap, count)' /\ Counted(blocks, by_tag, tool)'
    BY <2>1 DEF HeapInv
  <2> QED BY <2>1, <2>2, <2>3 DEF HeapInv
<1>3. CASE Release
  BY <1>3, ReleaseHeap
<1>4. CASE Done \/ UNCHANGED vars
  <2>1. UNCHANGED vars
    BY <1>4 DEF Done
  <2>2. /\ tool' = tool /\ blocks' = blocks /\ count' = count /\ cap' = cap
        /\ recent_base' = recent_base /\ arrived' = arrived /\ by_tag' = by_tag
        /\ pc' = pc /\ rc' = rc
    BY <2>1 DEF vars
  <2>3. MergeType'
    BY <2>2 DEF HeapInv, MergeType
  <2>4. /\ Owning(blocks, by_tag, cap, count)'
        /\ pc # "done" => Counted(blocks, by_tag, tool)'
    BY <2>2 DEF HeapInv
  <2> QED BY <2>2, <2>3, <2>4 DEF HeapInv
<1> QED BY <1>1, <1>2, <1>3, <1>4 DEF Next

(***************************************************************************)
(* At the start there are no blocks and no arrays.                         *)
(***************************************************************************)
LEMMA InitHeap ==
  ASSUME Init PROVE HeapInv
<1>1. MergeType
  <2>1. <<>> \in Seq(Block) /\ <<>> \in Seq(Tags)
    OBVIOUS
  <2> QED BY <2>1, MergeConstants DEF Init, MergeType
<1>2. Owning(blocks, by_tag, cap, count)
  BY DEF Init, Owning
<1>3. blocks = <<>> /\ Len(<<>>) = 0
  BY DEF Init
<1>4. Counted(blocks, by_tag, tool)
  BY <1>3 DEF Counted
<1> QED BY <1>1, <1>2, <1>4, MergeConstants DEF Init, HeapInv

(***************************************************************************)
(* Every array of merge and split is freed exactly once, whatever records  *)
(* arrive, however often arrays grow and whichever exit is taken.          *)
(***************************************************************************)
THEOREM ArraysFreedOnce == Spec => []FreedOnce
<1>1. Init => HeapInv
  BY InitHeap
<1>2. HeapInv => FreedOnce
  <2> SUFFICES ASSUME HeapInv PROVE FreedOnce
    OBVIOUS
  <2>1. /\ DOMAIN blocks = 1 .. Len(blocks)
        /\ Owning(blocks, by_tag, cap, count)
    BY DEF HeapInv, MergeType
  <2>2. \A t \in Tags : by_tag[t] \in DOMAIN blocks <=> cap[t] # 0
    BY <2>1, MergeConstants DEF Owning
  <2>3. \A t \in Tags : by_tag[t] \in DOMAIN blocks => InUse(by_tag[t], by_tag)
    BY DEF InUse
  <2>4. pc # "done" => \A t \in Tags : by_tag[t] \in DOMAIN blocks => blocks[by_tag[t]].freed = 0
    BY <2>1, <2>3 DEF HeapInv, Counted
  <2>5. \A b \in DOMAIN blocks : blocks[b].freed <= 1
    BY <2>1 DEF HeapInv, Counted
  <2>6. \A t, u \in Tags : by_tag[t] = by_tag[u] /\ by_tag[t] \in DOMAIN blocks => t = u
    BY <2>1, <2>2 DEF Owning
  <2>7. \A t \in Tags : count[t] <= cap[t]
    BY <2>1 DEF Owning
  <2>8. pc = "done" => \A b \in DOMAIN blocks : blocks[b].freed = 1
    BY <2>1 DEF HeapInv
  <2> QED BY <2>2, <2>4, <2>5, <2>6, <2>7, <2>8 DEF FreedOnce
<1> QED BY <1>1, <1>2, HeapStep, PTL DEF Spec

-----------------------------------------------------------------------------
(***************************************************************************)
(* f lists the first n + 1 capacities.                                     *)
(***************************************************************************)
Doubling(f, n) ==
  /\ f \in [0 .. n -> Nat] /\ f[0] = FirstCap
  /\ \A i \in 1 .. n : f[i] = 2 * f[i - 1]

(***************************************************************************)
(* The capacities exist and each is twice the one before.                  *)
(***************************************************************************)
LEMMA CapacityDoubles ==
  /\ Capacity[0] = FirstCap
  /\ \A e \in Nat : Capacity[e] \in Nat /\ Capacity[e + 1] = 2 * Capacity[e]
<1> DEFINE rec(f) == [e \in Nat |-> IF e = 0 THEN FirstCap ELSE 2 * f[e - 1]]
           S == {n \in Nat : \E f : Doubling(f, n)}
<1>0. FirstCap \in Nat
  BY MergeConstants
<1>1. 0 \in S
  <2> DEFINE z == [i \in 0 .. 0 |-> FirstCap]
  <2>1. z \in [0 .. 0 -> Nat] /\ z[0] = FirstCap
    BY <1>0
  <2> HIDE DEF z
  <2>2. Doubling(z, 0)
    BY <2>1 DEF Doubling
  <2> QED BY <2>2
<1>2. ASSUME NEW n \in Nat, n \in S PROVE n + 1 \in S
  <2>1. PICK f : Doubling(f, n)
    BY <1>2
  <2> DEFINE g == [i \in 0 .. n + 1 |-> IF i = n + 1 THEN 2 * f[n] ELSE f[i]]
  <2>2. g \in [0 .. n + 1 -> Nat]
    BY <2>1 DEF Doubling
  <2>3. g[0] = f[0] /\ g[n + 1] = 2 * f[n] /\ \A i \in 0 .. n : g[i] = f[i]
    OBVIOUS
  <2> HIDE DEF g
  <2>4. ASSUME NEW i \in 1 .. n + 1 PROVE g[i] = 2 * g[i - 1]
    <3>1. i - 1 \in 0 .. n /\ (i = n + 1 => i - 1 = n) /\ (i # n + 1 => i \in 1 .. n /\ i \in 0 .. n)
      OBVIOUS
    <3>2. g[i - 1] = f[i - 1]
      BY <2>3, <3>1
    <3>3. CASE i = n + 1
      BY <2>3, <3>1, <3>2, <3>3
    <3>4. CASE i # n + 1
      BY <2>1, <2>3, <3>1, <3>2, <3>4 DEF Doubling
    <3> QED BY <3>3, <3>4
  <2>5. Doubling(g, n + 1)
    BY <2>1, <2>2, <2>3, <2>4 DEF Doubling
  <2> QED BY <2>5
<1>3. \A n \in Nat : \E f : Doubling(f, n)
  <2>1. \A n \in Nat : n \in S
    <3> HIDE DEF S
    <3> QED BY <1>1, <1>2, Induction
  <2> QED BY <2>1
<1>4. ASSUME NEW n \in Nat, NEW f, NEW g, Doubling(f, n), Doubling(g, n + 1)
      PROVE  f[n] = g[n]
  <2> DEFINE T == {k \in Nat : k <= n => f[k] = g[k]}
  <2>1. 0 \in T
    BY <1>4 DEF Doubling
  <2>2. ASSUME NEW k \in Nat, k \in T PROVE k + 1 \in T
    <3> SUFFICES ASSUME k + 1 <= n PROVE f[k + 1] = g[k + 1]
      OBVIOUS
    <3>1. k + 1 \in 1 .. n /\ k + 1 \in 1 .. n + 1 /\ k <= n /\ k + 1 - 1 = k
      OBVIOUS
    <3>2. f[k + 1] = 2 * f[k] /\ g[k + 1] = 2 * g[k]
      BY <1>4, <3>1 DEF Doubling
    <3> QED BY <2>2, <3>1, <3>2
  <2>3. \A k \in Nat : k \in T
    <3> HIDE DEF T
    <3> QED BY <2>1, <2>2, Induction
  <2> QED BY <2>3
<1> DEFINE ch(n) == CHOOSE f : Doubling(f, n)
           all == [e \in Nat |-> ch(e)[e]]
<1>5. \A n \in Nat : Doubling(ch(n), n)
  BY <1>3
<1>6. \A e \in Nat : all[e] = ch(e)[e]
  OBVIOUS
<1> HIDE DEF ch
<1>7. all[0] = FirstCap
  BY <1>5, <1>6 DEF Doubling
<1>8. ASSUME NEW e \in Nat PROVE all[e + 1] = 2 * all[e]
  <2>1. Doubling(ch(e), e) /\ Doubling(ch(e + 1), e + 1)
    BY <1>5
  <2>2. ch(e)[e] = ch(e + 1)[e]
    BY <1>4, <2>1
  <2>3. ch(e + 1)[e + 1] = 2 * ch(e + 1)[e]
    <3>1. e + 1 \in 1 .. e + 1 /\ e + 1 - 1 = e
      OBVIOUS
    <3> QED BY <2>1, <3>1 DEF Doubling
  <2> HIDE DEF all
  <2> QED BY <1>6, <2>2, <2>3
<1>9. \E f : f = rec(f)
  <2>1. \A e \in Nat : all[e] = IF e = 0 THEN FirstCap ELSE 2 * all[e - 1]
    <3> HIDE DEF all
    <3> SUFFICES ASSUME NEW e \in Nat, e # 0 PROVE all[e] = 2 * all[e - 1]
      BY <1>7
    <3>1. e - 1 \in Nat /\ e - 1 + 1 = e
      OBVIOUS
    <3> QED BY <1>8, <3>1
  <2>2. all = [e \in Nat |-> all[e]]
    OBVIOUS
  <2> HIDE DEF all
  <2>3. all = rec(all)
    BY <2>1, <2>2, Zenon
  <2> QED BY <2>3
<1>10. Capacity = CHOOSE f : f = rec(f)
  BY DEF Capacity
<1>11. Capacity = rec(Capacity)
  BY <1>9, <1>10
<1>12. \A e \in Nat : Capacity[e] = IF e = 0 THEN FirstCap ELSE 2 * Capacity[e - 1]
  BY <1>11, Zenon
<1>13. Capacity[0] = FirstCap /\ \A e \in Nat : Capacity[e + 1] = 2 * Capacity[e]
  <2>1. \A e \in Nat : e + 1 \in Nat /\ e + 1 # 0 /\ e + 1 - 1 = e
    OBVIOUS
  <2> QED BY <1>12, <2>1
<1> DEFINE U == {e \in Nat : Capacity[e] \in Nat}
<1>14. \A e \in Nat : e \in U
  <2>1. 0 \in U /\ \A e \in Nat : e \in U => e + 1 \in U
    BY <1>0, <1>13
  <2> HIDE DEF U
  <2> QED BY <2>1, Induction
<1> QED BY <1>13, <1>14

(***************************************************************************)
(* The records of tag t among the first n of s.                            *)
(***************************************************************************)
Occ(s, n, t) == {k \in 1 .. n : s[k] = t}

GrewIn(s) ==
  \E k \in 2 .. Len(s) :
    /\ s[k] = s[k - 1]
    /\ \E e \in 0 .. k : Cardinality(Occ(s, k - 1, s[k])) = Capacity[e]

(***************************************************************************)
(* One record more: its tag occurs once more, the others as before, and    *)
(* growth in a run stays in the past.                                      *)
(***************************************************************************)
LEMMA OccNext ==
  ASSUME NEW s \in Seq(Tags), NEW t \in Tags
  PROVE  /\ \A u \in Tags : Cardinality(Occ(s, Len(s), u)) \in 0 .. Len(s)
         /\ \A u \in Tags : Cardinality(Occ(s, Len(s), u)) = 0 => Occ(s, Len(s), u) = {}
         /\ Cardinality(Occ(Append(s, t), Len(s) + 1, t)) = Cardinality(Occ(s, Len(s), t)) + 1
         /\ \A u \in Tags : u # t => Occ(Append(s, t), Len(s) + 1, u) = Occ(s, Len(s), u)
         /\ \A u \in Tags : Occ(Append(s, t), Len(s), u) = Occ(s, Len(s), u)
         /\ GrewIn(s) => GrewIn(Append(s, t))
<1> DEFINE n == Len(s)
<1>1. PICK w \in Seq(Tags) : /\ w = Append(s, t) /\ Len(w) = n + 1 /\ n \in Nat /\ w[n + 1] = t
                             /\ \A i \in 1 .. n : w[i] = s[i]
  <2>1. /\ Append(s, t) \in Seq(Tags) /\ Len(Append(s, t)) = n + 1 /\ n \in Nat
        /\ Append(s, t)[n + 1] = t /\ \A i \in 1 .. n : Append(s, t)[i] = s[i]
    BY AppendProperties
  <2> HIDE DEF n
  <2> QED BY <2>1
<1> HIDE DEF n
<1>2. \A m \in 0 .. n, u \in Tags : Occ(w, m, u) = Occ(s, m, u)
  BY <1>1 DEF Occ
<1>3. IsFiniteSet(1 .. n) /\ Cardinality(1 .. n) = n
  <2>1. PICK a \in Int, b \in Int : a = 1 /\ b = n
    BY <1>1
  <2>2. IsFiniteSet(a .. b) /\ Cardinality(a .. b) = IF a > b THEN 0 ELSE b - a + 1
    BY FS_Interval
  <2> QED BY <1>1, <2>1, <2>2
<1>4. ASSUME NEW u \in Tags
      PROVE  IsFiniteSet(Occ(s, n, u)) /\ Cardinality(Occ(s, n, u)) \in 0 .. n
  <2>1. Occ(s, n, u) \subseteq 1 .. n
    BY DEF Occ
  <2>2. IsFiniteSet(Occ(s, n, u)) /\ Cardinality(Occ(s, n, u)) <= n
    BY <1>3, <2>1, FS_Subset
  <2> QED BY <1>1, <2>2, FS_CardinalityType
<1>5. \A u \in Tags : Cardinality(Occ(s, n, u)) = 0 => Occ(s, n, u) = {}
  BY <1>4, FS_EmptySet
<1>6. Occ(w, n + 1, t) = Occ(s, n, t) \union {n + 1} /\ n + 1 \notin Occ(s, n, t)
  BY <1>1 DEF Occ
<1>7. Cardinality(Occ(w, n + 1, t)) = Cardinality(Occ(s, n, t)) + 1
  BY <1>4, <1>6, FS_AddElement
<1>8. \A u \in Tags : u # t => Occ(w, n + 1, u) = Occ(s, n, u)
  BY <1>1 DEF Occ
<1>9. ASSUME GrewIn(s) PROVE GrewIn(w)
  <2>1. PICK k \in 2 .. n : /\ s[k] = s[k - 1]
                            /\ \E e \in 0 .. k : Cardinality(Occ(s, k - 1, s[k])) = Capacity[e]
    BY <1>9 DEF GrewIn, n
  <2>2. k \in 2 .. n + 1 /\ w[k] = s[k] /\ w[k - 1] = s[k - 1] /\ k - 1 \in 0 .. n /\ s[k] \in Tags
    BY <1>1 DEF n
  <2>3. Occ(w, k - 1, w[k]) = Occ(s, k - 1, s[k])
    BY <1>2, <2>2
  <2> QED BY <1>1, <2>1, <2>2, <2>3 DEF GrewIn
<1>10. n \in 0 .. n
  BY <1>1
<1> QED BY <1>1, <1>2, <1>4, <1>5, <1>7, <1>8, <1>9, <1>10 DEF n

(***************************************************************************)
(* The first c slots of sl hold the records of s with tag t, in order.     *)
(***************************************************************************)
Held(sl, c, s, t) ==
  /\ DOMAIN sl = Slots(c)
  /\ \A k \in Slots(c) : sl[k] \in 1 .. Len(s) /\ s[sl[k]] = t
  /\ \A i \in 1 .. Len(s) : s[i] = t => \E k \in Slots(c) : sl[k] = i
  /\ \A j, k \in Slots(c) : j < k => sl[j] < sl[k]

(***************************************************************************)
(* One record more, for the array of its tag and for the others.           *)
(***************************************************************************)
LEMMA HeldNext ==
  ASSUME NEW s \in Seq(Tags), NEW t \in Tags, NEW u \in Tags, NEW c \in Nat, NEW sl,
         Held(sl, c, s, u)
  PROVE  /\ u # t => Held(sl, c, Append(s, t), u)
         /\ u = t => \A b : b.slots = sl => Held(Written(b, c, Len(s) + 1).slots, c + 1, Append(s, t), u)
<1> DEFINE n == Len(s)
<1>1. PICK w \in Seq(Tags) : /\ w = Append(s, t) /\ Len(w) = n + 1 /\ n \in Nat /\ w[n + 1] = t
                             /\ \A i \in 1 .. n : w[i] = s[i]
  <2>1. /\ Append(s, t) \in Seq(Tags) /\ Len(Append(s, t)) = n + 1 /\ n \in Nat
        /\ Append(s, t)[n + 1] = t /\ \A i \in 1 .. n : Append(s, t)[i] = s[i]
    BY AppendProperties
  <2> HIDE DEF n
  <2> QED BY <2>1
<1>2. /\ DOMAIN sl = 0 .. c - 1
      /\ \A k \in 0 .. c - 1 : sl[k] \in 1 .. n /\ s[sl[k]] = u
      /\ \A i \in 1 .. n : s[i] = u => \E k \in 0 .. c - 1 : sl[k] = i
      /\ \A j, k \in 0 .. c - 1 : j < k => sl[j] < sl[k]
  BY DEF Held, Slots
<1> HIDE DEF n
<1>3. ASSUME u # t PROVE Held(sl, c, w, u)
  <2>1. \A k \in 0 .. c - 1 : sl[k] \in 1 .. n + 1 /\ w[sl[k]] = u
    BY <1>1, <1>2
  <2>2. \A i \in 1 .. n + 1 : w[i] = u => \E k \in 0 .. c - 1 : sl[k] = i
    BY <1>1, <1>2, <1>3
  <2> QED BY <1>1, <1>2, <2>1, <2>2 DEF Held, Slots
<1>4. ASSUME u = t, NEW b, b.slots = sl PROVE Held(Written(b, c, n + 1).slots, c + 1, w, u)
  <2> DEFINE g == [k \in DOMAIN sl \union {c} |-> IF k = c THEN n + 1 ELSE sl[k]]
  <2>1. Written(b, c, n + 1).slots = g
    BY <1>4 DEF Written
  <2>2. DOMAIN sl \union {c} = 0 .. c /\ c + 1 - 1 = c
    BY <1>2
  <2>3. DOMAIN g = 0 .. c /\ g[c] = n + 1 /\ \A k \in 0 .. c - 1 : g[k] = sl[k] /\ k \in 0 .. c
    BY <2>2
  <2> HIDE DEF g
  <2>4. \A k \in 0 .. c : k = c \/ k \in 0 .. c - 1
    OBVIOUS
  <2>5. \A k \in 0 .. c : g[k] \in 1 .. n + 1 /\ w[g[k]] = u
    <3> SUFFICES ASSUME NEW k \in 0 .. c PROVE g[k] \in 1 .. n + 1 /\ w[g[k]] = u
      OBVIOUS
    <3>1. CASE k = c
      BY <1>1, <1>4, <2>3, <3>1
    <3>2. CASE k \in 0 .. c - 1
      BY <1>1, <1>2, <2>3, <3>2
    <3> QED BY <2>4, <3>1, <3>2
  <2>6. ASSUME NEW i \in 1 .. n + 1, w[i] = u PROVE \E k \in 0 .. c : g[k] = i
    <3>1. CASE i = n + 1
      BY <2>3, <3>1
    <3>2. CASE i \in 1 .. n
      <4>1. s[i] = u
        BY <1>1, <2>6, <3>2
      <4>2. PICK k \in 0 .. c - 1 : sl[k] = i
        BY <1>2, <3>2, <4>1
      <4> QED BY <2>3, <4>2
    <3> QED BY <1>1, <3>1, <3>2
  <2>7. ASSUME NEW j \in 0 .. c, NEW k \in 0 .. c, j < k PROVE g[j] < g[k]
    <3>1. j \in 0 .. c - 1
      BY <2>7
    <3>2. CASE k = c
      BY <1>1, <1>2, <2>3, <3>1, <3>2
    <3>3. CASE k \in 0 .. c - 1
      BY <1>2, <2>3, <2>7, <3>1, <3>3
    <3> QED BY <2>4, <3>2, <3>3
  <2>8. Held(g, c + 1, w, u)
    BY <1>1, <2>2, <2>3, <2>5, <2>6, <2>7 DEF Held, Slots
  <2> QED BY <2>1, <2>8
<1> QED BY <1>1, <1>3, <1>4 DEF n

(***************************************************************************)
(* What is emitted lists the records of each tag, whole and in order.      *)
(***************************************************************************)
ListsIn(recs, s, t) ==
  /\ Range(recs) = Occ(s, Len(s), t)
  /\ \A j, k \in DOMAIN recs : j < k => recs[j] < recs[k]

Grouped(em, s, p, r) ==
  /\ \A t \in DOMAIN em : ListsIn(em[t], s, t)
  /\ \A t \in Tags, u \in DOMAIN em : t < u /\ Occ(s, Len(s), t) # {} => t \in DOMAIN em
  /\ p # "absorb" /\ r = "OK" => \A t \in Tags : Occ(s, Len(s), t) # {} => t \in DOMAIN em

(***************************************************************************)
(* Unless an array grew in a run, the cached base is the array of the last *)
(* tag and every array holds the records of its tag.                       *)
(***************************************************************************)
Faithful(bs, bt, n, c, rt, rb, s) ==
  /\ rb # NoBlock => bt[rt] = rb
  /\ \A t \in Tags : c[t] # 0 => Held(bs[bt[t]].slots, n[t], s, t)

Sizes(n, c, s) ==
  /\ \A t \in Tags : n[t] = Cardinality(Occ(s, Len(s), t))
  /\ \A t \in Tags : c[t] # 0 => \E e \in 0 .. c[t] : c[t] = Capacity[e]

(***************************************************************************)
(* The inductive invariant of RegroupedUnlessGrownInRun.                   *)
(***************************************************************************)
Clean(s) == tool = "split" \/ ~GrewIn(s)

RegroupInv ==
  /\ HeapInv /\ Sizes(count, cap, arrived)
  /\ recent_base # NoBlock => /\ tool = "merge" /\ arrived # <<>> /\ recent_tag \in Tags
                              /\ recent_tag = arrived[Len(arrived)]
  /\ pc = "absorb" => emitted = Nothing
  /\ Clean(arrived) =>
       /\ Faithful(blocks, by_tag, count, cap, recent_tag, recent_base, arrived)
       /\ Grouped(emitted, arrived, pc, rc)

(***************************************************************************)
(* The cached base is stale only after growth in a run: when the array of  *)
(* the last tag is full, its size is a capacity it has just outgrown.      *)
(***************************************************************************)
LEMMA RecordBase ==
  ASSUME RegroupInv, NEW t \in Tags, pc = "absorb", Clean(Append(arrived, t))
  PROVE  Clean(arrived) /\ Base(t) = ArrayOf(t)
<1> DEFINE n == Len(arrived)
<1>1. /\ arrived \in Seq(Tags) /\ n \in Nat /\ tool \in {"merge", "split"}
      /\ count[t] \in Nat /\ cap[t] \in Nat
  BY DEF RegroupInv, HeapInv, MergeType
<1>2. Clean(arrived)
  BY <1>1, OccNext DEF Clean
<1>3. ASSUME tool = "merge", recent_tag = t, recent_base # NoBlock PROVE ~Full(t)
  <2> SUFFICES ASSUME Full(t) PROVE FALSE
    OBVIOUS
  <2>1. by_tag[t] = recent_base /\ recent_base \in 1 .. Len(blocks)
    BY <1>2, <1>3 DEF RegroupInv, HeapInv, Faithful
  <2>2. cap[t] # 0
    BY <2>1, MergeConstants DEF RegroupInv, HeapInv, Owning
  <2>3. PICK e \in 0 .. cap[t] : cap[t] = Capacity[e]
    BY <2>2 DEF RegroupInv, Sizes
  <2>4. count[t] = Cardinality(Occ(arrived, n, t))
    BY DEF RegroupInv, Sizes
  <2>5. count[t] = cap[t] /\ count[t] \in 0 .. n
    <3>1. count[t] \in 0 .. n
      BY <1>1, <2>4, OccNext
    <3> QED BY <3>1 DEF Full
  <2>6. arrived # <<>> /\ arrived[n] = t
    BY <1>3 DEF RegroupInv
  <2>7. n # 0
    BY <1>1, <2>6, EmptySeq
  <2>8. PICK w \in Seq(Tags) : /\ w = Append(arrived, t) /\ Len(w) = n + 1 /\ w[n + 1] = t
                               /\ \A i \in 1 .. n : w[i] = arrived[i]
    <3>1. /\ Append(arrived, t) \in Seq(Tags) /\ Len(Append(arrived, t)) = n + 1
          /\ Append(arrived, t)[n + 1] = t /\ \A i \in 1 .. n : Append(arrived, t)[i] = arrived[i]
      BY <1>1, AppendProperties
    <3> HIDE DEF n
    <3> QED BY <3>1
  <2>9. Occ(w, n, t) = Occ(arrived, n, t)
    BY <1>1, <2>8, OccNext
  <2> HIDE DEF n
  <2>10. /\ n + 1 \in 2 .. n + 1 /\ n + 1 - 1 = n /\ n \in 1 .. n /\ e \in 0 .. n + 1
    BY <1>1, <2>5, <2>7
  <2>11. w[n + 1] = w[n]
    BY <2>6, <2>8, <2>10
  <2>12. Cardinality(Occ(w, n, w[n + 1])) = Capacity[e]
    BY <2>3, <2>4, <2>5, <2>8, <2>9
  <2>13. GrewIn(w)
    BY <2>8, <2>10, <2>11, <2>12 DEF GrewIn
  <2> QED BY <1>3, <2>8, <2>13 DEF Clean
<1>4. CASE tool = "merge" /\ recent_tag = t /\ recent_base # NoBlock
  <2>1. by_tag[t] = recent_base
    BY <1>2, <1>4 DEF RegroupInv, Faithful
  <2> QED BY <1>2, <1>3, <1>4, <2>1 DEF Base, ArrayOf
<1>5. CASE ~(tool = "merge" /\ recent_tag = t /\ recent_base # NoBlock)
  BY <1>2, <1>5 DEF Base
<1> QED BY <1>4, <1>5

(***************************************************************************)
(* Sizes after a record: the capacity doubles when it is reached.          *)
(***************************************************************************)
LEMMA RecordSizes ==
  ASSUME RegroupInv, NEW t \in Tags, OnRecord(t)
  PROVE  Sizes(count', cap', Append(arrived, t))
<1> DEFINE s == arrived
           n == Len(arrived)
<1>1. /\ s \in Seq(Tags) /\ n \in Nat
      /\ count \in [Tags -> Nat] /\ cap \in [Tags -> Nat]
  BY DEF RegroupInv, HeapInv, MergeType
<1>2. Len(Append(s, t)) = n + 1
  BY <1>1, AppendProperties
<1>3. count'[t] = count[t] + 1 /\ \A u \in Tags : u # t => count'[u] = count[u]
  BY <1>1 DEF OnRecord
<1>4. /\ cap'[t] = (IF Full(t) THEN NewCap(t) ELSE cap[t])
      /\ \A u \in Tags : u # t => cap'[u] = cap[u]
  BY <1>1 DEF OnRecord
<1>5. \A u \in Tags : count'[u] = Cardinality(Occ(Append(s, t), n + 1, u))
  <2> SUFFICES ASSUME NEW u \in Tags PROVE count'[u] = Cardinality(Occ(Append(s, t), n + 1, u))
    OBVIOUS
  <2>1. count[u] = Cardinality(Occ(s, n, u))
    BY DEF RegroupInv, Sizes
  <2>2. CASE u = t
    BY <1>1, <1>3, <2>1, <2>2, OccNext
  <2>3. CASE u # t
    BY <1>1, <1>3, <2>1, <2>3, OccNext
  <2> QED BY <2>2, <2>3
<1>6. ASSUME NEW u \in Tags, cap[u] # 0 PROVE \E e \in 0 .. cap[u] : cap[u] = Capacity[e]
  BY <1>6 DEF RegroupInv, Sizes
<1>7. \E e \in 0 .. cap'[t] : cap'[t] = Capacity[e]
  <2>0. cap[t] \in Nat
    BY <1>1
  <2>1. CASE ~Full(t)
    <3>1. count[t] <= cap[t] /\ count[t] \in Nat
      BY <1>1 DEF RegroupInv, HeapInv, Owning
    <3>2. cap[t] # 0
      BY <2>0, <2>1, <3>1 DEF Full
    <3> QED BY <1>4, <1>6, <2>1, <3>2
  <2>2. CASE Full(t) /\ cap[t] = 0
    <3>1. cap'[t] = FirstCap
      BY <1>4, <2>2 DEF NewCap
    <3> QED BY <3>1, CapacityDoubles, MergeConstants
  <2>3. CASE Full(t) /\ cap[t] # 0
    <3>1. cap'[t] = 2 * cap[t]
      BY <1>4, <2>3 DEF NewCap
    <3>2. PICK e \in 0 .. cap[t] : cap[t] = Capacity[e]
      BY <1>6, <2>3
    <3>3. e \in Nat /\ e + 1 \in 0 .. 2 * cap[t]
      BY <2>0, <2>3
    <3>4. Capacity[e + 1] = 2 * cap[t]
      BY <3>2, <3>3, CapacityDoubles
    <3> QED BY <3>1, <3>3, <3>4
  <2> QED BY <2>1, <2>2, <2>3
<1>8. ASSUME NEW u \in Tags, cap'[u] # 0 PROVE \E e \in 0 .. cap'[u] : cap'[u] = Capacity[e]
  <2>1. CASE u = t
    BY <1>7, <2>1
  <2>2. CASE u # t
    BY <1>4, <1>6, <1>8, <2>2
  <2> QED BY <2>1, <2>2
<1> QED BY <1>2, <1>5, <1>8 DEF Sizes

(***************************************************************************)
(* A record goes into the array of its tag and no other.                   *)
(***************************************************************************)
LEMMA RecordFaithful ==
  ASSUME RegroupInv, NEW t \in Tags, OnRecord(t), Clean(Append(arrived, t))
  PROVE  Faithful(blocks', by_tag', count', cap', recent_tag', recent_base', Append(arrived, t))
<1> DEFINE m == Len(blocks)
           s == arrived
<1>1. /\ HeapInv /\ pc = "absorb" /\ s \in Seq(Tags) /\ m \in Nat /\ tool \in {"merge", "split"}
      /\ by_tag \in [Tags -> Nat \union {NoBlock}]
      /\ count \in [Tags -> Nat] /\ cap \in [Tags -> Nat]
      /\ Owning(blocks, by_tag, cap, count) /\ blocks \in Seq(Block)
  BY DEF RegroupInv, HeapInv, MergeType, OnRecord
<1>2. Clean(s) /\ Base(t) = ArrayOf(t)
  BY <1>1, RecordBase
<1>3. \A u \in Tags : cap[u] # 0 => Held(blocks[by_tag[u]].slots, count[u], s, u)
  BY <1>2 DEF RegroupInv, Faithful
<1>4. /\ by_tag'[t] = ArrayOf(t) /\ count'[t] = count[t] + 1
      /\ \A u \in Tags : u # t => by_tag'[u] = by_tag[u] /\ count'[u] = count[u] /\ cap'[u] = cap[u]
  BY <1>1 DEF OnRecord
<1>5. /\ \A b \in 1 .. m : Roomy(t)[b].slots = blocks[b].slots
      /\ Full(t) => Roomy(t)[m + 1] = [freed |-> 0, slots |-> Copied(t)]
      /\ Len(Roomy(t)) = IF Full(t) THEN m + 1 ELSE m
  BY <1>1, RoomyBlocks
<1>6. /\ blocks'[ArrayOf(t)] = Written(Roomy(t)[ArrayOf(t)], count[t], Len(s) + 1)
      /\ \A b \in 1 .. m : b # ArrayOf(t) => blocks'[b].slots = blocks[b].slots
  <2>1. 1 .. m \subseteq 1 .. Len(Roomy(t))
    BY <1>1, <1>5
  <2> QED BY <1>1, <1>2, <1>5, <2>1, WrittenBlocks
<1>7. Held(Roomy(t)[ArrayOf(t)].slots, count[t], s, t)
  <2>1. CASE ~Full(t)
    <3>1. count[t] <= cap[t] /\ count[t] \in Nat /\ cap[t] \in Nat
      BY <1>1 DEF Owning
    <3>2. cap[t] # 0
      BY <2>1, <3>1 DEF Full
    <3>3. ArrayOf(t) = by_tag[t] /\ by_tag[t] \in 1 .. m
      BY <1>1, <2>1, <3>2 DEF ArrayOf, Owning
    <3> QED BY <1>3, <1>5, <3>2, <3>3
  <2>2. CASE Full(t) /\ count[t] = 0
    <3>1. Roomy(t)[ArrayOf(t)].slots = Nothing
      BY <1>5, <2>2 DEF ArrayOf, Copied
    <3>2. Occ(s, Len(s), t) = {}
      <4>1. Cardinality(Occ(s, Len(s), t)) = 0
        BY <2>2 DEF RegroupInv, Sizes
      <4> QED BY <1>1, <4>1, OccNext
    <3>3. DOMAIN Nothing = {} /\ Slots(0) = {}
      BY DEF Nothing, Slots
    <3>4. Held(Nothing, 0, s, t)
      BY <3>2, <3>3 DEF Held, Occ
    <3> QED BY <2>2, <3>1, <3>4
  <2>3. CASE Full(t) /\ count[t] # 0
    <3>1. cap[t] # 0
      BY <2>3 DEF Full
    <3> DEFINE sl == blocks[by_tag[t]].slots
    <3>2. Held(sl, count[t], s, t)
      BY <1>3, <3>1
    <3>3. DOMAIN sl = Slots(count[t])
      BY <3>2 DEF Held
    <3>4. Copied(t) = [x \in Slots(count[t]) |-> sl[x]]
      <4>1. Copied(t) = Restrict(sl, Slots(count[t]) \intersect DOMAIN sl)
        BY <2>3 DEF Copied
      <4>2. Slots(count[t]) \intersect DOMAIN sl = Slots(count[t])
        BY <3>3
      <4> HIDE DEF sl
      <4> QED BY <4>1, <4>2 DEF Restrict
    <3>5. Roomy(t)[ArrayOf(t)].slots = Copied(t)
      BY <1>5, <2>3 DEF ArrayOf
    <3> HIDE DEF sl
    <3>6. Held(Copied(t), count[t], s, t)
      <4> DEFINE g == Copied(t)
      <4>1. DOMAIN g = Slots(count[t]) /\ \A k \in Slots(count[t]) : g[k] = sl[k]
        BY <3>4
      <4> HIDE DEF g
      <4>2. Held(g, count[t], s, t)
        BY <3>2, <4>1 DEF Held
      <4> QED BY <4>2 DEF g
    <3> QED BY <3>5, <3>6
  <2> QED BY <2>1, <2>2, <2>3
<1>8. Held(blocks'[ArrayOf(t)].slots, count[t] + 1, Append(s, t), t)
  <2>1. PICK b : b = Roomy(t)[ArrayOf(t)]
    OBVIOUS
  <2>2. PICK sl : sl = b.slots
    OBVIOUS
  <2>3. Held(sl, count[t], s, t) /\ count[t] \in Nat
    BY <1>1, <1>7, <2>1, <2>2
  <2>4. Held(Written(b, count[t], Len(s) + 1).slots, count[t] + 1, Append(s, t), t)
    BY <1>1, <2>2, <2>3, HeldNext
  <2> QED BY <1>6, <2>1, <2>4
<1>9. ASSUME NEW u \in Tags, u # t, cap[u] # 0
      PROVE  Held(blocks'[by_tag[u]].slots, count[u], Append(s, t), u)
  <2>1. by_tag[u] \in 1 .. m
    BY <1>1, <1>9 DEF Owning
  <2>2. by_tag[u] # ArrayOf(t)
    BY <1>1, <1>9, <2>1 DEF ArrayOf, Owning
  <2>3. PICK sl : sl = blocks[by_tag[u]].slots
    OBVIOUS
  <2>4. blocks'[by_tag[u]].slots = sl
    BY <1>6, <2>1, <2>2, <2>3
  <2>5. Held(sl, count[u], s, u) /\ count[u] \in Nat
    BY <1>1, <1>3, <1>9, <2>3
  <2>6. Held(sl, count[u], Append(s, t), u)
    BY <1>1, <1>9, <2>5, HeldNext
  <2> QED BY <2>4, <2>6
<1>10. ASSUME NEW u \in Tags, cap'[u] # 0
       PROVE  Held(blocks'[by_tag'[u]].slots, count'[u], Append(s, t), u)
  <2>1. CASE u = t
    BY <1>4, <1>8, <2>1
  <2>2. CASE u # t
    BY <1>4, <1>9, <1>10, <2>2
  <2> QED BY <2>1, <2>2
<1>11. recent_base' # NoBlock => by_tag'[recent_tag'] = recent_base'
  <2>1. CASE tool = "merge"
    BY <1>2, <1>4, <2>1 DEF OnRecord
  <2>2. CASE tool = "split"
    BY <2>2 DEF OnRecord, RegroupInv
  <2> QED BY <1>1, <2>1, <2>2
<1> QED BY <1>10, <1>11 DEF Faithful

(***************************************************************************)
(* The contents written for a tag are its records.                         *)
(***************************************************************************)
LEMMA ContentsListed ==
  ASSUME RegroupInv, Clean(arrived), NEW t \in Present
  PROVE  ListsIn(Contents(t), arrived, t)
<1> DEFINE c == count[t]
           sl == blocks[by_tag[t]].slots
           g == Contents(t)
<1>1. t \in Tags /\ c \in Nat /\ c # 0 /\ cap[t] # 0
  <2>1. t \in Tags /\ c \in Nat /\ c # 0 /\ cap[t] \in Nat
    BY DEF Present, RegroupInv, HeapInv, MergeType
  <2>2. c <= cap[t]
    BY <2>1 DEF RegroupInv, HeapInv, Owning
  <2> QED BY <2>1, <2>2
<1>2. Held(sl, c, arrived, t)
  BY <1>1 DEF RegroupInv, Faithful
<1>3. /\ DOMAIN sl = 0 .. c - 1
      /\ \A k \in 0 .. c - 1 : sl[k] \in 1 .. Len(arrived) /\ arrived[sl[k]] = t
      /\ \A i \in 1 .. Len(arrived) : arrived[i] = t => \E k \in 0 .. c - 1 : sl[k] = i
      /\ \A j, k \in 0 .. c - 1 : j < k => sl[j] < sl[k]
  BY <1>2 DEF Held, Slots
<1>4. g = [k \in 1 .. c |-> IF k - 1 \in DOMAIN sl THEN sl[k - 1] ELSE 0]
  BY DEF Contents
<1> HIDE DEF g, sl, c
<1>5. DOMAIN g = 1 .. c /\ \A k \in 1 .. c : k - 1 \in 0 .. c - 1 /\ g[k] = sl[k - 1]
  BY <1>1, <1>3, <1>4
<1>6. \A k \in 0 .. c - 1 : k + 1 \in 1 .. c /\ g[k + 1] = sl[k]
  <2>1. \A k \in 0 .. c - 1 : k + 1 \in 1 .. c /\ k + 1 - 1 = k
    BY <1>1
  <2> QED BY <1>5, <2>1
<1>7. \A j, k \in 1 .. c : j < k => g[j] < g[k]
  <2> SUFFICES ASSUME NEW j \in 1 .. c, NEW k \in 1 .. c, j < k PROVE g[j] < g[k]
    OBVIOUS
  <2>1. PICK i \in 0 .. c - 1, l \in 0 .. c - 1 : i = j - 1 /\ l = k - 1 /\ i < l
    BY <1>1
  <2> QED BY <1>3, <1>5, <2>1
<1>8. Range(g) = Occ(arrived, Len(arrived), t)
  <2>1. Range(g) = {g[k] : k \in 1 .. c}
    BY <1>5 DEF Range
  <2>2. ASSUME NEW x \in Range(g) PROVE x \in Occ(arrived, Len(arrived), t)
    <3>1. PICK k \in 1 .. c : x = g[k]
      BY <2>1
    <3> QED BY <1>3, <1>5, <3>1 DEF Occ
  <2>3. ASSUME NEW x \in Occ(arrived, Len(arrived), t) PROVE x \in Range(g)
    <3>1. PICK k \in 0 .. c - 1 : sl[k] = x
      BY <1>3 DEF Occ
    <3> QED BY <1>6, <2>1, <3>1
  <2> QED BY <2>2, <2>3
<1> QED BY <1>5, <1>7, <1>8 DEF ListsIn, g

(***************************************************************************)
(* A tag is present when a record of it arrived.                           *)
(***************************************************************************)
LEMMA PresentOccurs ==
  ASSUME RegroupInv, NEW t \in Tags, Occ(arrived, Len(arrived), t) # {}
  PROVE  t \in Present
<1>1. arrived \in Seq(Tags) /\ count[t] \in Nat
  BY DEF RegroupInv, HeapInv, MergeType
<1>2. count[t] # 0
  <2>1. count[t] = Cardinality(Occ(arrived, Len(arrived), t))
    BY DEF RegroupInv, Sizes
  <2> QED BY <1>1, <2>1, OccNext
<1> QED BY <1>1, <1>2 DEF Present

(***************************************************************************)
(* Nothing emitted is grouped, while records arrive and after a failure.   *)
(***************************************************************************)
LEMMA NothingGrouped ==
  ASSUME NEW s, NEW p, NEW r, p = "absorb" \/ r # "OK"
  PROVE  Grouped(Nothing, s, p, r)
<1>1. DOMAIN Nothing = {}
  BY DEF Nothing
<1> HIDE DEF Nothing
<1> QED BY <1>1 DEF Grouped

(***************************************************************************)
(* Writing emits every tag present, or those below one that failed.        *)
(***************************************************************************)
LEMMA WriteGroups ==
  ASSUME RegroupInv, Clean(arrived), Write \/ WriteFails
  PROVE  Grouped(emitted', arrived, pc', rc')
<1>1. Tags \subseteq Nat /\ Present \subseteq Tags
  BY MergeConstants DEF Present
<1>2. PICK P \in SUBSET Present :
        /\ emitted' = [t \in P |-> Contents(t)]
        /\ \A t \in Present, u \in P : t < u => t \in P
        /\ rc' = "OK" => P = Present
  <2>1. CASE Write
    BY <2>1 DEF Write
  <2>2. CASE WriteFails
    <3>1. PICK u \in Present : emitted' = [t \in {v \in Present : v < u} |-> Contents(t)]
      BY <2>2 DEF WriteFails
    <3>2. rc' = "ERR"
      BY <2>2 DEF WriteFails, Fails
    <3> DEFINE Q == {v \in Present : v < u}
    <3>3. Q \in SUBSET Present /\ \A t \in Present, v \in Q : t < v => t \in Q
      BY <1>1
    <3>4. emitted' = [t \in Q |-> Contents(t)]
      BY <3>1
    <3> HIDE DEF Q
    <3> QED BY <3>2, <3>3, <3>4
  <2> QED BY <2>1, <2>2
<1>3. DOMAIN emitted' = P /\ \A t \in P : emitted'[t] = Contents(t)
  BY <1>2
<1>4. \A t \in P : ListsIn(emitted'[t], arrived, t)
  BY <1>2, <1>3, ContentsListed
<1>5. \A t \in Tags : Occ(arrived, Len(arrived), t) # {} => t \in Present
  BY PresentOccurs
<1> QED BY <1>1, <1>2, <1>3, <1>4, <1>5 DEF Grouped

(***************************************************************************)
(* Releasing the arrays leaves what they hold as it is.                    *)
(***************************************************************************)
LEMMA ReleaseKeeps ==
  ASSUME RegroupInv, Release, Clean(arrived)
  PROVE  Faithful(blocks', by_tag, count, cap, recent_tag, recent_base, arrived)
<1>1. DOMAIN blocks = 1 .. Len(blocks)
  BY DEF RegroupInv, HeapInv, MergeType
<1>2. \A b \in 1 .. Len(blocks) : blocks'[b].slots = blocks[b].slots
  BY <1>1 DEF Release, Freed
<1>3. ASSUME NEW t \in Tags, cap[t] # 0 PROVE Held(blocks'[by_tag[t]].slots, count[t], arrived, t)
  <2>1. by_tag[t] \in 1 .. Len(blocks)
    BY <1>3 DEF RegroupInv, HeapInv, Owning
  <2>2. Held(blocks[by_tag[t]].slots, count[t], arrived, t)
    BY <1>3 DEF RegroupInv, Faithful
  <2> QED BY <1>2, <2>1, <2>2
<1> QED BY <1>3 DEF RegroupInv, Faithful

(***************************************************************************)
(* Every step keeps the arrays faithful to the records that arrived.       *)
(***************************************************************************)
LEMMA RegroupStep ==
  ASSUME RegroupInv, [Next]_vars
  PROVE  RegroupInv'
<1>0. HeapInv /\ HeapInv'
  BY HeapStep DEF RegroupInv
<1>1. ASSUME NEW t \in Tags, OnRecord(t) PROVE RegroupInv'
  <2>1. /\ arrived' = Append(arrived, t) /\ tool' = tool /\ pc = "absorb" /\ pc' = "absorb"
        /\ emitted' = emitted /\ rc' = rc /\ tool \in {"merge", "split"}
        /\ arrived \in Seq(Tags)
    BY <1>0, <1>1 DEF OnRecord, HeapInv, MergeType
  <2>2. Sizes(count, cap, arrived)'
    <3>1. Sizes(count', cap', Append(arrived, t))
      BY <1>1, RecordSizes
    <3> QED BY <2>1, <3>1
  <2>3. emitted' = Nothing
    BY <2>1 DEF RegroupInv
  <2>4. arrived' # <<>> /\ arrived'[Len(arrived')] = t
    BY <2>1, AppendProperties
  <2>5. recent_base' # NoBlock => /\ tool = "merge" /\ recent_tag' \in Tags
                                  /\ recent_tag' = arrived'[Len(arrived')]
    <3>1. CASE tool = "merge"
      BY <1>1, <2>4, <3>1 DEF OnRecord
    <3>2. CASE tool = "split"
      BY <1>1, <3>2 DEF OnRecord, RegroupInv
    <3> QED BY <2>1, <3>1, <3>2
  <2>6. ASSUME Clean(arrived)'
        PROVE  /\ Faithful(blocks, by_tag, count, cap, recent_tag, recent_base, arrived)'
               /\ Grouped(emitted, arrived, pc, rc)'
    <3>1. Clean(Append(arrived, t))
      BY <2>1, <2>6 DEF Clean
    <3>2. Faithful(blocks', by_tag', count', cap', recent_tag', recent_base', Append(arrived, t))
      BY <1>1, <3>1, RecordFaithful
    <3>3. Grouped(Nothing, arrived', pc', rc')
      BY <2>1, NothingGrouped
    <3> QED BY <2>1, <2>3, <3>2, <3>3
  <2> QED BY <1>0, <2>1, <2>2, <2>3, <2>4, <2>5, <2>6 DEF RegroupInv
<1>2. CASE AbsorbFails \/ Write \/ WriteFails
  <2>1. /\ arrived' = arrived /\ tool' = tool /\ pc = "absorb" /\ pc' = "release"
        /\ count' = count /\ cap' = cap /\ recent_base' = recent_base
        /\ recent_tag' = recent_tag /\ blocks' = blocks /\ by_tag' = by_tag
    BY <1>2 DEF AbsorbFails, Write, WriteFails, Fails
  <2>2. Sizes(count, cap, arrived)'
    BY <2>1 DEF RegroupInv
  <2>3. ASSUME Clean(arrived)'
        PROVE  /\ Faithful(blocks, by_tag, count, cap, recent_tag, recent_base, arrived)'
               /\ Grouped(emitted, arrived, pc, rc)'
    <3>1. Clean(arrived)
      BY <2>1, <2>3 DEF Clean
    <3>2. Faithful(blocks, by_tag, count, cap, recent_tag, recent_base, arrived)'
      BY <2>1, <3>1 DEF RegroupInv
    <3>3. CASE AbsorbFails
      <4>1. emitted' = Nothing /\ rc' = "ERR"
        BY <3>3 DEF AbsorbFails, Fails, RegroupInv
      <4>2. Grouped(Nothing, arrived', pc', rc')
        BY <4>1, NothingGrouped
      <4> QED BY <3>2, <4>1, <4>2
    <3>4. CASE Write \/ WriteFails
      <4>1. Grouped(emitted', arrived, pc', rc')
        BY <3>1, <3>4, WriteGroups
      <4> QED BY <2>1, <3>2, <4>1
    <3> QED BY <1>2, <3>3, <3>4
  <2> QED BY <1>0, <2>1, <2>2, <2>3 DEF RegroupInv
<1>3. CASE Release
  <2>1. /\ arrived' = arrived /\ tool' = tool /\ pc = "release" /\ pc' = "done"
        /\ count' = count /\ cap' = cap /\ recent_base' = recent_base /\ rc' = rc
        /\ recent_tag' = recent_tag /\ by_tag' = by_tag /\ emitted' = emitted
    BY <1>3 DEF Release
  <2>2. Sizes(count, cap, arrived)'
    BY <2>1 DEF RegroupInv
  <2>3. ASSUME Clean(arrived)'
        PROVE  /\ Faithful(blocks, by_tag, count, cap, recent_tag, recent_base, arrived)'
               /\ Grouped(emitted, arrived, pc, rc)'
    <3>1. Clean(arrived)
      BY <2>1, <2>3 DEF Clean
    <3>2. Faithful(blocks', by_tag, count, cap, recent_tag, recent_base, arrived)
      BY <1>3, <3>1, ReleaseKeeps
    <3>3. Grouped(emitted, arrived, pc', rc)
      BY <2>1, <3>1 DEF RegroupInv, Grouped
    <3> QED BY <2>1, <3>2, <3>3
  <2> QED BY <1>0, <2>1, <2>2, <2>3 DEF RegroupInv
<1>4. CASE Done \/ UNCHANGED vars
  <2>1. UNCHANGED vars
    BY <1>4 DEF Done
  <2>2. /\ arrived' = arrived /\ tool' = tool /\ pc' = pc /\ blocks' = blocks
        /\ count' = count /\ cap' = cap /\ recent_base' = recent_base /\ rc' = rc
        /\ recent_tag' = recent_tag /\ by_tag' = by_tag /\ emitted' = emitted
    BY <2>1 DEF vars
  <2>3. Clean(arrived)' => Clean(arrived)
    BY <2>2 DEF Clean
  <2> QED BY <1>0, <2>2, <2>3 DEF RegroupInv
<1> QED BY <1>1, <1>2, <1>3, <1>4 DEF Next

(***************************************************************************)
(* dtl_split_file regroups its input by tag through all growth, and so     *)
(* does dtl_merge_files unless an array grows in the middle of a run; only *)
(* then can the cached base be a freed block.                              *)
(***************************************************************************)
THEOREM RegroupsByTag == Spec => []RegroupedUnlessGrownInRun
<1>1. Init => RegroupInv
  <2> SUFFICES ASSUME Init PROVE RegroupInv
    OBVIOUS
  <2>1. HeapInv
    BY InitHeap
  <2>2. arrived = <<>> /\ emitted = Nothing /\ recent_base = NoBlock /\ pc = "absorb"
        /\ (\A t \in Tags : cap[t] = 0 /\ count[t] = 0)
    BY DEF Init
  <2>3. \A t \in Tags : Occ(<<>>, Len(<<>>), t) = {}
    BY DEF Occ
  <2>4. Sizes(count, cap, arrived)
    BY <2>2, <2>3, FS_EmptySet DEF Sizes
  <2>5. Faithful(blocks, by_tag, count, cap, recent_tag, recent_base, arrived)
    BY <2>2 DEF Faithful
  <2>6. Grouped(emitted, arrived, pc, rc)
    BY <2>2, NothingGrouped
  <2> QED BY <2>1, <2>2, <2>4, <2>5, <2>6 DEF RegroupInv
<1>2. RegroupInv => RegroupedUnlessGrownInRun
  <2> SUFFICES ASSUME RegroupInv, ~(tool = "merge" /\ GrewInRun)
               PROVE  /\ RegroupedByTag
                      /\ recent_base # NoBlock /\ pc # "done" => blocks[recent_base].freed = 0
    BY DEF RegroupedUnlessGrownInRun
  <2>1. Clean(arrived)
    BY DEF RegroupInv, HeapInv, MergeType, Clean, GrewIn, GrewInRun, OfTag, Occ
  <2>2. Grouped(emitted, arrived, pc, rc)
    BY <2>1 DEF RegroupInv
  <2>3. RegroupedByTag
    BY <2>2 DEF Grouped, ListsIn, RegroupedByTag, Lists, OfTag, Occ
  <2>4. ASSUME recent_base # NoBlock, pc # "done" PROVE blocks[recent_base].freed = 0
    <3>1. recent_tag \in Tags /\ by_tag[recent_tag] = recent_base
      BY <2>1, <2>4 DEF RegroupInv, Faithful
    <3>2. InUse(recent_base, by_tag)
      BY <3>1 DEF InUse
    <3>3. recent_base \in 1 .. Len(blocks) /\ Counted(blocks, by_tag, tool)
      BY <2>4 DEF RegroupInv, HeapInv
    <3> QED BY <3>2, <3>3 DEF Counted
  <2> QED BY <2>3, <2>4
<1> QED BY <1>1, <1>2, RegroupStep, PTL DEF Spec
=============================================================================
