-------------------------------- MODULE Merge --------------------------------
(***************************************************************************)
(* report/merge and report/split: records regrouped into one array per     *)
(* tag.  Merge keeps its arrays on the heap, frees the old one when an     *)
(* array grows, and caches the base of the array it wrote last; split      *)
(* takes its arrays from the arena and has no cache.                       *)
(*                                                                         *)
(* A block is [freed, slots]: freed counts the times it was given back,    *)
(* slots maps the positions written so far to records, and the rest of the *)
(* block is uninitialized.  A record is its number in order of arrival.    *)
(***************************************************************************)
EXTENDS Integers, Sequences, FiniteSets, Functions

CONSTANTS Tags,        \* record tags
          FirstCap,    \* 16: first capacity of an array
          MaxArrivals, \* bound on the records of all inputs
          Tools,       \* of "merge" and "split"
          NoBlock, NoTag

ASSUME MergeConstants ==
  /\ Tags \subseteq Nat /\ IsFiniteSet(Tags) /\ NoTag \notin Tags
  /\ FirstCap \in Nat \ {0} /\ Tools \subseteq {"merge", "split"}
  /\ NoBlock \notin Nat

VARIABLES tool, pc, blocks,
          by_tag,      \* tag -> its array, or NoBlock
          count, cap,
          recent_tag, recent_base,
          rc,          \* the outcome the tool returns
          arrived,     \* history: the tag of each record walked
          emitted      \* tag -> records of its section (split: of its file)

vars == <<tool, pc, blocks, by_tag, count, cap, recent_tag, recent_base,
          rc, arrived, emitted>>

Slots(n) == 0 .. n - 1

Nothing == [t \in {} |-> <<>>]

Init ==
  /\ tool \in Tools /\ pc = "absorb" /\ blocks = <<>>
  /\ by_tag = [t \in Tags |-> NoBlock]
  /\ count = [t \in Tags |-> 0] /\ cap = [t \in Tags |-> 0]
  /\ recent_tag = NoTag /\ recent_base = NoBlock /\ rc = "OK"
  /\ arrived = <<>> /\ emitted = Nothing

(* Block b given back n times more, and with record r written at a slot.    *)
Freed(b, n) == [freed |-> b.freed + n, slots |-> b.slots]

Written(b, at, r) ==
  [freed |-> b.freed,
   slots |-> [k \in DOMAIN b.slots \union {at} |-> IF k = at THEN r ELSE b.slots[k]]]

(***************************************************************************)
(* The blocks after the array of tag t made room for one more record.      *)
(***************************************************************************)
Full(t) == count[t] = cap[t]

NewCap(t) == IF cap[t] = 0 THEN FirstCap ELSE 2 * cap[t]

Copied(t) == IF count[t] = 0 THEN Nothing
             ELSE Restrict(blocks[by_tag[t]].slots,
                           Slots(count[t]) \intersect DOMAIN blocks[by_tag[t]].slots)

Outgrown(t) == IF tool = "merge" /\ by_tag[t] # NoBlock
               THEN [blocks EXCEPT ![by_tag[t]] = Freed(@, 1)] ELSE blocks

Roomy(t) == IF Full(t) THEN Append(Outgrown(t), [freed |-> 0, slots |-> Copied(t)])
            ELSE blocks

ArrayOf(t) == IF Full(t) THEN Len(blocks) + 1 ELSE by_tag[t]

(***************************************************************************)
(* dtl_merge_on_record and dtl_split_on_record.  Merge prefers the cached  *)
(* base when the previous record had the same tag.                         *)
(***************************************************************************)
MutBase(t) == IF tool = "merge" /\ recent_base # NoBlock THEN recent_base ELSE ArrayOf(t)

Base(t) == IF tool = "merge" /\ recent_tag = t /\ recent_base # NoBlock
           THEN recent_base ELSE ArrayOf(t)

OnRecord(t) ==
  /\ pc = "absorb" /\ Len(arrived) < MaxArrivals
  /\ arrived' = Append(arrived, t)
  /\ blocks' = [Roomy(t) EXCEPT ![Base(t)] = Written(@, count[t], Len(arrived) + 1)]
  /\ by_tag' = [by_tag EXCEPT ![t] = ArrayOf(t)]
  /\ cap' = [cap EXCEPT ![t] = IF Full(t) THEN NewCap(t) ELSE @]
  /\ count' = [count EXCEPT ![t] = @ + 1]
  /\ IF tool = "merge" THEN recent_tag' = t /\ recent_base' = Base(t)
     ELSE UNCHANGED <<recent_tag, recent_base>>
  /\ UNCHANGED <<tool, pc, rc, emitted>>

Fails == pc' = "release" /\ rc' = "ERR"

(***************************************************************************)
(* A walk fails, an array cannot grow, or merge fails to write its file.   *)
(* So does the setup of the tables, before any record: they share one slab *)
(* of the arena, so the release loop meets a cleared table or none.        *)
(***************************************************************************)
AbsorbFails ==
  /\ pc = "absorb" /\ Fails
  /\ UNCHANGED <<tool, blocks, by_tag, count, cap, recent_tag, recent_base,
                 arrived, emitted>>

(***************************************************************************)
(* One STORE section per tag present, in ascending order (split: one file  *)
(* each).  A slot never written holds whatever the memory held.            *)
(***************************************************************************)
Contents(t) ==
  [k \in 1 .. count[t] |->
     IF k - 1 \in DOMAIN blocks[by_tag[t]].slots THEN blocks[by_tag[t]].slots[k - 1] ELSE 0]

Present == {t \in Tags : count[t] > 0}

Write ==
  /\ pc = "absorb" /\ pc' = "release"
  /\ emitted' = [t \in Present |-> Contents(t)]
  /\ UNCHANGED <<tool, blocks, by_tag, count, cap, recent_tag, recent_base,
                 rc, arrived>>

(* Split writes one file per tag: those before a failing one stay.         *)
WriteFails ==
  /\ pc = "absorb" /\ tool = "split" /\ Fails
  /\ \E u \in Present : emitted' = [t \in {v \in Present : v < u} |-> Contents(t)]
  /\ UNCHANGED <<tool, blocks, by_tag, count, cap, recent_tag, recent_base, arrived>>

MutToFree == {t \in Tags : by_tag[t] # NoBlock /\ count[t] < cap[t]}

(* Tags whose array the release loop frees; split's go with the arena.     *)
ToFree == {t \in Tags : by_tag[t] # NoBlock}

Release ==
  /\ pc = "release" /\ pc' = "done"
  /\ blocks' = [b \in DOMAIN blocks |->
                  Freed(blocks[b], IF tool = "split" THEN 1
                                   ELSE Cardinality({t \in ToFree : by_tag[t] = b}))]
  /\ UNCHANGED <<tool, by_tag, count, cap, recent_tag, recent_base, rc, arrived, emitted>>

Done == pc = "done" /\ UNCHANGED vars

Next == \/ \E t \in Tags : OnRecord(t)
        \/ AbsorbFails \/ Write \/ WriteFails \/ Release \/ Done

Spec == Init /\ [][Next]_vars

-----------------------------------------------------------------------------

(***************************************************************************)
(* Every array is freed exactly once, through all growth and on every exit *)
(* of dtl_merge_files and dtl_split_file; until then it has one owner and  *)
(* holds no more records than it has room for.                             *)
(***************************************************************************)
FreedOnce ==
  /\ \A t \in Tags : count[t] <= cap[t] /\ (by_tag[t] \in DOMAIN blocks <=> cap[t] # 0)
  /\ \A t, u \in Tags : by_tag[t] = by_tag[u] /\ by_tag[t] \in DOMAIN blocks => t = u
  /\ \A b \in DOMAIN blocks : blocks[b].freed <= 1
  /\ pc # "done" => \A t \in Tags : by_tag[t] \in DOMAIN blocks => blocks[by_tag[t]].freed = 0
  /\ pc = "done" => \A b \in DOMAIN blocks : blocks[b].freed = 1

(* The records of tag t among the first n, in order of arrival.            *)
OfTag(n, t) == {k \in 1 .. n : arrived[k] = t}

Lists(recs, t) ==
  /\ Range(recs) = OfTag(Len(arrived), t)
  /\ \A j, k \in DOMAIN recs : j < k => recs[j] < recs[k]

(***************************************************************************)
(* merge.h and split.h: every record of the inputs is in the output, once, *)
(* under its tag and in its original relative order; what a failed split   *)
(* leaves behind are the whole files of the first tags.                    *)
(***************************************************************************)
RegroupedByTag ==
  /\ \A t \in DOMAIN emitted : Lists(emitted[t], t)
  /\ \A t \in Tags, u \in DOMAIN emitted :
       t < u /\ OfTag(Len(arrived), t) # {} => t \in DOMAIN emitted
  /\ pc # "absorb" /\ rc = "OK" =>
       \A t \in Tags : OfTag(Len(arrived), t) # {} => t \in DOMAIN emitted

(* The capacity of an array that grew e times.                             *)
Capacity[e \in Nat] == IF e = 0 THEN FirstCap ELSE 2 * Capacity[e - 1]

(* An array grew for a record whose predecessor has the same tag.          *)
GrewInRun ==
  \E k \in 2 .. Len(arrived) :
    /\ arrived[k] = arrived[k - 1]
    /\ \E e \in 0 .. k : Cardinality(OfTag(k - 1, arrived[k])) = Capacity[e]

(***************************************************************************)
(* dtl_split_file, which caches no base, is exact through all growth.      *)
(* dtl_merge_files is exact, and stays on live memory, unless an array     *)
(* grows in the middle of a run of one tag; growth between runs is safe,   *)
(* because the cached base then belongs to another tag.                    *)
(***************************************************************************)
RegroupedUnlessGrownInRun ==
  \/ tool = "merge" /\ GrewInRun
  \/ /\ RegroupedByTag
     /\ recent_base # NoBlock /\ pc # "done" => blocks[recent_base].freed = 0
=============================================================================
