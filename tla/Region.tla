------------------------------- MODULE Region -------------------------------
(***************************************************************************)
(* What core/arena.h promises of a region allocator, without its slabs,    *)
(* cursors and descriptor array: chunks that are handed out one at a time, *)
(* never overlap (and keep Gap bytes between each other), are aligned for  *)
(* any scalar, and all stop being valid together.  A chunk is a record     *)
(* [slab, off, len]: len bytes at offset off of the slab.                  *)
(***************************************************************************)
EXTENDS Integers

CONSTANTS Gap,      \* bytes kept free after every chunk
          Align     \* alignment of every chunk

VARIABLE live       \* the chunks callers may still use

(***************************************************************************)
(* Chunk p ends, with its gap, before chunk q begins.                      *)
(***************************************************************************)
Before(p, q) == p.off + p.len + Gap <= q.off

Apart(p, q) == p.slab = q.slab => Before(p, q) \/ Before(q, p)

Init == live = {}

Grant == \E r \in live' :
           /\ live' = live \cup {r}
           /\ r.len > 0
           /\ r.off % Align = 0
           /\ \A q \in live : Apart(r, q)

ReleaseAll == live' = {}

Next == Grant \/ ReleaseAll

Spec == Init /\ [][Next]_live
=============================================================================
