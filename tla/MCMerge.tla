------------------------------ MODULE MCMerge --------------------------------
(***************************************************************************)
(* Two tags, arrays that first hold two records, up to nine records.        *)
(***************************************************************************)
EXTENDS Merge
=============================================================================
