------------------------------ MODULE MCWriter -------------------------------
(***************************************************************************)
(* Two sections of up to eight bytes; a record of one byte, one that       *)
(* overflows the length field, the flawed ones, and batches.               *)
(***************************************************************************)
EXTENDS Writer

MCRecords == {[tag |-> "a", plen |-> 1, flaw |-> "none"],
              [tag |-> "b", plen |-> 5, flaw |-> "none"],
              [tag |-> "c", plen |-> 2, flaw |-> "long"],
              [tag |-> "x", plen |-> 0, flaw |-> "unknown"]}
=============================================================================
