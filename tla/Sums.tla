-------------------------------- MODULE Sums ---------------------------------
(***************************************************************************)
(* The sum the C code accumulates in a loop over an array of sizes: blob   *)
(* sizes of a pool, lengths of the TLVs of a stream, of the blobs of a     *)
(* container.  A recursive function, so that it can be reasoned about.     *)
(***************************************************************************)
EXTENDS Integers, Sequences

Total(s) ==
  LET sum[i \in 0 .. Len(s)] == IF i = 0 THEN 0 ELSE sum[i - 1] + s[i]
  IN  sum[Len(s)]
=============================================================================
