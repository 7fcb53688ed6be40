------------------------------ MODULE MCCodecs -------------------------------
(***************************************************************************)
(* Nibbles for bytes and words of two of them.  Inputs are all sequences   *)
(* of up to four bytes, and long ones over two byte values, for runs,      *)
(* matches and phrases at their limits.                                    *)
(***************************************************************************)
EXTENDS Codecs

AllCodecs == {"store", "rle", "varint", "delta", "lz77", "dict", "base32"}
Short == [bytes |-> 0 .. 15, max |-> 4]
Long == [bytes |-> {0, 9}, max |-> 11]
AllFeeds == {Short, Long}
FewFeeds == {[bytes |-> {0, 1, 2}, max |-> 4]}
=============================================================================
