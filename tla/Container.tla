------------------------------ MODULE Container ------------------------------
(***************************************************************************)
(* format/container: the DTL container as bytes on disk, what              *)
(* dtl_container_parse makes of them, and what dtl verify says of them.    *)
(*                                                                         *)
(* A file is [len, header, table, tail]: the number of bytes present, the  *)
(* 12-byte header and the 16-byte table entries as their fields, and the   *)
(* bytes behind the table (blob region and HMAC trailer) one cell each.    *)
(* len is smaller than the fields take up when the file was cut short.     *)
(* The CRC is modelled by the fields it covers: a CRC-32 tells apart any   *)
(* two 8-byte headers that differ in one field.  A blob byte is            *)
(* [codec, stream, k, n]: byte k of the n bytes that codec makes of the    *)
(* stream, so a blob decodes when its bytes are there in order.            *)
(***************************************************************************)
EXTENDS Integers, Sequences, FiniteSetsExt, SequencesExt, Sums

CONSTANTS HmacLen,   \* DTL_HMAC_LEN
          MaxRaw,    \* DTL_SECTION_MAX_RAW
          Codecs     \* ids dtl_codec_get knows

ASSUME ContainerConstants == HmacLen \in Nat \ {0} /\ MaxRaw \in Nat \ {0}

HeaderSize == 12
EntrySize == 16
TlvHeader == 3

Magic == "DTL1"
Version == 1
KnownFlags == {"none", "hmac"}

CrcOf(h) == [magic |-> h.magic, version |-> h.version, flags |-> h.flags, count |-> h.count]

(***************************************************************************)
(* The checks of dtl_container_parse, in the order of the code.  Each      *)
(* yields the error of its early return, or "OK".                          *)
(***************************************************************************)
HeaderErr(f) ==
  LET h == f.header IN
  IF f.len < 4 THEN "TRUNCATED"
  ELSE IF h.magic # Magic THEN "BADMAGIC"
  ELSE IF f.len < 5 THEN "TRUNCATED"
  ELSE IF h.version # Version THEN "BADVERSION"
  ELSE IF f.len < 6 THEN "TRUNCATED"
  ELSE IF h.flags \notin KnownFlags THEN "BADHEADER"
  ELSE IF f.len < HeaderSize THEN "TRUNCATED"
  ELSE IF h.crc # CrcOf(h) THEN "BADHEADER"
  ELSE "OK"

(***************************************************************************)
(* dtl_container_read_table: the reserved byte of an entry is the fourth,  *)
(* and is judged before the rest of the entry is read.                     *)
(***************************************************************************)
TableErr(f) ==
  LET start(i) == HeaderSize + EntrySize * (i - 1)
      reserved(i) == f.len >= start(i) + 4 /\ f.table[i].reserved # 0
      short(i) == f.len < start(i) + EntrySize
      wrong == {i \in 1 .. f.header.count : reserved(i) \/ short(i)}
  IN  IF wrong = {} THEN "OK"
      ELSE IF reserved(Min(wrong)) THEN "BADRECORD" ELSE "TRUNCATED"

TailLen(f) == f.len - HeaderSize - EntrySize * f.header.count

BlobLen(f) == IF f.header.flags = "hmac" THEN TailLen(f) - HmacLen ELSE TailLen(f)

CompLengths(t) == [i \in DOMAIN t |-> t[i].comp_len]

CompTotal(f) == Total(CompLengths(f.table))

(***************************************************************************)
(* dtl_container_resolve_blobs: the aggregate check, then each entry.      *)
(***************************************************************************)
BlobsErr(f) ==
  IF CompTotal(f) > BlobLen(f) THEN "RANGE"
  ELSE IF \E i \in 1 .. f.header.count :
            LET e == f.table[i] IN
              \/ e.raw_len = 0 \/ e.raw_len > MaxRaw
              \/ e.comp_len > BlobLen(f)
              \/ e.offset > BlobLen(f) - e.comp_len
       THEN "RANGE" ELSE "OK"

(***************************************************************************)
(* dtl_container_parse, with an arena that does not fail.                  *)
(***************************************************************************)
ParseErr(f) ==
  IF HeaderErr(f) # "OK" THEN HeaderErr(f)
  ELSE IF TableErr(f) # "OK" THEN TableErr(f)
  ELSE IF f.header.flags = "hmac" /\ TailLen(f) < HmacLen THEN "TRUNCATED"
  ELSE BlobsErr(f)

(***************************************************************************)
(* The blob of section i of an accepted file, and the MAC at its end.      *)
(***************************************************************************)
Blob(f, i) == SubSeq(f.tail, f.table[i].offset + 1, f.table[i].offset + f.table[i].comp_len)

Trailer(f) == SubSeq(f.tail, BlobLen(f) + 1, BlobLen(f) + HmacLen)

-----------------------------------------------------------------------------

(***************************************************************************)
(* A codec by its contract: decode inverts encode, and fails when the      *)
(* stream outgrows the raw_len bytes it is given room for, or the blob is  *)
(* not the start of an encoding.  A blob that was cut may decode to a part *)
(* of its stream and still report success, as store does, so Decodes says  *)
(* that the decoder can succeed.  A stream is a sequence of TLVs           *)
(* [tag, plen].                                                            *)
(***************************************************************************)
Encode(codec, stream, n) ==
  [k \in 1 .. n |-> [codec |-> codec, stream |-> stream, k |-> k, n |-> n]]

StreamLen(stream) == Total([i \in DOMAIN stream |-> TlvHeader + stream[i].plen])

Decodes(codec, blob, raw_len) ==
  blob = <<>> \/ /\ blob = SubSeq(Encode(codec, blob[1].stream, blob[1].n), 1, Len(blob))
                 /\ Len(blob) = blob[1].n => StreamLen(blob[1].stream) <= raw_len

Uncut(blob) == blob # <<>> /\ Len(blob) = blob[1].n

Decode(codec, blob) == blob[1].stream

(***************************************************************************)
(* dtl_hash_mac by its contract: another key or another message gives      *)
(* another MAC.                                                            *)
(***************************************************************************)
Mac(key, header, table, blobs) ==
  [k \in 1 .. HmacLen |-> [key |-> key, msg |-> <<header, table, blobs>>, k |-> k]]

MacOf(f, key) == Mac(key, f.header, f.table, SubSeq(f.tail, 1, BlobLen(f)))

MutVerify(f, key) ==
  IF ParseErr(f) # "OK" THEN "bad-container"
  ELSE IF f.header.flags # "hmac" THEN "no-hmac"
  ELSE IF key = "none" THEN "no-key"
  ELSE IF /\ Trailer(f)[1].key = key
          /\ f.header.count > 0 /\ f.table[1].codec_id \in Codecs
             => Decodes(f.table[1].codec_id, Blob(f, 1), f.table[1].raw_len)
       THEN "OK" ELSE "FAIL"

(***************************************************************************)
(* dtl_cli_verify: the MAC, and a decode of the first section if its codec *)
(* is known.                                                               *)
(***************************************************************************)
Verify(f, key) ==
  IF ParseErr(f) # "OK" THEN "bad-container"
  ELSE IF f.header.flags # "hmac" THEN "no-hmac"
  ELSE IF key = "none" THEN "no-key"
  ELSE IF /\ Trailer(f) = MacOf(f, key)
          /\ f.header.count > 0 /\ f.table[1].codec_id \in Codecs
             => Decodes(f.table[1].codec_id, Blob(f, 1), f.table[1].raw_len)
       THEN "OK" ELSE "FAIL"

(***************************************************************************)
(* dtl verify's exit code: an unsigned container passes.                   *)
(***************************************************************************)
VerifyExit(f, key) == IF Verify(f, key) \in {"OK", "no-hmac"} THEN 0 ELSE 1

(***************************************************************************)
(* What a strict reader (dtl decode) gets: the streams of all sections, if *)
(* each is there as a whole and decodes to exactly raw_len bytes.          *)
(***************************************************************************)
Readable(f) ==
  /\ ParseErr(f) = "OK"
  /\ \A i \in 1 .. f.header.count :
       LET e == f.table[i] IN
         /\ e.codec_id \in Codecs /\ Decodes(e.codec_id, Blob(f, i), e.raw_len)
         /\ Uncut(Blob(f, i))
         /\ StreamLen(Decode(e.codec_id, Blob(f, i))) = e.raw_len

ReadBack(f) ==
  [i \in 1 .. f.header.count |->
     [type |-> f.table[i].type, stream |-> Decode(f.table[i].codec_id, Blob(f, i))]]
=============================================================================
