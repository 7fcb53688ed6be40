------------------------------- MODULE Writer --------------------------------
(***************************************************************************)
(* writer/writer: the DTL encoder.  A caller opens a section, adds records,*)
(* closes it, and finishes the container; every call may fail, the first   *)
(* failure is latched in err and turns all later calls into no-ops.        *)
(*                                                                         *)
(* A record is [tag, plen, flaw]: its tag, the payload bytes written for   *)
(* it, and what dtl_writer_payload finds wrong after writing them: "none", *)
(* "long" (a CONFIG key or value over 255 bytes) or "unknown" (no such     *)
(* tag).  The arena under the writer is reduced to whether it fails.       *)
(***************************************************************************)
EXTENDS Container

CONSTANTS Types,        \* section types a caller passes
          CodecIds,     \* codec ids a caller passes
          Records,      \* records and raw TLVs a caller adds
          Counts,       \* batch sizes a caller passes
          Keys,         \* HMAC keys
          MaxSections,  \* DTL_WRITER_MAX_SECTIONS
          TlvLenMax,    \* 0xFFFF
          MinTlvCap,    \* 64
          U32Max,       \* 0xFFFFFFFF
          OomMay,       \* BOOLEANs the arena's answer is drawn from
          NoSection     \* "none" of the abstract log

Flaws == {"none", "long", "unknown"}

ASSUME WriterConstants ==
  /\ {MaxSections, TlvLenMax, MinTlvCap, U32Max} \subseteq Nat \ {0}
  /\ OomMay \subseteq BOOLEAN
  /\ Codecs \subseteq {"store", "words", "pack", "dict"}
  /\ \A r \in Records : r.plen \in Nat /\ r.flaw \in Flaws /\ r.tag # "torn"
  /\ Counts \subseteq Nat /\ "none" \notin Keys

VARIABLES err,          \* dtl_writer.err
          in_section, cur_type, cur_codec,
          sections,     \* the closed sections, their blobs included
          tlv,          \* the TLVs in the accumulator
          tlv_len, tlv_cap,
          hmac_key,     \* the key set, or "none"
          out,          \* the container last emitted, or NoFile
          first,        \* history: the first error stored in err
          oom           \* history: an allocation has failed

vars == <<err, in_section, cur_type, cur_codec, sections, tlv, tlv_len, tlv_cap,
          hmac_key, out, first, oom>>
section == <<in_section, cur_type, cur_codec>>
buffer == <<tlv, tlv_len, tlv_cap>>

(* finish has not succeeded yet                                            *)
NoFile == [len |-> 0]

(* An item whose length field was never patched or whose payload is cut.   *)
Torn == [tag |-> "torn", plen |-> 0]

WriterInit ==
  /\ err = "OK" /\ first = "OK" /\ oom = FALSE
  /\ in_section = FALSE /\ cur_type = 0 /\ cur_codec = "store"
  /\ sections = <<>>
  /\ tlv = <<>> /\ tlv_len = 0 /\ tlv_cap = 0
  /\ hmac_key = "none"
  /\ out = NoFile

(***************************************************************************)
(* Storing e in err after f was the first error stored.                    *)
(***************************************************************************)
Latch(f, e) == first' = f /\ err' = e

Fails(e) == Latch(e, e)

NoError == UNCHANGED <<err, first, oom>>

-----------------------------------------------------------------------------

BeginTooMany ==
  /\ err = "OK" /\ ~in_section /\ Len(sections) >= MaxSections
  /\ Fails("RANGE")
  /\ UNCHANGED <<section, sections, buffer, hmac_key, out, oom>>

(***************************************************************************)
(* dtl_writer_begin_section: the accumulator is reused from its start.     *)
(***************************************************************************)
Begin(t, c) ==
  /\ err = "OK" /\ ~in_section /\ Len(sections) < MaxSections
  /\ in_section' = TRUE /\ cur_type' = t /\ cur_codec' = c
  /\ tlv' = <<>> /\ tlv_len' = 0
  /\ UNCHANGED <<tlv_cap, sections, hmac_key, out>> /\ NoError

MutWrongCall ==
  /\ Latch(IF first = "OK" THEN "INVAL" ELSE first, "INVAL")
  /\ UNCHANGED <<section, sections, buffer, hmac_key, out, oom>>

(***************************************************************************)
(* A call out of order: begin or finish inside a section, add or end       *)
(* outside one.  Begin looks at in_section before the section count.       *)
(***************************************************************************)
WrongCall ==
  /\ err = "OK"
  /\ Fails("INVAL")
  /\ UNCHANGED <<section, sections, buffer, hmac_key, out, oom>>

(***************************************************************************)
(* dtl_writer_reserve: the capacity doubled until it holds want bytes.     *)
(***************************************************************************)
Grown(cap, want) ==
  LET double[c \in Nat] == IF c >= want THEN c ELSE double[2 * c]
  IN  IF cap >= want THEN cap ELSE double[IF cap = 0 THEN MinTlvCap ELSE cap]

(***************************************************************************)
(* dtl_writer_emit_tlv inside a section: tag, length placeholder, payload, *)
(* then the length is patched.                                             *)
(***************************************************************************)
AddWhole(r) ==
  LET want == tlv_len + TlvHeader + r.plen IN
  /\ err = "OK" /\ in_section /\ r.flaw = "none" /\ r.plen <= TlvLenMax
  /\ tlv' = Append(tlv, [tag |-> r.tag, plen |-> r.plen])
  /\ tlv_len' = want /\ tlv_cap' = Grown(tlv_cap, want)
  /\ UNCHANGED <<section, sections, hmac_key, out>> /\ NoError

(***************************************************************************)
(* The same when the payload proves too long for the length field, or      *)
(* dtl_writer_payload finds a flaw: the item stays behind, unpatched.      *)
(***************************************************************************)
AddRejected(r) ==
  LET want == tlv_len + TlvHeader + r.plen IN
  /\ err = "OK" /\ in_section /\ (r.flaw # "none" \/ r.plen > TlvLenMax)
  /\ Fails(IF r.flaw = "unknown" THEN "BADRECORD" ELSE "RANGE")
  /\ tlv' = Append(tlv, Torn)
  /\ tlv_len' = want /\ tlv_cap' = Grown(tlv_cap, want)
  /\ UNCHANGED <<section, sections, hmac_key, out, oom>>

(***************************************************************************)
(* The same when the buffer must grow further than done bytes need and the *)
(* arena fails.  A flaw found later overwrites the latched OOM.            *)
(***************************************************************************)
MutAddOom(r, done) ==
  LET want == tlv_len + TlvHeader + r.plen IN
  /\ err = "OK" /\ in_section /\ want > tlv_cap
  /\ oom' = TRUE /\ UNCHANGED <<err, first>>
  /\ tlv' = Append(tlv, Torn) /\ tlv_len' = tlv_len + done /\ tlv_cap' = tlv_cap
  /\ UNCHANGED <<section, sections, hmac_key, out>>

AddOom(r, done) ==
  LET want == tlv_len + TlvHeader + r.plen
      last == CASE r.flaw = "none" -> "OOM"
                [] r.flaw = "long" -> "RANGE"
                [] r.flaw = "unknown" -> "BADRECORD"
  IN
  /\ err = "OK" /\ in_section /\ want > Grown(tlv_cap, tlv_len + done)
  /\ oom' = TRUE /\ Latch("OOM", last)
  /\ tlv' = Append(tlv, Torn)
  /\ tlv_len' = tlv_len + done /\ tlv_cap' = Grown(tlv_cap, tlv_len + done)
  /\ UNCHANGED <<section, sections, hmac_key, out>>

(***************************************************************************)
(* dtl_writer_add_u32_batch before it reaches emit_tlv: too many points,   *)
(* and a staging buffer the arena refuses.  It refuses zero bytes too.     *)
(***************************************************************************)
BatchTooMany(n) ==
  /\ err = "OK" /\ n > TlvLenMax \div 4
  /\ Fails("RANGE")
  /\ UNCHANGED <<section, sections, buffer, hmac_key, out, oom>>

BatchUnstaged(n) ==
  /\ err = "OK" /\ n <= TlvLenMax \div 4
  /\ n = 0 \/ TRUE \in OomMay
  /\ Fails("OOM") /\ oom' = (oom \/ n > 0)
  /\ UNCHANGED <<section, sections, buffer, hmac_key, out>>

Batch(n) == [tag |-> "batch", plen |-> 4 * n, flaw |-> "none"]

Items == Records \union {Batch(n) : n \in {k \in Counts : k > 0 /\ k <= TlvLenMax \div 4}}

(***************************************************************************)
(* The TLVs a caller can add, in a stream.                                 *)
(***************************************************************************)
Item == {[tag |-> r.tag, plen |-> r.plen] : r \in Items}

ASSUME LogAssumption == NoSection \notin [type : Types, stream : Seq(Item)]

-----------------------------------------------------------------------------

(***************************************************************************)
(* What an encoder makes of n bytes: the possible compressed lengths.  The *)
(* word codecs (varint, delta) take whole u32 words; rle, lz77, dict and   *)
(* base32 stay within twice the input.                                     *)
(***************************************************************************)
CompLens(codec, n) ==
  CASE codec = "store" -> {n}
    [] codec = "words" -> {n \div 4, n}
    [] codec = "pack" -> {1, n + 1}
    [] codec = "dict" -> {n}

(***************************************************************************)
(* Early returns of dtl_writer_end_section inside a section.  The retry    *)
(* loop ends in RANGE when a larger buffer does not help, as with a dict   *)
(* table that overflows its u16 ids.                                       *)
(***************************************************************************)
EndErrs ==
  IF tlv_len = 0 \/ tlv_len > MaxRaw THEN {"RANGE"}
  ELSE IF cur_codec \notin Codecs THEN {"BADRECORD"}
  ELSE {"OOM" : b \in OomMay \ {FALSE}}
       \union IF cur_codec = "words" /\ tlv_len % 4 # 0 THEN {"TRUNCATED"}
              ELSE IF cur_codec = "dict" THEN {"RANGE"} ELSE {}

EndFails ==
  /\ err = "OK" /\ in_section
  /\ \E e \in EndErrs : Fails(e) /\ oom' = (oom \/ e = "OOM")
  /\ UNCHANGED <<section, sections, buffer, hmac_key, out>>

(***************************************************************************)
(* dtl_writer_end_section succeeding.                                      *)
(***************************************************************************)
End ==
  /\ err = "OK" /\ in_section /\ cur_codec \in Codecs
  /\ tlv_len # 0 /\ tlv_len <= MaxRaw
  /\ cur_codec = "words" => tlv_len % 4 = 0
  /\ \E n \in CompLens(cur_codec, tlv_len) :
       sections' = Append(sections, [type |-> cur_type, codec_id |-> cur_codec,
                                     raw_len |-> tlv_len, comp_len |-> n,
                                     blob |-> Encode(cur_codec, tlv, n)])
  /\ in_section' = FALSE
  /\ UNCHANGED <<cur_type, cur_codec, buffer, hmac_key, out>> /\ NoError

SetHmac(k) ==
  /\ err = "OK"
  /\ hmac_key' = k
  /\ UNCHANGED <<section, sections, buffer, out>> /\ NoError

-----------------------------------------------------------------------------

BlobRegion == Total(CompLengths(sections))

(***************************************************************************)
(* The parts dtl_writer_finish lays out: the header and its CRC, the table *)
(* with cumulative offsets cast to 32 bits, the blobs, and the MAC over    *)
(* all before it.                                                          *)
(***************************************************************************)
EmittedHeader ==
  LET h == [magic |-> Magic, version |-> Version, count |-> Len(sections),
            flags |-> IF hmac_key = "none" THEN "none" ELSE "hmac"]
  IN  [magic |-> h.magic, version |-> h.version, flags |-> h.flags, count |-> h.count,
       crc |-> CrcOf(h)]

Offset(i) == Total(CompLengths(SubSeq(sections, 1, i - 1)))

EmittedTable ==
  [i \in DOMAIN sections |->
     [type |-> sections[i].type, codec_id |-> sections[i].codec_id, reserved |-> 0,
      raw_len |-> sections[i].raw_len, comp_len |-> sections[i].comp_len,
      offset |-> Offset(i) % (U32Max + 1)]]

EmittedBlobs == FlattenSeq([i \in DOMAIN sections |-> sections[i].blob])

MutEmittedMac ==
  IF hmac_key = "none" THEN <<>> ELSE Mac(hmac_key, EmittedHeader, <<>>, EmittedBlobs)

EmittedMac ==
  IF hmac_key = "none" THEN <<>>
  ELSE Mac(hmac_key, EmittedHeader, EmittedTable, EmittedBlobs)

Layout ==
  [header |-> EmittedHeader, table |-> EmittedTable, tail |-> EmittedBlobs \o EmittedMac,
   len |-> HeaderSize + EntrySize * Len(sections) + BlobRegion + Len(EmittedMac)]

FinishFails ==
  /\ err = "OK" /\ ~in_section
  /\ \/ BlobRegion > U32Max /\ Fails("RANGE") /\ oom' = oom
     \/ BlobRegion <= U32Max /\ TRUE \in OomMay /\ Fails("OOM") /\ oom' = TRUE
  /\ UNCHANGED <<section, sections, buffer, hmac_key, out>>

MutFinish ==
  /\ err = "OK" /\ ~in_section
  /\ out' = Layout
  /\ UNCHANGED <<section, sections, buffer, hmac_key>> /\ NoError

Finish ==
  /\ err = "OK" /\ ~in_section /\ BlobRegion <= U32Max
  /\ out' = Layout
  /\ UNCHANGED <<section, sections, buffer, hmac_key>> /\ NoError

(* Every public call on a writer with an error latched.                    *)
LatchedCall == err # "OK" /\ UNCHANGED vars

(* Bound: nothing is added to a section that is already over the cap.      *)
InBound == tlv_len <= MaxRaw

WriterNext ==
  \/ BeginTooMany \/ \E t \in Types, c \in CodecIds : Begin(t, c)
  \/ WrongCall
  \/ \E r \in Items : InBound /\ (AddWhole(r) \/ AddRejected(r))
  \/ \E r \in Items :
       \E done \in {0, 1} \union TlvHeader .. TlvHeader + r.plen - 1 :
         InBound /\ TRUE \in OomMay /\ AddOom(r, done)
  \/ \E n \in Counts : BatchTooMany(n) \/ BatchUnstaged(n)
  \/ EndFails \/ End
  \/ \E k \in Keys : SetHmac(k)
  \/ FinishFails \/ Finish
  \/ LatchedCall

WriterSpec == WriterInit /\ [][WriterNext]_vars

-----------------------------------------------------------------------------

(***************************************************************************)
(* The writer as a log.  The sections of a list of closed ones, the whole  *)
(* TLVs of an accumulator (an unfinished one is the last there will be),   *)
(* and what a strict reader decodes from a file, which is no section at    *)
(* all where it fails.                                                     *)
(***************************************************************************)
Streams(s) ==
  [i \in DOMAIN s |-> [type |-> s[i].type, stream |-> Decode(s[i].codec_id, s[i].blob)]]

Whole(t) == IF Torn \in Range(t) THEN Front(t) ELSE t

ReadOut(f) ==
  IF f = NoFile THEN NoSection ELSE IF Readable(f) THEN ReadBack(f) ELSE <<NoSection>>

Log == INSTANCE TelemetryLog WITH
  closed <- Streams(sections),
  open <- IF in_section THEN [type |-> cur_type, stream |-> Whole(tlv)] ELSE NoSection,
  published <- ReadOut(out),
  failed <- err # "OK"

(***************************************************************************)
(* writer.h's promise, over every sequence of calls and failures: the      *)
(* emitted bytes decode to the records added, section by section and in    *)
(* order; a failed call neither loses nor leaks a record into a container. *)
(***************************************************************************)
ImplementsLog == Log!LogSpec

Signed == out # NoFile /\ out.header.flags = "hmac"

SigningKey == Last(out.tail).key

(***************************************************************************)
(* dtl verify accepts what dtl_writer_finish signed, under the key it was  *)
(* signed with and under no other, whatever was set or added after.        *)
(***************************************************************************)
SignedVerifies ==
  Signed => \A k \in Keys : Verify(out, k) = IF k = SigningKey THEN "OK" ELSE "FAIL"

(***************************************************************************)
(* A container with one thing changed: a header field, with the CRC left   *)
(* as it was, changed alone or recomputed; a table field; two entries      *)
(* swapped; a byte behind the table; the length.  A section count one less *)
(* turns the last entry into the start of the blob region.                 *)
(***************************************************************************)
HeaderEdits(h) ==
  LET edited == {[h EXCEPT !.magic = "other"], [h EXCEPT !.version = Version + 1]}
                \union {[h EXCEPT !.flags = x] : x \in {"none", "hmac", "unknown"}}
  IN  edited \union UNION {{[h EXCEPT !.crc = CrcOf(g)], [g EXCEPT !.crc = CrcOf(g)]} : g \in edited}

EntryEdits(e) ==
  {[e EXCEPT !.type = t] : t \in Types \union {0}}
  \union {[e EXCEPT !.codec_id = c] : c \in CodecIds}
  \union {[e EXCEPT !.raw_len = n] : n \in {0, e.raw_len + 1, MaxRaw + 1}}
  \union {[e EXCEPT !.comp_len = n] : n \in {e.comp_len - 1, e.comp_len + 1}}
  \union {[e EXCEPT !.offset = n] : n \in {e.offset + 1, U32Max}}
  \union {[e EXCEPT !.reserved = 1]}

TableEdits(t) ==
  {Reverse(t)} \union UNION {{[t EXCEPT ![i] = e] : e \in EntryEdits(t[i])} : i \in DOMAIN t}

TailEdits(t) == {[t EXCEPT ![k] = t[k + 1]] : k \in 1 .. Len(t) - 1}

EntryBytes(e) == [k \in 1 .. EntrySize |-> [entry |-> e, k |-> k]]

CountEdit(f) ==
  LET h == [f.header EXCEPT !.count = @ - 1]
  IN  [f EXCEPT !.header = [h EXCEPT !.crc = CrcOf(h)], !.table = Front(@),
                !.tail = EntryBytes(Last(f.table)) \o @]

Damaged(f) ==
  {[f EXCEPT !.header = h] : h \in HeaderEdits(f.header)}
  \union {CountEdit(f) : i \in DOMAIN f.table}
  \union {[f EXCEPT !.table = t] : t \in TableEdits(f.table)}
  \union {[f EXCEPT !.tail = t] : t \in TailEdits(f.tail)}
  \union {[f EXCEPT !.len = @ + 1, !.tail = Append(@, b)] : b \in Range(f.tail)}

(* The HMAC flag cleared and the CRC recomputed.                           *)
Stripped(h) ==
  LET g == [h EXCEPT !.flags = "none"] IN [g EXCEPT !.crc = CrcOf(g)]

(***************************************************************************)
(* No loss and no single change passes for the original:                   *)
(* dtl_container_parse accepts no proper prefix of an emitted container,   *)
(* since the writer leaves no slack a lost tail could hide in; dtl verify  *)
(* never says OK to a signed one in which a field of the header or the     *)
(* table, a byte behind it or the length was changed, since the MAC covers *)
(* all of it; and the one such change it exits 0 on is a cleared HMAC flag *)
(* with a matching CRC, which it reports as no-hmac.                       *)
(***************************************************************************)
DamageFails ==
  /\ Signed => \A f \in Damaged(out) \ {out} :
       /\ Verify(f, SigningKey) # "OK"
       /\ VerifyExit(f, SigningKey) = 0 <=> f.header = Stripped(out.header)
  /\ out # NoFile => \A n \in 0 .. out.len - 1 : ParseErr([out EXCEPT !.len = n]) # "OK"

(***************************************************************************)
(* No failure is swallowed and none is blamed on something else: a failed  *)
(* allocation leaves an error; the error is the first one hit, but for a   *)
(* flaw dtl_writer_payload finds in the TLV whose bytes did not fit; and   *)
(* an OOM without a failed allocation, which an empty batch gets, tears no *)
(* TLV.                                                                    *)
(***************************************************************************)
FailuresSurface ==
  /\ oom => err # "OK"
  /\ err = "OK" <=> first = "OK"
  /\ err # first => oom /\ in_section /\ first = "OOM" /\ err \in {"RANGE", "BADRECORD"}
  /\ err = "OOM" /\ ~oom => Torn \notin Range(tlv)
=============================================================================
