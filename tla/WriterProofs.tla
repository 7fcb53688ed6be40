----------------------------- MODULE WriterProofs -----------------------------
(***************************************************************************)
(* The theorems of the encoder: over any sequence of calls, records, keys  *)
(* and failures of the arena, no failure is lost, and what finish emits is *)
(* the log of the records added.                                           *)
(***************************************************************************)
EXTENDS Writer, DataLemmas

(***************************************************************************)
(* A byte of a blob, and a closed section: its blob is a whole encoding of *)
(* a stream of raw_len bytes.                                              *)
(***************************************************************************)
Cell == [codec : Codecs, stream : Seq(Item), k : Nat, n : Nat]

Encoded(s, stream) == s.blob = Encode(s.codec_id, stream, s.comp_len)
                      /\ StreamLen(stream) = s.raw_len

Closed == {s \in [type : Types, codec_id : Codecs, raw_len : 1 .. MaxRaw,
                  comp_len : Nat \ {0}, blob : Seq(Cell)] :
             \E stream \in Seq(Item) : Encoded(s, stream)}

(***************************************************************************)
(* The writer's own bookkeeping.  Up to an error the accumulator holds     *)
(* whole TLVs only, and tlv_len is their length on the wire.               *)
(***************************************************************************)
WriterTypes ==
  /\ sections \in Seq(Closed)
  /\ in_section => cur_type \in Types
  /\ hmac_key \in Keys \cup {"none"}
  /\ err = "OK" => tlv \in Seq(Item) /\ tlv_len = StreamLen(tlv)
  /\ err = "OOM" /\ ~oom => tlv \in Seq(Item)

WriterInv == WriterTypes /\ FailuresSurface

-----------------------------------------------------------------------------

(***************************************************************************)
(* The items a caller adds are whole TLVs of the wire.                     *)
(***************************************************************************)
LEMMA ItemTypes ==
  /\ \A r \in Items : /\ r.plen \in Nat /\ r.flaw \in Flaws /\ r.tag # "torn"
                      /\ [tag |-> r.tag, plen |-> r.plen] \in Item
  /\ Torn \notin Item
  /\ \A x \in Item : x.plen \in Nat
<1>1. ASSUME NEW n \in Nat
      PROVE  Batch(n).plen \in Nat /\ Batch(n).flaw \in Flaws /\ Batch(n).tag # "torn"
  BY DEF Batch, Flaws
<1>2. \A r \in Items : r.plen \in Nat /\ r.flaw \in Flaws /\ r.tag # "torn"
  BY <1>1, WriterConstants DEF Items
<1>3. \A r \in Items : [tag |-> r.tag, plen |-> r.plen] \in Item
  BY DEF Item
<1>4. ASSUME NEW r \in Items
      PROVE  [tag |-> r.tag, plen |-> r.plen] # Torn
  <2>1. Torn.tag = "torn" /\ [tag |-> r.tag, plen |-> r.plen].tag = r.tag
    BY DEF Torn
  <2> QED BY <1>2, <2>1
<1>5. \A x \in Item : \E r \in Items : x = [tag |-> r.tag, plen |-> r.plen]
  BY DEF Item
<1>6. \A x \in Item : x.plen \in Nat
  BY <1>2, <1>5
<1> QED BY <1>2, <1>3, <1>4, <1>5, <1>6

(***************************************************************************)
(* The length of a stream on the wire.                                     *)
(***************************************************************************)
LEMMA StreamLenTypes ==
  /\ StreamLen(<<>>) = 0
  /\ \A s \in Seq(Item) : StreamLen(s) \in Nat
<1>1. ASSUME NEW s \in Seq(Item)
      PROVE  [i \in DOMAIN s |-> TlvHeader + s[i].plen] \in Seq(Nat)
  BY ItemTypes DEF TlvHeader
<1>2. \A s \in Seq(Item) : StreamLen(s) \in Nat
  BY <1>1, TotalNat DEF StreamLen
<1>3. [i \in DOMAIN <<>> |-> TlvHeader + <<>>[i].plen] = <<>>
  OBVIOUS
<1>4. StreamLen(<<>>) = 0
  BY <1>3, TotalEmpty DEF StreamLen
<1> QED BY <1>2, <1>4

(***************************************************************************)
(* One TLV more.                                                           *)
(***************************************************************************)
LEMMA StreamLenAppend ==
  ASSUME NEW s \in Seq(Item), NEW x \in Item
  PROVE  StreamLen(Append(s, x)) = StreamLen(s) + TlvHeader + x.plen
<1> DEFINE lens(t) == [i \in DOMAIN t |-> TlvHeader + t[i].plen]
<1>1. x.plen \in Nat /\ \A i \in DOMAIN s : s[i].plen \in Nat
  BY ItemTypes
<1>2. lens(s) \in Seq(Nat) /\ TlvHeader + x.plen \in Nat
  BY <1>1 DEF TlvHeader
<1>3. lens(Append(s, x)) = Append(lens(s), TlvHeader + x.plen)
  <2>1. Len(s) \in Nat /\ DOMAIN s = 1 .. Len(s) /\ DOMAIN Append(s, x) = 1 .. Len(s) + 1
    OBVIOUS
  <2>2. Len(lens(s)) = Len(s) /\ DOMAIN lens(s) = 1 .. Len(s)
    BY <2>1
  <2>3. Append(lens(s), TlvHeader + x.plen) \in Seq(Nat)
        /\ DOMAIN Append(lens(s), TlvHeader + x.plen) = 1 .. Len(s) + 1
    BY <1>2, <2>2, AppendProperties
  <2>4. ASSUME NEW i \in 1 .. Len(s) + 1
        PROVE  TlvHeader + Append(s, x)[i].plen = Append(lens(s), TlvHeader + x.plen)[i]
    <3>1. CASE i \in 1 .. Len(s)
      <4>1. Append(s, x)[i] = s[i] /\ Append(lens(s), TlvHeader + x.plen)[i] = lens(s)[i]
        BY <1>2, <2>2, <3>1, AppendProperties
      <4> QED BY <2>1, <3>1, <4>1
    <3>2. CASE i = Len(s) + 1
      BY <1>2, <2>2, <3>2, AppendProperties
    <3> QED BY <2>1, <3>1, <3>2
  <2> HIDE DEF lens
  <2>5. lens(Append(s, x)) = [i \in 1 .. Len(s) + 1 |-> TlvHeader + Append(s, x)[i].plen]
    BY <2>1 DEF lens
  <2> QED BY <2>3, <2>4, <2>5
<1>4. Total(Append(lens(s), TlvHeader + x.plen)) = Total(lens(s)) + (TlvHeader + x.plen)
  BY <1>2, TotalAppend
<1>5. Total(lens(s)) \in Nat
  BY <1>2, TotalNat
<1>6. StreamLen(Append(s, x)) = StreamLen(s) + (TlvHeader + x.plen) /\ StreamLen(s) \in Nat
  BY <1>3, <1>4, <1>5 DEF StreamLen
<1>7. \A a, b \in Nat : a + (TlvHeader + b) = a + TlvHeader + b
  BY DEF TlvHeader
<1>8. StreamLen(s) + (TlvHeader + x.plen) = StreamLen(s) + TlvHeader + x.plen
  BY <1>1, <1>6, <1>7
<1> QED BY <1>6, <1>8, Zenon

-----------------------------------------------------------------------------

(***************************************************************************)
(* Nothing is written yet.                                                 *)
(***************************************************************************)
LEMMA WriterInitInv == WriterInit => WriterInv
<1> SUFFICES ASSUME WriterInit PROVE WriterInv
  OBVIOUS
<1>1. <<>> \in Seq(Item) /\ <<>> \in Seq(Closed) /\ StreamLen(<<>>) = 0
  BY StreamLenTypes
<1>2. WriterTypes
  BY <1>1 DEF WriterInit, WriterTypes
<1>3. FailuresSurface
  BY DEF WriterInit, FailuresSurface
<1> QED BY <1>2, <1>3 DEF WriterInv

(***************************************************************************)
(* A call that fails without touching the accumulator.                     *)
(***************************************************************************)
LEMMA FailStep ==
  ASSUME WriterInv, NEW e, e # "OK", err = "OK", Fails(e),
         UNCHANGED <<section, sections, buffer, hmac_key>>, oom' => e # "OK"
  PROVE  WriterInv'
<1>1. err' = e /\ first' = e /\ tlv' = tlv /\ sections' = sections /\ hmac_key' = hmac_key
      /\ in_section' = in_section /\ cur_type' = cur_type
  BY DEF Fails, Latch, section, buffer
<1>2. tlv \in Seq(Item)
  BY DEF WriterInv, WriterTypes
<1>3. Torn \notin Range(tlv)
  BY <1>2, ItemTypes DEF Range
<1>4. WriterTypes'
  BY <1>1, <1>2 DEF WriterInv, WriterTypes
<1>5. FailuresSurface'
  BY <1>1, <1>3 DEF FailuresSurface
<1> QED BY <1>4, <1>5 DEF WriterInv

(***************************************************************************)
(* A torn TLV stays in the accumulator, and so does an error that tells.   *)
(***************************************************************************)
LEMMA TornStep ==
  ASSUME WriterInv, NEW f, NEW e, Latch(f, e), f # "OK", e # "OK",
         UNCHANGED <<section, sections, hmac_key>>, in_section,
         \/ f = e /\ e # "OOM"
         \/ oom' /\ f = "OOM" /\ e \in {"OOM", "RANGE", "BADRECORD"}
  PROVE  WriterInv'
<1>1. err' = e /\ first' = f /\ sections' = sections /\ hmac_key' = hmac_key
      /\ in_section' = in_section /\ cur_type' = cur_type
  BY DEF Latch, section
<1>2. WriterTypes'
  BY <1>1 DEF WriterInv, WriterTypes
<1>3. FailuresSurface'
  BY <1>1 DEF FailuresSurface
<1> QED BY <1>2, <1>3 DEF WriterInv

(***************************************************************************)
(* A call that succeeds leaves err, first and oom alone.                   *)
(***************************************************************************)
LEMMA QuietStep ==
  ASSUME WriterInv, err = "OK", NoError, WriterTypes'
  PROVE  WriterInv'
<1>1. FailuresSurface'
  BY DEF NoError, FailuresSurface, WriterInv
<1> QED BY <1>1 DEF WriterInv

(***************************************************************************)
(* The compressed length of a section that is not empty is not zero.       *)
(***************************************************************************)
LEMMA CompLensTypes ==
  ASSUME NEW codec \in Codecs, NEW len \in Nat \ {0}, codec = "words" => len % 4 = 0,
         NEW n \in CompLens(codec, len)
  PROVE  n \in Nat \ {0}
<1>1. codec \in {"store", "words", "pack", "dict"}
  BY WriterConstants
<1>2. CASE codec = "words"
  <2>1. len \div 4 \in Nat \ {0}
    BY <1>2
  <2> QED BY <1>2, <2>1 DEF CompLens
<1>3. CASE codec # "words"
  BY <1>1, <1>3 DEF CompLens
<1> QED BY <1>2, <1>3

(***************************************************************************)
(* The section dtl_writer_end_section closes.                              *)
(***************************************************************************)
LEMMA EndCloses ==
  ASSUME WriterInv, End
  PROVE  \E n \in Nat \ {0} :
           LET s == [type |-> cur_type, codec_id |-> cur_codec, raw_len |-> tlv_len,
                     comp_len |-> n, blob |-> Encode(cur_codec, tlv, n)]
           IN  s \in Closed /\ sections' = Append(sections, s)
<1>1. PICK n \in CompLens(cur_codec, tlv_len) :
        sections' = Append(sections, [type |-> cur_type, codec_id |-> cur_codec,
                                      raw_len |-> tlv_len, comp_len |-> n,
                                      blob |-> Encode(cur_codec, tlv, n)])
  BY DEF End
<1>2. /\ tlv \in Seq(Item) /\ tlv_len = StreamLen(tlv) /\ cur_type \in Types
      /\ cur_codec \in Codecs /\ tlv_len \in 1 .. MaxRaw
  <2>1. /\ tlv \in Seq(Item) /\ tlv_len = StreamLen(tlv) /\ cur_type \in Types
        /\ cur_codec \in Codecs /\ tlv_len # 0 /\ tlv_len <= MaxRaw
    BY DEF WriterInv, WriterTypes, End
  <2>2. StreamLen(tlv) \in Nat /\ MaxRaw \in Nat
    BY <2>1, StreamLenTypes, ContainerConstants
  <2> QED BY <2>1, <2>2
<1>3. n \in Nat \ {0}
  <2>1. tlv_len \in Nat \ {0} /\ (cur_codec = "words" => tlv_len % 4 = 0)
    BY <1>2 DEF End
  <2> QED BY <1>2, <2>1, CompLensTypes
<1> DEFINE blob == Encode(cur_codec, tlv, n)
           s == [type |-> cur_type, codec_id |-> cur_codec, raw_len |-> tlv_len,
                 comp_len |-> n, blob |-> blob]
<1>4. blob \in Seq(Cell)
  <2>1. \A k \in 1 .. n : [codec |-> cur_codec, stream |-> tlv, k |-> k, n |-> n] \in Cell
    BY <1>2, <1>3 DEF Cell
  <2> QED BY <1>3, <2>1 DEF Encode
<1>5. blob = Encode(cur_codec, tlv, n)
  OBVIOUS
<1> HIDE DEF blob
<1>6. s \in [type : Types, codec_id : Codecs, raw_len : 1 .. MaxRaw,
             comp_len : Nat \ {0}, blob : Seq(Cell)]
  BY <1>2, <1>3, <1>4
<1>7. Encoded(s, tlv)
  BY <1>2, <1>5 DEF Encoded
<1>8. s \in Closed
  <2> HIDE DEF s
  <2> QED BY <1>2, <1>6, <1>7 DEF Closed
<1> QED BY <1>1, <1>3, <1>5, <1>8

(***************************************************************************)
(* An item is added whole.                                                 *)
(***************************************************************************)
LEMMA AddWholeStep ==
  ASSUME WriterInv, NEW r \in Items, AddWhole(r)
  PROVE  WriterInv'
<1> DEFINE x == [tag |-> r.tag, plen |-> r.plen]
<1>1. x \in Item /\ x.plen = r.plen
  BY ItemTypes
<1>2. /\ err = "OK" /\ tlv' = Append(tlv, x) /\ tlv_len' = tlv_len + TlvHeader + r.plen
      /\ sections' = sections /\ hmac_key' = hmac_key /\ NoError
      /\ in_section' = in_section /\ cur_type' = cur_type
  BY DEF AddWhole, section
<1>3. tlv \in Seq(Item) /\ tlv_len = StreamLen(tlv)
  BY <1>2 DEF WriterInv, WriterTypes
<1> HIDE DEF x
<1>4. tlv' \in Seq(Item)
  BY <1>1, <1>2, <1>3
<1>5. tlv_len' = StreamLen(tlv')
  BY <1>1, <1>2, <1>3, StreamLenAppend
<1>6. WriterTypes'
  BY <1>2, <1>4, <1>5 DEF WriterInv, WriterTypes
<1> QED BY <1>2, <1>6, QuietStep

(***************************************************************************)
(* Every call preserves the invariant.                                     *)
(***************************************************************************)
LEMMA WriterStep ==
  ASSUME WriterInv, [WriterNext]_vars
  PROVE  WriterInv'
<1>1. CASE BeginTooMany \/ WrongCall
  <2>1. \E e \in {"RANGE", "INVAL"} :
          /\ err = "OK" /\ Fails(e) /\ UNCHANGED <<section, sections, buffer, hmac_key>>
          /\ oom' = oom
    BY <1>1 DEF BeginTooMany, WrongCall
  <2> QED BY <2>1, FailStep
<1>2. ASSUME NEW t \in Types, NEW c \in CodecIds, Begin(t, c) PROVE WriterInv'
  <2>1. <<>> \in Seq(Item) /\ StreamLen(<<>>) = 0
    BY StreamLenTypes
  <2>2. WriterTypes'
    BY <1>2, <2>1 DEF Begin, WriterInv, WriterTypes
  <2> QED BY <1>2, <2>2, QuietStep DEF Begin
<1>3. ASSUME NEW r \in Items, AddWhole(r) \/ AddRejected(r) PROVE WriterInv'
  <2>1. CASE AddRejected(r)
    <3>1. \E e \in {"RANGE", "BADRECORD"} :
            Latch(e, e) /\ in_section /\ UNCHANGED <<section, sections, hmac_key>>
      BY <2>1 DEF AddRejected, Fails
    <3> QED BY <3>1, TornStep
  <2> QED BY <1>3, <2>1, AddWholeStep
<1>4. ASSUME NEW r \in Items, NEW done, AddOom(r, done) PROVE WriterInv'
  <2>1. r.flaw \in {"none", "long", "unknown"}
    BY ItemTypes DEF Flaws
  <2>2. \E e \in {"OOM", "RANGE", "BADRECORD"} :
          Latch("OOM", e) /\ in_section /\ oom' /\ UNCHANGED <<section, sections, hmac_key>>
    BY <1>4, <2>1 DEF AddOom
  <2> QED BY <2>2, TornStep
<1>5. ASSUME NEW n \in Counts, BatchTooMany(n) \/ BatchUnstaged(n) PROVE WriterInv'
  <2>1. \E e \in {"RANGE", "OOM"} :
          err = "OK" /\ Fails(e) /\ UNCHANGED <<section, sections, buffer, hmac_key>>
    BY <1>5 DEF BatchTooMany, BatchUnstaged
  <2> QED BY <2>1, FailStep
<1>6. CASE EndFails \/ FinishFails
  <2>1. \A e \in EndErrs : e # "OK"
    BY DEF EndErrs
  <2>2. \E e : /\ e # "OK" /\ err = "OK" /\ Fails(e)
               /\ UNCHANGED <<section, sections, buffer, hmac_key>>
    BY <1>6, <2>1 DEF EndFails, FinishFails
  <2> QED BY <2>2, FailStep
<1>7. CASE End
  <2>1. PICK s \in Closed : sections' = Append(sections, s)
    BY <1>7, EndCloses
  <2>2. sections \in Seq(Closed)
    BY DEF WriterInv, WriterTypes
  <2>3. sections' \in Seq(Closed)
    BY <2>1, <2>2
  <2>4. WriterTypes'
    BY <1>7, <2>3 DEF End, buffer, NoError, WriterInv, WriterTypes
  <2> QED BY <1>7, <2>4, QuietStep DEF End
<1>8. ASSUME NEW k \in Keys, SetHmac(k) PROVE WriterInv'
  <2>1. WriterTypes'
    BY <1>8 DEF SetHmac, buffer, section, NoError, WriterInv, WriterTypes
  <2> QED BY <1>8, <2>1, QuietStep DEF SetHmac
<1>9. CASE Finish
  <2>1. WriterTypes'
    BY <1>9 DEF Finish, buffer, section, NoError, WriterInv, WriterTypes
  <2> QED BY <1>9, <2>1, QuietStep DEF Finish
<1>10. CASE LatchedCall \/ UNCHANGED vars
  <2>1. UNCHANGED vars
    BY <1>10 DEF LatchedCall
  <2>2. WriterTypes'
    BY <2>1 DEF vars, WriterInv, WriterTypes
  <2>3. FailuresSurface'
    BY <2>1 DEF vars, WriterInv, FailuresSurface
  <2> QED BY <2>2, <2>3 DEF WriterInv
<1> QED BY <1>1, <1>2, <1>3, <1>4, <1>5, <1>6, <1>7, <1>8, <1>9, <1>10 DEF WriterNext

(***************************************************************************)
(* The bookkeeping of the writer is right after every sequence of calls.   *)
(***************************************************************************)
LEMMA WriterInductive == WriterSpec => []WriterInv
BY WriterInitInv, WriterStep, PTL DEF WriterSpec

(***************************************************************************)
(* No failure of the arena is swallowed, and none is reported as anything  *)
(* else, except a flaw found in the very TLV that did not fit.             *)
(***************************************************************************)
THEOREM NoFailureLost == WriterSpec => []FailuresSurface
<1>1. WriterInv => FailuresSurface
  BY DEF WriterInv
<1> QED BY <1>1, WriterInductive, PTL

-----------------------------------------------------------------------------
(***************************************************************************)
(* What dtl_writer_finish lays out.                                        *)
(***************************************************************************)
BlobsOf == [i \in DOMAIN sections |-> sections[i].blob]

(***************************************************************************)
(* A closed section and the blob that encodes it.                          *)
(***************************************************************************)
LEMMA ClosedTypes ==
  ASSUME NEW s \in Closed
  PROVE  /\ s.type \in Types /\ s.codec_id \in Codecs /\ s.raw_len \in 1 .. MaxRaw
         /\ s.comp_len \in Nat /\ s.comp_len > 0 /\ s.blob \in Seq(Cell)
         /\ Len(s.blob) = s.comp_len
         /\ \E stream \in Seq(Item) : Encoded(s, stream)
<1>1. /\ s \in [type : Types, codec_id : Codecs, raw_len : 1 .. MaxRaw,
                comp_len : Nat \ {0}, blob : Seq(Cell)]
      /\ \E stream \in Seq(Item) : Encoded(s, stream)
  BY DEF Closed
<1>2. /\ s.type \in Types /\ s.codec_id \in Codecs /\ s.raw_len \in 1 .. MaxRaw
      /\ s.comp_len \in Nat /\ s.comp_len > 0 /\ s.blob \in Seq(Cell)
  BY <1>1
<1>3. PICK stream \in Seq(Item) : Encoded(s, stream)
  BY <1>1
<1>4. s.blob = [k \in 1 .. s.comp_len |->
                  [codec |-> s.codec_id, stream |-> stream, k |-> k, n |-> s.comp_len]]
  BY <1>3 DEF Encoded, Encode
<1>5. Len(s.blob) = s.comp_len
  BY <1>2, <1>4
<1> QED BY <1>1, <1>2, <1>5

(***************************************************************************)
(* The closed sections, one by one.                                        *)
(***************************************************************************)
LEMMA SectionTypes ==
  ASSUME WriterInv
  PROVE  /\ Len(sections) \in Nat /\ DOMAIN sections = 1 .. Len(sections)
         /\ \A i \in 1 .. Len(sections) : sections[i] \in Closed
         /\ BlobsOf \in Seq(Seq(Cell)) /\ Len(BlobsOf) = Len(sections)
         /\ \A i \in 1 .. Len(sections) : BlobsOf[i] = sections[i].blob
<1>1. sections \in Seq(Closed)
  BY DEF WriterInv, WriterTypes
<1>2. /\ Len(sections) \in Nat /\ DOMAIN sections = 1 .. Len(sections)
      /\ \A i \in 1 .. Len(sections) : sections[i] \in Closed
  BY <1>1
<1>3. \A i \in 1 .. Len(sections) : sections[i].blob \in Seq(Cell)
  BY <1>2, ClosedTypes
<1> QED BY <1>2, <1>3 DEF BlobsOf

(***************************************************************************)
(* The cumulative offsets of the table are where the blobs begin.          *)
(***************************************************************************)
LEMMA OffsetsAhead ==
  ASSUME WriterInv
  PROVE  /\ \A i \in 1 .. Len(sections) : Offset(i) = Ahead(BlobsOf, i - 1)
         /\ BlobRegion = Ahead(BlobsOf, Len(sections))
         /\ BlobRegion = Len(EmittedBlobs) /\ BlobRegion \in Nat
         /\ EmittedBlobs \in Seq(Cell)
<1> DEFINE n == Len(sections)
<1>1. /\ n \in Nat /\ DOMAIN sections = 1 .. n /\ \A i \in 1 .. n : sections[i] \in Closed
      /\ BlobsOf \in Seq(Seq(Cell)) /\ Len(BlobsOf) = n
      /\ \A i \in 1 .. n : BlobsOf[i] = sections[i].blob
  BY SectionTypes
<1>2. sections \in Seq(Closed)
  BY DEF WriterInv, WriterTypes
<1>3. \A i \in 1 .. n : Len(BlobsOf[i]) = sections[i].comp_len
  BY <1>1, ClosedTypes
<1>4. ASSUME NEW i \in 1 .. n PROVE Offset(i) = Ahead(BlobsOf, i - 1)
  <2> DEFINE p == SubSeq(sections, 1, i - 1)
  <2>1. /\ DOMAIN p = 1 .. i - 1
        /\ \A j \in 1 .. i - 1 : p[j] = sections[j] /\ j \in 1 .. n
    BY <1>1, <1>2
  <2> HIDE DEF p
  <2>2. CompLengths(p) = [j \in 1 .. i - 1 |-> Len(BlobsOf[j])]
    BY <1>3, <2>1 DEF CompLengths
  <2>3. Offset(i) = Total(CompLengths(p))
    BY DEF Offset, p
  <2> QED BY <2>2, <2>3 DEF Ahead
<1>5. BlobRegion = Ahead(BlobsOf, n)
  <2>1. CompLengths(sections) = [j \in 1 .. n |-> Len(BlobsOf[j])]
    BY <1>1, <1>3 DEF CompLengths
  <2> QED BY <2>1 DEF BlobRegion, Ahead
<1>6. EmittedBlobs = FlattenSeq(BlobsOf)
  BY DEF EmittedBlobs, BlobsOf
<1>7. EmittedBlobs \in Seq(Cell) /\ Len(EmittedBlobs) = Ahead(BlobsOf, n)
  BY <1>1, <1>6, FlattenPlaces
<1>8. Len(EmittedBlobs) \in Nat
  BY <1>7
<1> QED BY <1>4, <1>5, <1>7, <1>8

(***************************************************************************)
(* Every entry of the table lies inside the blob region, and the blob      *)
(* region holds its blob there.                                            *)
(***************************************************************************)
LEMMA BlobPlaced ==
  ASSUME WriterInv, NEW i \in 1 .. Len(sections)
  PROVE  /\ Offset(i) \in Nat /\ Offset(i) + sections[i].comp_len <= BlobRegion
         /\ \A j \in 1 .. sections[i].comp_len :
              EmittedBlobs[Offset(i) + j] = sections[i].blob[j]
<1> DEFINE n == Len(sections)
<1>1. /\ n \in Nat /\ \A k \in 1 .. n : sections[k] \in Closed
      /\ BlobsOf \in Seq(Seq(Cell)) /\ Len(BlobsOf) = n
      /\ \A k \in 1 .. n : BlobsOf[k] = sections[k].blob
  BY SectionTypes
<1>2. PICK k \in 0 .. n - 1 : k + 1 = i /\ k = i - 1
  BY <1>1
<1>3. Len(BlobsOf[k + 1]) = sections[i].comp_len /\ sections[i].comp_len \in Nat
      /\ BlobsOf[k + 1] = sections[i].blob
  BY <1>1, <1>2, ClosedTypes
<1>4. Offset(i) = Ahead(BlobsOf, k)
  BY <1>2, OffsetsAhead
<1>5. Ahead(BlobsOf, k + 1) = Ahead(BlobsOf, k) + sections[i].comp_len /\ Ahead(BlobsOf, k) \in Nat
  BY <1>1, <1>2, <1>3, AheadNext
<1>6. Ahead(BlobsOf, k + 1) <= Ahead(BlobsOf, n)
  BY <1>1, <1>2, AheadGrows
<1>7. \A j \in 1 .. sections[i].comp_len :
        FlattenSeq(BlobsOf)[Ahead(BlobsOf, k) + j] = sections[i].blob[j]
  BY <1>1, <1>2, <1>3, FlattenPlaces
<1>8. EmittedBlobs = FlattenSeq(BlobsOf) /\ BlobRegion = Ahead(BlobsOf, n)
  BY OffsetsAhead DEF EmittedBlobs, BlobsOf
<1> QED BY <1>4, <1>5, <1>6, <1>7, <1>8

(***************************************************************************)
(* A file as finish lays it out: blobs is its blob region, key the key it  *)
(* is signed with or "none".  It says nothing of the writer's state, which *)
(* goes on changing while the file stays.                                  *)
(***************************************************************************)
Entry == [type : Types, codec_id : Codecs, reserved : {0}, raw_len : 1 .. MaxRaw,
          comp_len : Nat, offset : Nat]

MacBytes(f, blobs, key) == IF key = "none" THEN <<>> ELSE Mac(key, f.header, f.table, blobs)

BlobAt(blobs, e) == SubSeq(blobs, e.offset + 1, e.offset + e.comp_len)

HeaderShape(f, key) ==
  /\ f.header = [magic |-> f.header.magic, version |-> f.header.version,
                 flags |-> f.header.flags, count |-> f.header.count, crc |-> f.header.crc]
  /\ f.header.magic = Magic /\ f.header.version = Version
  /\ f.header.flags = IF key = "none" THEN "none" ELSE "hmac"
  /\ f.header.crc = CrcOf(f.header)

TableShape(f, blobs) ==
  /\ f.table \in Seq(Entry) /\ Len(f.table) = f.header.count
  /\ CompTotal(f) = Len(blobs)
  /\ \A i \in 1 .. Len(f.table) :
       LET e == f.table[i] IN
         /\ e.comp_len > 0 /\ e.offset + e.comp_len <= Len(blobs)
         /\ \E stream \in Seq(Item) : /\ BlobAt(blobs, e) = Encode(e.codec_id, stream, e.comp_len)
                                      /\ StreamLen(stream) = e.raw_len

Shape(f, blobs, key) ==
  /\ f = [header |-> f.header, table |-> f.table, tail |-> f.tail, len |-> f.len]
  /\ blobs \in Seq(Cell) /\ key \in Keys \cup {"none"}
  /\ HeaderShape(f, key) /\ TableShape(f, blobs)
  /\ f.tail = blobs \o MacBytes(f, blobs, key)
  /\ f.len = HeaderSize + EntrySize * f.header.count + Len(blobs)
             + (IF key = "none" THEN 0 ELSE HmacLen)

MacCell(key, h, t, b, k) == [key |-> key, msg |-> <<h, t, b>>, k |-> k]

(***************************************************************************)
(* The MAC of a file is HmacLen bytes.                                     *)
(***************************************************************************)
LEMMA MacTypes ==
  ASSUME NEW key, NEW h, NEW t, NEW b
  PROVE  LET m == Mac(key, h, t, b) IN
           /\ m \in Seq(Range(m)) /\ Len(m) = HmacLen
           /\ \A k \in 1 .. HmacLen : m[k] = MacCell(key, h, t, b, k)
<1>1. HmacLen \in Nat
  BY ContainerConstants
<1> DEFINE m == Mac(key, h, t, b)
<1>2. m = [k \in 1 .. HmacLen |-> MacCell(key, h, t, b, k)]
  BY DEF Mac, MacCell
<1>3. DOMAIN m = 1 .. HmacLen /\ \A k \in 1 .. HmacLen : m[k] \in Range(m)
  BY <1>2 DEF Range
<1>4. m = [k \in 1 .. HmacLen |-> m[k]]
  BY <1>2
<1>5. m \in Seq(Range(m)) /\ Len(m) = HmacLen
  <2> HIDE DEF m
  <2> QED BY <1>1, <1>3, <1>4
<1> QED BY <1>2, <1>5

(***************************************************************************)
(* The blob region starts with nothing before it, so that the blob of an   *)
(* entry is found by its offset.                                           *)
(***************************************************************************)
LEMMA EmittedBlobAt ==
  ASSUME WriterInv, NEW i \in 1 .. Len(sections), NEW e,
         e.offset = Offset(i), e.comp_len = sections[i].comp_len
  PROVE  BlobAt(EmittedBlobs, e) = sections[i].blob
<1>1. /\ EmittedBlobs \in Seq(Cell) /\ Len(EmittedBlobs) \in Nat
      /\ Offset(i) \in Nat /\ Offset(i) + sections[i].comp_len <= Len(EmittedBlobs)
      /\ \A j \in 1 .. sections[i].comp_len :
           EmittedBlobs[Offset(i) + j] = sections[i].blob[j]
  BY BlobPlaced, OffsetsAhead
<1>2. sections[i].comp_len \in Nat /\ sections[i].blob \in Seq(Cell)
      /\ Len(sections[i].blob) = sections[i].comp_len
  BY SectionTypes, ClosedTypes
<1>3. PICK o \in Nat, m \in Nat : o = Offset(i) /\ m = sections[i].comp_len
  BY <1>1, <1>2
<1> DEFINE b == BlobAt(EmittedBlobs, e)
<1>4. b = SubSeq(EmittedBlobs, o + 1, o + m)
  BY <1>3 DEF BlobAt
<1>5. b \in Seq(Cell) /\ Len(b) = m /\ \A j \in 1 .. m : b[j] = EmittedBlobs[o + j]
  <2>1. o + m <= Len(EmittedBlobs)
    BY <1>1, <1>3
  <2>2. SubSeq(EmittedBlobs, o + 1, o + m) \in Seq(Cell)
        /\ Len(SubSeq(EmittedBlobs, o + 1, o + m)) = m
        /\ \A j \in 1 .. m : SubSeq(EmittedBlobs, o + 1, o + m)[j] = EmittedBlobs[o + j]
    BY <1>1, <2>1
  <2> QED BY <1>4, <2>2
<1> HIDE DEF b
<1>6. \A j \in 1 .. m : b[j] = sections[i].blob[j]
  BY <1>1, <1>3, <1>5
<1>7. b = sections[i].blob
  BY <1>2, <1>3, <1>5, <1>6, SeqEqual
<1> QED BY <1>7 DEF b

(***************************************************************************)
(* With the blob region within 32 bits no offset is cut by its cast.       *)
(***************************************************************************)
LEMMA OffsetFits ==
  ASSUME WriterInv, BlobRegion <= U32Max, NEW i \in 1 .. Len(sections)
  PROVE  Offset(i) % (U32Max + 1) = Offset(i)
<1>1. /\ Offset(i) \in Nat /\ Offset(i) + sections[i].comp_len <= BlobRegion
      /\ sections[i].comp_len \in Nat
  BY BlobPlaced, SectionTypes, ClosedTypes
<1>2. BlobRegion \in Nat /\ U32Max \in Nat
  BY OffsetsAhead, WriterConstants
<1>3. PICK o \in Nat, l \in Nat, b \in Nat, m \in Nat :
        o = Offset(i) /\ l = sections[i].comp_len /\ b = BlobRegion /\ m = U32Max
  BY <1>1, <1>2
<1>4. o <= m
  BY <1>1, <1>3
<1>5. o % (m + 1) = o
  BY <1>4
<1> QED BY <1>3, <1>5

(***************************************************************************)
(* finish emits a file of that shape.                                      *)
(***************************************************************************)
LEMMA LayoutShape ==
  ASSUME WriterInv, BlobRegion <= U32Max
  PROVE  Shape(Layout, EmittedBlobs, hmac_key)
<1> DEFINE n == Len(sections)
           t == EmittedTable
           h == EmittedHeader
<1>1. /\ n \in Nat /\ DOMAIN sections = 1 .. n /\ \A i \in 1 .. n : sections[i] \in Closed
      /\ hmac_key \in Keys \cup {"none"}
  BY SectionTypes DEF WriterInv, WriterTypes
<1>2. Layout.header = h /\ Layout.table = t /\ Layout.tail = EmittedBlobs \o EmittedMac
      /\ Layout.len = HeaderSize + EntrySize * n + BlobRegion + Len(EmittedMac)
  BY DEF Layout
<1>3. h.count = n /\ HeaderShape(Layout, hmac_key)
  <2>1. /\ h.magic = Magic /\ h.version = Version /\ h.count = n
        /\ h.flags = (IF hmac_key = "none" THEN "none" ELSE "hmac") /\ h.crc = CrcOf(h)
        /\ h = [magic |-> h.magic, version |-> h.version, flags |-> h.flags,
                count |-> h.count, crc |-> h.crc]
    BY DEF EmittedHeader, CrcOf
  <2> HIDE DEF h
  <2> QED BY <1>2, <2>1 DEF HeaderShape
<1>4. /\ DOMAIN t = 1 .. n
      /\ \A i \in 1 .. n : t[i] = [type |-> sections[i].type, codec_id |-> sections[i].codec_id,
                                   reserved |-> 0, raw_len |-> sections[i].raw_len,
                                   comp_len |-> sections[i].comp_len, offset |-> Offset(i)]
      /\ t = [i \in 1 .. n |-> t[i]]
  BY <1>1, OffsetFits DEF EmittedTable
<1> HIDE DEF t
<1>5. ASSUME NEW i \in 1 .. n
      PROVE  /\ t[i] \in Entry /\ t[i].comp_len = sections[i].comp_len /\ t[i].comp_len > 0
             /\ t[i].offset + t[i].comp_len <= Len(EmittedBlobs)
             /\ \E stream \in Seq(Item) :
                  /\ BlobAt(EmittedBlobs, t[i]) = Encode(t[i].codec_id, stream, t[i].comp_len)
                  /\ StreamLen(stream) = t[i].raw_len
  <2>1. /\ sections[i].type \in Types /\ sections[i].codec_id \in Codecs
        /\ sections[i].raw_len \in 1 .. MaxRaw /\ sections[i].comp_len \in Nat
        /\ sections[i].comp_len > 0
    BY <1>1, ClosedTypes
  <2>2. Offset(i) \in Nat /\ Offset(i) + sections[i].comp_len <= Len(EmittedBlobs)
    BY BlobPlaced, OffsetsAhead
  <2>3. /\ t[i].comp_len = sections[i].comp_len /\ t[i].offset = Offset(i)
        /\ t[i].codec_id = sections[i].codec_id /\ t[i].raw_len = sections[i].raw_len
    BY <1>4
  <2>4. t[i] \in Entry
    BY <1>4, <2>1, <2>2 DEF Entry
  <2>5. BlobAt(EmittedBlobs, t[i]) = sections[i].blob
    BY <2>3, EmittedBlobAt
  <2>6. PICK stream \in Seq(Item) : Encoded(sections[i], stream)
    BY <1>1, ClosedTypes
  <2>7. /\ BlobAt(EmittedBlobs, t[i]) = Encode(t[i].codec_id, stream, t[i].comp_len)
        /\ StreamLen(stream) = t[i].raw_len
    BY <2>3, <2>5, <2>6 DEF Encoded
  <2> QED BY <2>1, <2>2, <2>3, <2>4, <2>7
<1>6. t \in Seq(Entry) /\ Len(t) = n
  BY <1>1, <1>4, <1>5
<1>7. CompTotal(Layout) = Len(EmittedBlobs)
  <2>1. CompLengths(t) = CompLengths(sections)
    BY <1>1, <1>4, <1>5 DEF CompLengths
  <2> QED BY <1>2, <2>1, OffsetsAhead DEF CompTotal, BlobRegion
<1>8. TableShape(Layout, EmittedBlobs)
  BY <1>2, <1>3, <1>5, <1>6, <1>7 DEF TableShape
<1>9. EmittedMac = MacBytes(Layout, EmittedBlobs, hmac_key)
  BY <1>2 DEF EmittedMac, MacBytes, t
<1>10. Len(EmittedMac) = IF hmac_key = "none" THEN 0 ELSE HmacLen
  BY MacTypes DEF EmittedMac
<1>11. EmittedBlobs \in Seq(Cell) /\ BlobRegion = Len(EmittedBlobs)
  BY OffsetsAhead
<1>12. Layout.header.count = n
  BY <1>2, <1>3
<1> HIDE DEF h, n
<1>13. Layout.len = HeaderSize + EntrySize * Layout.header.count + Len(EmittedBlobs)
                    + (IF hmac_key = "none" THEN 0 ELSE HmacLen)
  BY <1>2, <1>10, <1>11, <1>12
<1>14. Layout = [header |-> Layout.header, table |-> Layout.table, tail |-> Layout.tail,
                 len |-> Layout.len]
  BY DEF Layout
<1> QED BY <1>1, <1>2, <1>3, <1>8, <1>9, <1>11, <1>13, <1>14 DEF Shape

(***************************************************************************)
(* The lengths of such a file.                                             *)
(***************************************************************************)
LEMMA ShapeLengths ==
  ASSUME NEW f, NEW blobs, NEW key, Shape(f, blobs, key)
  PROVE  /\ Len(blobs) \in Nat /\ f.header.count \in Nat /\ f.len \in Nat
         /\ HmacLen \in Nat /\ HmacLen > 0
         /\ TailLen(f) = Len(blobs) + (IF key = "none" THEN 0 ELSE HmacLen)
         /\ BlobLen(f) = Len(blobs)
         /\ f.len >= HeaderSize + EntrySize * f.header.count
         /\ f.header.flags = "hmac" <=> key # "none"
<1>1. Len(blobs) \in Nat /\ f.header.count \in Nat /\ HmacLen \in Nat /\ HmacLen > 0
  BY ContainerConstants DEF Shape, TableShape
<1>2. PICK c \in Nat, l \in Nat, m \in Nat :
        /\ c = f.header.count /\ l = Len(blobs) /\ m = IF key = "none" THEN 0 ELSE HmacLen
  BY <1>1
<1>3. f.len = HeaderSize + EntrySize * c + l + m
  BY <1>2 DEF Shape
<1>4. f.len \in Nat /\ f.len >= HeaderSize + EntrySize * c /\ TailLen(f) = l + m
  <2>1. PICK x : x = f.len
    OBVIOUS
  <2>2. TailLen(f) = x - HeaderSize - EntrySize * c
    BY <1>2, <2>1 DEF TailLen
  <2>3. x \in Nat /\ x >= HeaderSize + EntrySize * c /\ x - HeaderSize - EntrySize * c = l + m
    BY <1>3, <2>1 DEF HeaderSize, EntrySize
  <2> QED BY <2>1, <2>2, <2>3
<1>5. f.header.flags = "hmac" <=> key # "none"
  BY DEF Shape, HeaderShape
<1>6. BlobLen(f) = l
  BY <1>1, <1>2, <1>4, <1>5 DEF BlobLen
<1> QED BY <1>1, <1>2, <1>4, <1>5, <1>6

(***************************************************************************)
(* dtl_container_parse accepts it.                                         *)
(***************************************************************************)
LEMMA ShapeParses ==
  ASSUME NEW f, NEW blobs, NEW key, Shape(f, blobs, key)
  PROVE  ParseErr(f) = "OK"
<1>1. /\ Len(blobs) \in Nat /\ f.header.count \in Nat /\ f.len \in Nat /\ BlobLen(f) = Len(blobs)
      /\ TailLen(f) = Len(blobs) + (IF key = "none" THEN 0 ELSE HmacLen) /\ HmacLen \in Nat
      /\ f.len >= HeaderSize + EntrySize * f.header.count
      /\ f.header.flags = "hmac" <=> key # "none"
  BY ShapeLengths
<1>2. HeaderErr(f) = "OK"
  BY <1>1 DEF Shape, HeaderShape, HeaderErr, KnownFlags, HeaderSize, EntrySize
<1>3. /\ f.table \in Seq(Entry) /\ Len(f.table) = f.header.count /\ CompTotal(f) = Len(blobs)
      /\ \A i \in 1 .. f.header.count :
           f.table[i].comp_len > 0 /\ f.table[i].offset + f.table[i].comp_len <= Len(blobs)
  BY DEF Shape, TableShape
<1>4. ASSUME NEW i \in 1 .. f.header.count
      PROVE  /\ f.table[i].reserved = 0 /\ f.table[i].raw_len \in 1 .. MaxRaw
             /\ f.table[i].comp_len \in Nat /\ f.table[i].offset \in Nat
  <2>1. f.table[i] \in Entry
    BY <1>3
  <2> QED BY <2>1 DEF Entry
<1>5. TableErr(f) = "OK"
  <2>1. ASSUME NEW i \in 1 .. f.header.count
        PROVE  ~(f.len < HeaderSize + EntrySize * (i - 1) + EntrySize)
    BY <1>1 DEF HeaderSize, EntrySize
  <2> QED BY <1>4, <2>1 DEF TableErr
<1>6. BlobsErr(f) = "OK"
  <2>1. ~(CompTotal(f) > BlobLen(f))
    BY <1>1, <1>3
  <2>2. ASSUME NEW i \in 1 .. f.header.count
        PROVE  /\ f.table[i].raw_len # 0 /\ ~(f.table[i].raw_len > MaxRaw)
               /\ ~(f.table[i].comp_len > BlobLen(f))
               /\ ~(f.table[i].offset > BlobLen(f) - f.table[i].comp_len)
    BY <1>1, <1>3, <1>4, ContainerConstants
  <2> QED BY <2>1, <2>2 DEF BlobsErr
<1>7. ~(f.header.flags = "hmac" /\ TailLen(f) < HmacLen)
  BY <1>1
<1> QED BY <1>2, <1>5, <1>6, <1>7 DEF ParseErr

(***************************************************************************)
(* Its blobs and its trailer are found where it put them.                  *)
(***************************************************************************)
LEMMA ShapeParts ==
  ASSUME NEW f, NEW blobs, NEW key, Shape(f, blobs, key)
  PROVE  /\ \A i \in 1 .. f.header.count : Blob(f, i) = BlobAt(blobs, f.table[i])
         /\ SubSeq(f.tail, 1, BlobLen(f)) = blobs
         /\ key # "none" => Trailer(f) = Mac(key, f.header, f.table, blobs)
<1> DEFINE m == MacBytes(f, blobs, key)
           S == Cell \cup Range(m)
           B == Len(blobs)
<1>1. B \in Nat /\ BlobLen(f) = B /\ HmacLen \in Nat /\ f.tail = blobs \o m /\ blobs \in Seq(Cell)
  BY ShapeLengths DEF Shape
<1>2. m \in Seq(Range(m)) /\ Len(m) = IF key = "none" THEN 0 ELSE HmacLen
  <2>1. CASE key = "none"
    BY <2>1 DEF MacBytes, Range
  <2>2. CASE key # "none"
    BY <2>2, MacTypes DEF MacBytes
  <2> QED BY <2>1, <2>2
<1> HIDE DEF m
<1>3. blobs \in Seq(S) /\ m \in Seq(S) /\ Len(m) \in Nat
  BY <1>1, <1>2
<1> HIDE DEF S, B
<1>4. /\ f.tail \in Seq(S) /\ Len(f.tail) = B + Len(m)
      /\ \A i \in 1 .. B + Len(m) : f.tail[i] = IF i <= B THEN blobs[i] ELSE m[i - B]
  BY <1>1, <1>3, ConcatProperties DEF B
<1>5. ASSUME NEW a \in Nat, NEW l \in Nat, a + l <= B
      PROVE  SubSeq(f.tail, a + 1, a + l) = SubSeq(blobs, a + 1, a + l)
  <2> DEFINE x == SubSeq(f.tail, a + 1, a + l)
             y == SubSeq(blobs, a + 1, a + l)
  <2>1. a + l <= Len(f.tail) /\ a + l <= Len(blobs)
    BY <1>1, <1>3, <1>4, <1>5 DEF B
  <2>2. x \in Seq(S) /\ Len(x) = l /\ \A j \in 1 .. l : x[j] = f.tail[a + j]
    BY <1>1, <1>3, <1>4, <2>1
  <2>3. y \in Seq(S) /\ Len(y) = l /\ \A j \in 1 .. l : y[j] = blobs[a + j]
    BY <1>1, <1>3, <2>1
  <2>4. \A j \in 1 .. l : a + j \in 1 .. B + Len(m) /\ a + j <= B
    BY <1>1, <1>3, <1>5
  <2>5. \A j \in 1 .. l : f.tail[a + j] = blobs[a + j]
    BY <1>4, <2>4
  <2> HIDE DEF x, y
  <2>6. x = y
    BY <2>2, <2>3, <2>5, SeqEqual
  <2> QED BY <2>6 DEF x, y
<1>6. ASSUME NEW i \in 1 .. f.header.count PROVE Blob(f, i) = BlobAt(blobs, f.table[i])
  <2>1. f.table[i] \in Entry /\ f.table[i].offset + f.table[i].comp_len <= B
    BY DEF Shape, TableShape, B
  <2>2. f.table[i].offset \in Nat /\ f.table[i].comp_len \in Nat
    BY <2>1 DEF Entry
  <2> QED BY <1>5, <2>1, <2>2 DEF Blob, BlobAt
<1>7. SubSeq(f.tail, 1, BlobLen(f)) = blobs
  <2>0. PICK z \in Nat : z = 0
    OBVIOUS
  <2>1. z + 1 = 1 /\ z + B = B /\ z + B <= B
    BY <1>1, <2>0
  <2>2. SubSeq(f.tail, z + 1, z + B) = SubSeq(blobs, z + 1, z + B)
    BY <1>1, <1>5, <2>1
  <2>3. SubSeq(blobs, 1, B) = blobs
    BY <1>1, SubSeqFull DEF B
  <2> QED BY <1>1, <2>1, <2>2, <2>3
<1>8. ASSUME key # "none" PROVE Trailer(f) = m
  <2> DEFINE x == SubSeq(f.tail, B + 1, B + HmacLen)
  <2>1. Len(m) = HmacLen /\ B + HmacLen <= Len(f.tail)
    BY <1>1, <1>2, <1>4, <1>8
  <2>2. x \in Seq(S) /\ Len(x) = HmacLen /\ \A j \in 1 .. HmacLen : x[j] = f.tail[B + j]
    <3>1. PICK w \in Seq(S) : w = f.tail
      BY <1>4
    <3>2. PICK b \in Nat : b = B
      BY <1>1
    <3>3. PICK h \in Nat : h = HmacLen
      BY <1>1
    <3>4. b + h <= Len(w)
      BY <2>1, <3>1, <3>2, <3>3
    <3>5. /\ SubSeq(w, b + 1, b + h) \in Seq(S) /\ Len(SubSeq(w, b + 1, b + h)) = h
          /\ \A j \in 1 .. h : SubSeq(w, b + 1, b + h)[j] = w[b + j]
      BY <3>4, SubSeqAt
    <3> QED BY <3>1, <3>2, <3>3, <3>5
  <2>3. ASSUME NEW j \in 1 .. HmacLen PROVE f.tail[B + j] = m[j]
    <3>1. PICK k : k = B + j
      OBVIOUS
    <3>2. k \in 1 .. B + Len(m) /\ ~(k <= B) /\ k - B = j
      BY <1>1, <2>1, <3>1
    <3> QED BY <1>4, <3>1, <3>2
  <2>4. Trailer(f) = x
    BY <1>1 DEF Trailer
  <2> HIDE DEF x
  <2>5. x = m
    BY <1>3, <2>1, <2>2, <2>3, SeqEqual
  <2> QED BY <2>4, <2>5
<1> QED BY <1>6, <1>7, <1>8 DEF m, MacBytes

-----------------------------------------------------------------------------

(***************************************************************************)
(* A whole encoding decodes to its stream.                                 *)
(***************************************************************************)
LEMMA EncodeDecodes ==
  ASSUME NEW codec \in Codecs, NEW stream \in Seq(Item), NEW n \in Nat, n > 0,
         NEW blob, blob = Encode(codec, stream, n)
  PROVE  /\ Decodes(codec, blob, StreamLen(stream)) /\ Decode(codec, blob) = stream
         /\ Uncut(blob)
<1>1. /\ DOMAIN blob = 1 .. n /\ blob = [k \in 1 .. n |-> blob[k]]
      /\ \A k \in 1 .. n : blob[k] = [codec |-> codec, stream |-> stream, k |-> k, n |-> n]
  BY DEF Encode
<1>2. 1 \in 1 .. n
  OBVIOUS
<1>3. blob[1].stream = stream /\ blob[1].n = n
  <2>1. blob[1] = [codec |-> codec, stream |-> stream, k |-> 1, n |-> n]
    BY <1>1, <1>2
  <2> QED BY <2>1
<1>4. blob \in Seq(Range(blob))
  BY <1>1 DEF Range
<1>5. Len(blob) = n /\ blob # <<>>
  BY <1>1, <1>2, <1>4
<1>6. StreamLen(stream) <= StreamLen(stream)
  BY StreamLenTypes
<1>7. SubSeq(blob, 1, n) = blob
  BY <1>4, <1>5, SubSeqFull
<1> QED BY <1>3, <1>5, <1>6, <1>7 DEF Decodes, Decode, Uncut

(***************************************************************************)
(* A strict reader gets the stream of every section.                       *)
(***************************************************************************)
LEMMA ShapeReadable ==
  ASSUME NEW f, NEW blobs, NEW key, Shape(f, blobs, key)
  PROVE  /\ Readable(f)
         /\ \A i \in 1 .. f.header.count :
              Decodes(f.table[i].codec_id, Blob(f, i), f.table[i].raw_len)
<1>1. ParseErr(f) = "OK"
  BY ShapeParses
<1>2. ASSUME NEW i \in 1 .. f.header.count
      PROVE  /\ f.table[i].codec_id \in Codecs
             /\ Decodes(f.table[i].codec_id, Blob(f, i), f.table[i].raw_len)
             /\ Uncut(Blob(f, i))
             /\ StreamLen(Decode(f.table[i].codec_id, Blob(f, i))) = f.table[i].raw_len
  <2>1. f.table[i] \in Entry /\ f.table[i].comp_len > 0
    BY DEF Shape, TableShape
  <2>2. f.table[i].codec_id \in Codecs /\ f.table[i].comp_len \in Nat
    BY <2>1 DEF Entry
  <2>3. PICK stream \in Seq(Item) :
          /\ BlobAt(blobs, f.table[i]) = Encode(f.table[i].codec_id, stream, f.table[i].comp_len)
          /\ StreamLen(stream) = f.table[i].raw_len
    BY DEF Shape, TableShape
  <2>4. Blob(f, i) = BlobAt(blobs, f.table[i])
    BY ShapeParts
  <2> QED BY <2>1, <2>2, <2>3, <2>4, EncodeDecodes
<1> QED BY <1>1, <1>2 DEF Readable

(***************************************************************************)
(* dtl verify accepts a signed file under its key and under no other.      *)
(***************************************************************************)
LEMMA ShapeVerifies ==
  ASSUME NEW f, NEW blobs, NEW key, Shape(f, blobs, key), key # "none", NEW k \in Keys
  PROVE  Verify(f, k) = IF k = key THEN "OK" ELSE "FAIL"
<1>1. ParseErr(f) = "OK" /\ f.header.flags = "hmac" /\ HmacLen \in Nat /\ HmacLen > 0
  BY ShapeParses, ShapeLengths
<1>2. k # "none"
  BY WriterConstants
<1>3. Trailer(f) = Mac(key, f.header, f.table, blobs)
      /\ MacOf(f, k) = Mac(k, f.header, f.table, blobs)
  BY ShapeParts DEF MacOf
<1>4. Trailer(f) = MacOf(f, k) <=> k = key
  <2>1. 1 \in 1 .. HmacLen
    BY <1>1
  <2>2. /\ Mac(key, f.header, f.table, blobs)[1] = MacCell(key, f.header, f.table, blobs, 1)
        /\ Mac(k, f.header, f.table, blobs)[1] = MacCell(k, f.header, f.table, blobs, 1)
    BY <2>1, MacTypes
  <2>3. \A x : MacCell(x, f.header, f.table, blobs, 1).key = x
    BY DEF MacCell
  <2> QED BY <1>3, <2>2, <2>3
<1>5. f.header.count > 0 /\ f.table[1].codec_id \in Codecs
        => Decodes(f.table[1].codec_id, Blob(f, 1), f.table[1].raw_len)
  <2>1. f.header.count > 0 => 1 \in 1 .. f.header.count
    BY ShapeLengths
  <2> QED BY <2>1, ShapeReadable
<1> QED BY <1>1, <1>2, <1>4, <1>5 DEF Verify

(***************************************************************************)
(* The bytes behind the table of a signed file: the blobs and the MAC.     *)
(***************************************************************************)
LEMMA SignedTail ==
  ASSUME NEW f, NEW blobs, NEW key, Shape(f, blobs, key), key # "none"
  PROVE  /\ f.tail \in Seq(Range(f.tail)) /\ Len(f.tail) = Len(blobs) + HmacLen
         /\ \A i \in 1 .. Len(blobs) : f.tail[i] = blobs[i]
         /\ \A j \in 1 .. HmacLen :
              f.tail[Len(blobs) + j] = MacCell(key, f.header, f.table, blobs, j)
<1> DEFINE m == Mac(key, f.header, f.table, blobs)
           S == Cell \cup Range(m)
           B == Len(blobs)
<1>1. B \in Nat /\ HmacLen \in Nat /\ HmacLen > 0 /\ blobs \in Seq(Cell) /\ f.tail = blobs \o m
  BY ShapeLengths DEF Shape, MacBytes
<1>2. /\ m \in Seq(Range(m)) /\ Len(m) = HmacLen
      /\ \A j \in 1 .. HmacLen : m[j] = MacCell(key, f.header, f.table, blobs, j)
  BY MacTypes
<1> HIDE DEF m
<1>3. blobs \in Seq(S) /\ m \in Seq(S)
  BY <1>1, <1>2
<1> HIDE DEF S, B
<1>j. /\ f.tail \in Seq(S) /\ Len(f.tail) = B + Len(m)
      /\ \A i \in 1 .. B + Len(m) : f.tail[i] = IF i <= B THEN blobs[i] ELSE m[i - B]
  BY <1>1, <1>3, ConcatProperties DEF B
<1>4. /\ f.tail \in Seq(S) /\ Len(f.tail) = B + HmacLen
      /\ \A i \in 1 .. B + HmacLen : f.tail[i] = IF i <= B THEN blobs[i] ELSE m[i - B]
  BY <1>2, <1>j
<1>5. f.tail \in Seq(Range(f.tail))
  BY <1>4 DEF Range
<1>6. \A i \in 1 .. B : f.tail[i] = blobs[i]
  BY <1>1, <1>4
<1>7. ASSUME NEW j \in 1 .. HmacLen PROVE f.tail[B + j] = m[j]
  <2>1. PICK k : k = B + j
    OBVIOUS
  <2>2. k \in 1 .. B + HmacLen /\ ~(k <= B) /\ k - B = j
    BY <1>1, <2>1
  <2> QED BY <1>4, <2>1, <2>2
<1> QED BY <1>2, <1>4, <1>5, <1>6, <1>7 DEF B

(***************************************************************************)
(* The key of the last byte of the MAC is the key the file is signed with. *)
(***************************************************************************)
LEMMA ShapeKey ==
  ASSUME NEW f, NEW blobs, NEW key, Shape(f, blobs, key), key # "none"
  PROVE  Last(f.tail).key = key
<1>1. HmacLen \in 1 .. HmacLen
  BY ContainerConstants
<1>2. Last(f.tail) = MacCell(key, f.header, f.table, blobs, HmacLen)
  BY <1>1, SignedTail DEF Last
<1> QED BY <1>2 DEF MacCell
-----------------------------------------------------------------------------

(***************************************************************************)
(* What was emitted stays as finish laid it out, whatever is set or added  *)
(* after.                                                                  *)
(***************************************************************************)
OutShape == out # NoFile => \E blobs, key : Shape(out, blobs, key)

(***************************************************************************)
(* A container is never shorter than its header.                           *)
(***************************************************************************)
LEMMA LayoutIsFile == ASSUME WriterInv, BlobRegion <= U32Max PROVE Layout # NoFile
<1>1. Shape(Layout, EmittedBlobs, hmac_key)
  BY LayoutShape
<1>2. PICK c \in Nat : c = Layout.header.count
  BY <1>1, ShapeLengths
<1>3. PICK l \in Nat : l = Layout.len
  BY <1>1, ShapeLengths
<1>4. l >= HeaderSize + EntrySize * c
  BY <1>1, <1>2, <1>3, ShapeLengths
<1>5. l # 0
  BY <1>4 DEF HeaderSize, EntrySize
<1>6. NoFile.len = 0
  BY DEF NoFile
<1> QED BY <1>3, <1>5, <1>6

(***************************************************************************)
(* Only finish writes a container.                                         *)
(***************************************************************************)
LEMMA OutOnlyByFinish ==
  ASSUME [WriterNext]_vars
  PROVE  out' = out \/ Finish
BY DEF WriterNext, vars, BeginTooMany, Begin, WrongCall, AddWhole, AddRejected, AddOom,
       BatchTooMany, BatchUnstaged, EndFails, End, SetHmac, FinishFails, LatchedCall

(***************************************************************************)
(* The shape of the emitted container is an invariant of the writer.       *)
(***************************************************************************)
LEMMA OutShapeInductive == WriterSpec => [](WriterInv /\ OutShape)
<1>1. WriterInit => OutShape
  BY DEF WriterInit, OutShape
<1>2. WriterInv /\ OutShape /\ [WriterNext]_vars => OutShape'
  <2> SUFFICES ASSUME WriterInv, OutShape, [WriterNext]_vars PROVE OutShape'
    OBVIOUS
  <2>1. CASE out' = out
    BY <2>1 DEF OutShape
  <2>2. CASE Finish
    <3>1. out' = Layout /\ BlobRegion <= U32Max
      BY <2>2 DEF Finish
    <3>2. Shape(Layout, EmittedBlobs, hmac_key)
      BY <3>1, LayoutShape
    <3> QED BY <3>1, <3>2 DEF OutShape
  <2> QED BY <2>1, <2>2, OutOnlyByFinish
<1> QED BY <1>1, <1>2, WriterInductive, WriterInitInv, PTL DEF WriterSpec

(***************************************************************************)
(* dtl verify accepts a signed container under the key it was signed with, *)
(* and under no other.                                                     *)
(***************************************************************************)
THEOREM SignatureHolds == WriterSpec => []SignedVerifies
<1>1. OutShape => SignedVerifies
  <2> SUFFICES ASSUME OutShape, Signed, NEW k \in Keys
               PROVE  Verify(out, k) = IF k = SigningKey THEN "OK" ELSE "FAIL"
    BY DEF SignedVerifies
  <2>1. PICK blobs, key : Shape(out, blobs, key)
    BY DEF OutShape, Signed
  <2>2. key # "none"
    BY <2>1, ShapeLengths DEF Signed
  <2>3. SigningKey = key
    BY <2>1, <2>2, ShapeKey DEF SigningKey
  <2> QED BY <2>1, <2>2, <2>3, ShapeVerifies
<1> QED BY <1>1, OutShapeInductive, PTL
-----------------------------------------------------------------------------

(***************************************************************************)
(* A proper prefix: the header is cut, or the table, or the blob region    *)
(* and the MAC are shorter than the table announces.                       *)
(***************************************************************************)
LEMMA PrefixRefused ==
  ASSUME NEW f, NEW blobs, NEW key, Shape(f, blobs, key),
         NEW n \in 0 .. f.len - 1
  PROVE  ParseErr([f EXCEPT !.len = n]) # "OK"
<1> DEFINE g == [f EXCEPT !.len = n]
<1>1. g.header = f.header /\ g.table = f.table /\ g.len = n
  <2>1. f = [header |-> f.header, table |-> f.table, tail |-> f.tail, len |-> f.len]
    BY DEF Shape
  <2> QED BY <2>1
<1> HIDE DEF g
<1>2. PICK c \in Nat, l \in Nat, m \in Nat :
        /\ c = f.header.count /\ l = Len(blobs) /\ m = IF key = "none" THEN 0 ELSE HmacLen
  BY ShapeLengths
<1>3. f.len = HeaderSize + EntrySize * c + l + m
  BY <1>2 DEF Shape
<1>4. n \in Nat /\ n < HeaderSize + EntrySize * c + l + m
  BY <1>2, <1>3, SMTT(30) DEF HeaderSize, EntrySize
<1>5. CASE n < HeaderSize
  <2>1. HeaderErr(g) # "OK"
    BY <1>1, <1>4, <1>5 DEF HeaderErr, HeaderSize
  <2> QED BY <2>1 DEF ParseErr, g
<1>6. CASE n >= HeaderSize /\ n < HeaderSize + EntrySize * c
  <2>1. c \in 1 .. c /\ n < HeaderSize + EntrySize * (c - 1) + EntrySize
    BY <1>2, <1>4, <1>6 DEF HeaderSize, EntrySize
  <2>2. c \in 1 .. g.header.count /\ g.len < HeaderSize + EntrySize * (c - 1) + EntrySize
    BY <1>1, <1>2, <2>1
  <2>3. TableErr(g) # "OK"
    BY <2>2 DEF TableErr
  <2> QED BY <2>3 DEF ParseErr, g
<1>7. CASE n >= HeaderSize + EntrySize * c
  <2>1. TailLen(g) = n - HeaderSize - EntrySize * c
    BY <1>1, <1>2 DEF TailLen
  <2>2. PICK t : t = TailLen(g)
    OBVIOUS
  <2>3. t \in Nat /\ t < l + m
    <3>1. t = n - HeaderSize - EntrySize * c
      BY <2>1, <2>2
    <3> QED BY <1>4, <1>7, <3>1 DEF HeaderSize, EntrySize
  <2>4. HmacLen \in Nat /\ (f.header.flags = "hmac" <=> key # "none")
    BY ShapeLengths
  <2>5. CASE g.header.flags = "hmac" /\ t < HmacLen
    BY <2>2, <2>5 DEF ParseErr, g
  <2>6. CASE ~(g.header.flags = "hmac" /\ t < HmacLen)
    <3>1. BlobLen(g) \in Int /\ BlobLen(g) < l
      BY <1>1, <1>2, <2>2, <2>3, <2>4 DEF BlobLen
    <3>2. CompTotal(g) = l
      BY <1>1, <1>2 DEF Shape, TableShape, CompTotal
    <3>3. BlobsErr(g) = "RANGE"
      BY <1>2, <3>1, <3>2 DEF BlobsErr
    <3> QED BY <2>2, <2>6, <3>3 DEF ParseErr, g
  <2> QED BY <2>5, <2>6
<1> QED BY <1>2, <1>4, <1>5, <1>6, <1>7 DEF HeaderSize, EntrySize

(***************************************************************************)
(* dtl verify says OK only when the trailer is the MAC of the rest.        *)
(***************************************************************************)
LEMMA VerifyNeedsMac ==
  ASSUME NEW g, NEW key, Verify(g, key) = "OK"
  PROVE  Trailer(g) = MacOf(g, key)
BY DEF Verify

(***************************************************************************)
(* The message and the place a byte of a MAC stands for.                   *)
(***************************************************************************)
LEMMA MacCellTells ==
  ASSUME NEW key, NEW h, NEW t, NEW b, NEW j, NEW h2, NEW t2, NEW b2, NEW j2,
         MacCell(key, h, t, b, j) = MacCell(key, h2, t2, b2, j2)
  PROVE  h = h2 /\ t = t2 /\ b = b2 /\ j = j2
<1>1. MacCell(key, h, t, b, j).msg = <<h, t, b>> /\ MacCell(key, h, t, b, j).k = j
  BY DEF MacCell
<1>2. MacCell(key, h2, t2, b2, j2).msg = <<h2, t2, b2>> /\ MacCell(key, h2, t2, b2, j2).k = j2
  BY DEF MacCell
<1>3. <<h, t, b>> = <<h2, t2, b2>> /\ j = j2
  BY <1>1, <1>2
<1> QED BY <1>3

(***************************************************************************)
(* A table entry changed, or two of them swapped.                          *)
(***************************************************************************)
LEMMA TableDamageFails ==
  ASSUME NEW f, NEW blobs, NEW key, Shape(f, blobs, key), key # "none",
         NEW t, NEW g, g = [f EXCEPT !.table = t], g # f
  PROVE  Verify(g, key) # "OK"
<1>1. f = [header |-> f.header, table |-> f.table, tail |-> f.tail, len |-> f.len]
  BY DEF Shape
<1>2. g.header = f.header /\ g.table = t /\ g.tail = f.tail /\ g.len = f.len
  BY <1>1
<1>3. t # f.table
  <2> SUFFICES ASSUME t = f.table PROVE FALSE
    OBVIOUS
  <2>1. [f EXCEPT !.table = f.table] = f
    BY <1>1
  <2> QED BY <2>1
<1>4. BlobLen(g) = BlobLen(f)
  BY <1>2 DEF BlobLen, TailLen
<1>5. Trailer(g) = Trailer(f)
  BY <1>2, <1>4 DEF Trailer
<1>6. MacOf(g, key) = Mac(key, f.header, t, blobs)
  BY <1>2, <1>4, ShapeParts DEF MacOf
<1>7. Trailer(g) = Mac(key, f.header, f.table, blobs)
  BY <1>5, ShapeParts
<1> SUFFICES ASSUME Verify(g, key) = "OK" PROVE FALSE
  OBVIOUS
<1>8. Mac(key, f.header, f.table, blobs) = Mac(key, f.header, t, blobs)
  BY <1>6, <1>7, VerifyNeedsMac
<1>9. 1 \in 1 .. HmacLen
  BY ContainerConstants
<1>10. MacCell(key, f.header, f.table, blobs, 1) = MacCell(key, f.header, t, blobs, 1)
  BY <1>8, <1>9, MacTypes
<1> QED BY <1>3, <1>10, MacCellTells

(***************************************************************************)
(* A byte behind the table overwritten by the one after it: in the blob    *)
(* region it changes the message, in the trailer the MAC itself.           *)
(***************************************************************************)
LEMMA TailDamageFails ==
  ASSUME NEW f, NEW blobs, NEW key, Shape(f, blobs, key), key # "none",
         NEW k \in 1 .. Len(f.tail) - 1,
         NEW u, u = [f.tail EXCEPT ![k] = f.tail[k + 1]],
         NEW g, g = [f EXCEPT !.tail = u], g # f
  PROVE  Verify(g, key) # "OK"
<1> DEFINE B == Len(blobs)
           S == Range(f.tail)
<1>1. f = [header |-> f.header, table |-> f.table, tail |-> f.tail, len |-> f.len]
  BY DEF Shape
<1>2. g.header = f.header /\ g.table = f.table /\ g.tail = u /\ g.len = f.len
  BY <1>1
<1>3. u # f.tail
  <2> SUFFICES ASSUME u = f.tail PROVE FALSE
    OBVIOUS
  <2>1. [f EXCEPT !.tail = f.tail] = f
    BY <1>1
  <2> QED BY <2>1
<1>4. B \in Nat /\ HmacLen \in Nat /\ HmacLen > 0 /\ BlobLen(g) = B
  BY <1>2, ShapeLengths DEF BlobLen, TailLen
<1>5. /\ f.tail \in Seq(S) /\ Len(f.tail) = B + HmacLen
      /\ \A i \in 1 .. B : f.tail[i] = blobs[i]
      /\ \A j \in 1 .. HmacLen :
           f.tail[B + j] = MacCell(key, f.header, f.table, blobs, j)
  BY SignedTail
<1>6. blobs \in Seq(Cell)
  BY DEF Shape
<1> HIDE DEF B, S
<1>7. /\ u \in Seq(S) /\ Len(u) = B + HmacLen /\ u[k] = f.tail[k + 1]
      /\ \A i \in 1 .. B + HmacLen : i # k => u[i] = f.tail[i]
  <2>1. k \in 1 .. B + HmacLen /\ k + 1 \in 1 .. B + HmacLen
    BY <1>4, <1>5
  <2>2. f.tail[k + 1] \in S
    BY <1>4, <1>5, <2>1
  <2>3. DOMAIN f.tail = 1 .. B + HmacLen
    BY <1>4, <1>5
  <2> QED BY <1>4, <1>5, <2>1, <2>2, <2>3
<1>v. PICK v : v = u
  OBVIOUS
<1> DEFINE w == SubSeq(v, 1, B)
           x == SubSeq(v, B + 1, B + HmacLen)
<1>8. x \in Seq(S) /\ Len(x) = HmacLen /\ \A j \in 1 .. HmacLen : x[j] = v[B + j]
  <2>1. v \in Seq(S) /\ B \in Nat /\ HmacLen \in Nat /\ B + HmacLen <= Len(v)
    BY <1>4, <1>7, <1>v
  <2> QED BY <2>1, SubSeqAt
<1>9. w \in Seq(S) /\ Len(w) = B /\ \A j \in 1 .. B : w[j] = v[j]
  BY <1>4, <1>7, <1>v, SMTT(30)
<1>10. Trailer(g) = x /\ MacOf(g, key) = Mac(key, f.header, f.table, w)
  BY <1>2, <1>4, <1>v DEF Trailer, MacOf
<1> HIDE DEF w, x
<1> SUFFICES ASSUME Verify(g, key) = "OK" PROVE FALSE
  OBVIOUS
<1>11. \A j \in 1 .. HmacLen : u[B + j] = MacCell(key, f.header, f.table, w, j)
  BY <1>8, <1>10, <1>v, VerifyNeedsMac, MacTypes
<1>12. CASE k <= B
  <2>1. PICK i : i = B + 1
    OBVIOUS
  <2>2. i \in 1 .. B + HmacLen /\ i # k /\ 1 \in 1 .. HmacLen /\ k \in 1 .. B
    BY <1>4, <1>12, <2>1
  <2>3. MacCell(key, f.header, f.table, blobs, 1) = MacCell(key, f.header, f.table, w, 1)
    BY <1>5, <1>7, <1>11, <2>1, <2>2
  <2>4. blobs = w
    BY <2>3, MacCellTells
  <2>5. u[k] = f.tail[k]
    BY <1>5, <1>9, <1>v, <2>2, <2>4
  <2>6. \A j \in 1 .. B + HmacLen : u[j] = f.tail[j]
    BY <1>7, <2>5
  <2>7. Len(u) = Len(f.tail)
    BY <1>5, <1>7
  <2>8. u = f.tail
    BY <1>5, <1>7, <2>6, <2>7, SeqEqual
  <2> QED BY <1>3, <2>8
<1>13. CASE ~(k <= B)
  <2>1. PICK j : j = k - B
    OBVIOUS
  <2>2. /\ j \in 1 .. HmacLen /\ j + 1 \in 1 .. HmacLen /\ k = B + j /\ k + 1 = B + (j + 1)
        /\ j # j + 1
    BY <1>4, <1>5, <1>13, <2>1, SMTT(30)
  <2>3. MacCell(key, f.header, f.table, blobs, j + 1) = MacCell(key, f.header, f.table, w, j)
    <3>1. u[B + j] = f.tail[B + (j + 1)]
      BY <1>7, <2>2
    <3> QED BY <1>5, <1>11, <2>2, <3>1
  <2> QED BY <2>2, <2>3, MacCellTells
<1> QED BY <1>12, <1>13

(***************************************************************************)
(* A byte appended: the trailer is read one byte later, and the message is *)
(* one byte longer.                                                        *)
(***************************************************************************)
LEMMA AppendFails ==
  ASSUME NEW f, NEW blobs, NEW key, Shape(f, blobs, key), key # "none",
         NEW b \in Range(f.tail),
         NEW g, g = [f EXCEPT !.len = @ + 1, !.tail = Append(@, b)]
  PROVE  Verify(g, key) # "OK"
<1> DEFINE B == Len(blobs)
           S == Range(f.tail)
           u == Append(f.tail, b)
<1>1. f = [header |-> f.header, table |-> f.table, tail |-> f.tail, len |-> f.len]
  BY DEF Shape
<1>2. g.header = f.header /\ g.table = f.table /\ g.tail = u /\ g.len = f.len + 1
  BY <1>1
<1>3. /\ f.tail \in Seq(S) /\ Len(f.tail) = B + HmacLen
      /\ \A i \in 1 .. B : f.tail[i] = blobs[i]
      /\ \A j \in 1 .. HmacLen :
           f.tail[B + j] = MacCell(key, f.header, f.table, blobs, j)
  BY SignedTail
<1>4. blobs \in Seq(Cell) /\ B \in Nat /\ HmacLen \in Nat /\ HmacLen > 0
  BY ShapeLengths DEF Shape
<1>5. BlobLen(g) = B + 1
  <2>1. PICK c \in Nat, l \in Nat : c = f.header.count /\ l = f.len
    BY ShapeLengths
  <2>2. TailLen(f) = l - HeaderSize - EntrySize * c /\ TailLen(f) = B + HmacLen
    BY <2>1, ShapeLengths DEF TailLen
  <2>3. TailLen(g) = l + 1 - HeaderSize - EntrySize * c
    <3>1. \A r : r.len = l + 1 /\ r.header.count = c
                  => TailLen(r) = l + 1 - HeaderSize - EntrySize * c
      BY DEF TailLen, HeaderSize, EntrySize
    <3> QED BY <1>2, <2>1, <3>1
  <2>4. g.header.flags = "hmac"
    BY <1>2, ShapeLengths
  <2>5. TailLen(g) = B + HmacLen + 1
    BY <1>4, <2>2, <2>3 DEF HeaderSize, EntrySize
  <2>6. BlobLen(g) = TailLen(g) - HmacLen
    BY <2>4 DEF BlobLen
  <2> HIDE DEF B
  <2> QED BY <1>4, <2>5, <2>6
<1> HIDE DEF B, S
<1>6. b \in S
  BY DEF S
<1>7. /\ u \in Seq(S) /\ Len(u) = B + HmacLen + 1 /\ u[B + HmacLen + 1] = b
      /\ \A i \in 1 .. B + HmacLen : u[i] = f.tail[i]
  BY <1>3, <1>4, <1>6
<1> HIDE DEF u
<1>v. PICK v : v = u
  OBVIOUS
<1> DEFINE w == SubSeq(v, 1, B + 1)
           x == SubSeq(v, (B + 1) + 1, (B + 1) + HmacLen)
<1>8. x \in Seq(S) /\ Len(x) = HmacLen /\ \A j \in 1 .. HmacLen : x[j] = v[(B + 1) + j]
  <2>1. v \in Seq(S) /\ B + 1 \in Nat /\ HmacLen \in Nat /\ (B + 1) + HmacLen <= Len(v)
    BY <1>4, <1>7, <1>v
  <2> QED BY <2>1, SubSeqAt
<1>9. Len(w) = B + 1
  BY <1>4, <1>7, <1>v
<1>10. Trailer(g) = x /\ MacOf(g, key) = Mac(key, f.header, f.table, w)
  BY <1>2, <1>5, <1>v DEF Trailer, MacOf
<1> HIDE DEF w, x
<1> SUFFICES ASSUME Verify(g, key) = "OK" PROVE FALSE
  OBVIOUS
<1>11. \A j \in 1 .. HmacLen : u[(B + 1) + j] = MacCell(key, f.header, f.table, w, j)
  BY <1>8, <1>10, <1>v, VerifyNeedsMac, MacTypes
<1>12. blobs # w
  BY <1>4, <1>9 DEF B
<1>13. CASE HmacLen > 1
  <2>1. PICK j : j = 2
    OBVIOUS
  <2>2. 1 \in 1 .. HmacLen /\ j \in 1 .. HmacLen /\ (B + 1) + 1 = B + j /\ B + j \in 1 .. B + HmacLen
    BY <1>4, <1>13, <2>1
  <2>3. u[B + j] = MacCell(key, f.header, f.table, w, 1)
    BY <1>11, <2>2
  <2>4. u[B + j] = MacCell(key, f.header, f.table, blobs, j)
    BY <1>3, <1>7, <2>2
  <2>5. MacCell(key, f.header, f.table, blobs, j) = MacCell(key, f.header, f.table, w, 1)
    BY <2>3, <2>4
  <2> QED BY <1>12, <2>5, MacCellTells
<1>14. CASE HmacLen = 1
  <2>1. b = MacCell(key, f.header, f.table, w, 1)
    <3>1. 1 \in 1 .. HmacLen /\ (B + 1) + 1 = B + HmacLen + 1
      BY <1>4, <1>14
    <3> QED BY <1>7, <1>11, <3>1
  <2>2. PICK i \in 1 .. B + HmacLen : b = f.tail[i]
    <3>1. DOMAIN f.tail = 1 .. B + HmacLen
      BY <1>3, <1>4
    <3> QED BY <3>1 DEF Range
  <2>3. CASE i <= B
    <3>1. i \in 1 .. B
      BY <1>4, <2>3
    <3>2. b \in Cell
      BY <1>3, <1>4, <2>2, <3>1 DEF B
    <3>3. "codec" \in DOMAIN b
      BY <3>2 DEF Cell
    <3>4. DOMAIN b = {"key", "msg", "k"}
      BY <2>1 DEF MacCell
    <3> QED BY <3>3, <3>4
  <2>4. CASE ~(i <= B)
    <3>1. i = B + 1 /\ 1 \in 1 .. HmacLen
      BY <1>4, <1>14, <2>4
    <3>2. b = MacCell(key, f.header, f.table, blobs, 1)
      BY <1>3, <2>2, <3>1
    <3>3. MacCell(key, f.header, f.table, blobs, 1) = MacCell(key, f.header, f.table, w, 1)
      BY <2>1, <3>2
    <3> QED BY <1>12, <3>3, MacCellTells
  <2> QED BY <2>3, <2>4
<1> QED BY <1>4, <1>13, <1>14

(***************************************************************************)
(* What an edited header can be: the section count and the fields not      *)
(* edited stay, and the edited one carries its own CRC or another's.       *)
(***************************************************************************)
LEMMA EditedHeader ==
  ASSUME NEW f, NEW key, HeaderShape(f, key), key # "none", NEW h \in HeaderEdits(f.header)
  PROVE  /\ h.count = f.header.count
         /\ h.magic = Magic /\ h.version = Version /\ h.flags = "none" /\ h.crc = CrcOf(h)
              <=> h = Stripped(f.header)
         /\ Stripped(f.header).count = f.header.count
<1> DEFINE d == f.header
           H(m, v, x, c) == [magic |-> m, version |-> v, flags |-> x, count |-> d.count, crc |-> c]
           F(m, v, x) == [magic |-> m, version |-> v, flags |-> x, count |-> d.count]
<1>1. d = H(Magic, Version, "hmac", F(Magic, Version, "hmac"))
  BY DEF HeaderShape, CrcOf
<1>2. \A m, v, x, c : CrcOf(H(m, v, x, c)) = F(m, v, x)
  BY DEF CrcOf
<1>3. Stripped(d) = H(Magic, Version, "none", F(Magic, Version, "none"))
  <2>1. PICK a : a = [d EXCEPT !.flags = "none"]
    OBVIOUS
  <2>2. a = H(Magic, Version, "none", F(Magic, Version, "hmac"))
    BY <1>1, <2>1
  <2>3. CrcOf(a) = F(Magic, Version, "none")
    BY <1>2, <2>2
  <2>4. [a EXCEPT !.crc = CrcOf(a)] = H(Magic, Version, "none", F(Magic, Version, "none"))
    BY <2>2, <2>3
  <2> QED BY <2>1, <2>4 DEF Stripped
<1>4. PICK e, c : /\ h = H(e[1], e[2], e[3], c)
                  /\ c = F(Magic, Version, "hmac") \/ c = F(e[1], e[2], e[3]) \/ e[3] = "hmac"
  <2> DEFINE E == {[d EXCEPT !.magic = "other"], [d EXCEPT !.version = Version + 1]}
                  \union {[d EXCEPT !.flags = x] : x \in {"none", "hmac", "unknown"}}
  <2>1. \A g \in E : \E m, v, x : g = H(m, v, x, F(Magic, Version, "hmac"))
    BY <1>1
  <2>2. \/ h \in E
        \/ \E g \in E : h = [d EXCEPT !.crc = CrcOf(g)] \/ h = [g EXCEPT !.crc = CrcOf(g)]
    BY DEF HeaderEdits
  <2> HIDE DEF E
  <2>3. CASE h \in E
    <3>1. PICK m, v, x : h = H(m, v, x, F(Magic, Version, "hmac"))
      BY <2>1, <2>3
    <3>2. PICK e : e = <<m, v, x>>
      OBVIOUS
    <3>3. e[1] = m /\ e[2] = v /\ e[3] = x
      BY <3>2
    <3> QED BY <3>1, <3>3
  <2>4. ASSUME NEW g \in E, h = [d EXCEPT !.crc = CrcOf(g)]
        PROVE  \E e, c : /\ h = H(e[1], e[2], e[3], c)
                         /\ \/ c = F(Magic, Version, "hmac") \/ c = F(e[1], e[2], e[3])
                            \/ e[3] = "hmac"
    <3>1. h = H(Magic, Version, "hmac", CrcOf(g))
      BY <1>1, <2>4
    <3>2. PICK e : e = <<Magic, Version, "hmac">>
      OBVIOUS
    <3>3. e[1] = Magic /\ e[2] = Version /\ e[3] = "hmac"
      BY <3>2
    <3> QED BY <3>1, <3>3
  <2>5. ASSUME NEW g \in E, h = [g EXCEPT !.crc = CrcOf(g)]
        PROVE  \E e, c : /\ h = H(e[1], e[2], e[3], c)
                         /\ \/ c = F(Magic, Version, "hmac") \/ c = F(e[1], e[2], e[3])
                            \/ e[3] = "hmac"
    <3>1. PICK m, v, x : g = H(m, v, x, F(Magic, Version, "hmac"))
      BY <2>1
    <3>2. CrcOf(g) = F(m, v, x)
      BY <1>2, <3>1
    <3>3. h = H(m, v, x, F(m, v, x))
      BY <2>5, <3>1, <3>2
    <3>4. PICK e : e = <<m, v, x>>
      OBVIOUS
    <3>5. e[1] = m /\ e[2] = v /\ e[3] = x
      BY <3>4
    <3> QED BY <3>3, <3>5
  <2> QED BY <2>2, <2>3, <2>4, <2>5
<1>5. /\ h.magic = e[1] /\ h.version = e[2] /\ h.flags = e[3] /\ h.count = d.count /\ h.crc = c
      /\ CrcOf(h) = F(e[1], e[2], e[3])
  BY <1>2, <1>4
<1>6. F(Magic, Version, "hmac") # F(Magic, Version, "none")
  <2>1. F(Magic, Version, "hmac").flags = "hmac" /\ F(Magic, Version, "none").flags = "none"
    OBVIOUS
  <2> QED BY <2>1
<1>7. ASSUME h.magic = Magic, h.version = Version, h.flags = "none", h.crc = CrcOf(h)
      PROVE  h = Stripped(d)
  BY <1>3, <1>4, <1>5, <1>7
<1>8. ASSUME h = Stripped(d)
      PROVE  h.magic = Magic /\ h.version = Version /\ h.flags = "none" /\ h.crc = CrcOf(h)
  BY <1>2, <1>3, <1>8
<1>9. Stripped(d).count = d.count
  BY <1>3
<1> QED BY <1>5, <1>7, <1>8, <1>9

(***************************************************************************)
(* A header field changed.  Clearing the HMAC flag with a matching CRC     *)
(* makes an unsigned container of it; any other change fails.              *)
(***************************************************************************)
LEMMA HeaderDamage ==
  ASSUME NEW f, NEW blobs, NEW key, Shape(f, blobs, key), key # "none",
         NEW h \in HeaderEdits(f.header), NEW g, g = [f EXCEPT !.header = h], g # f
  PROVE  Verify(g, key) # "OK" /\ (Verify(g, key) = "no-hmac" <=> h = Stripped(f.header))
<1>1. f = [header |-> f.header, table |-> f.table, tail |-> f.tail, len |-> f.len]
  BY DEF Shape
<1>2. g.header = h /\ g.table = f.table /\ g.tail = f.tail /\ g.len = f.len
  BY <1>1
<1>3. h # f.header
  <2> SUFFICES ASSUME h = f.header PROVE FALSE
    OBVIOUS
  <2>1. [f EXCEPT !.header = f.header] = f
    BY <1>1
  <2> QED BY <2>1
<1>4. /\ h.count = f.header.count
      /\ h.magic = Magic /\ h.version = Version /\ h.flags = "none" /\ h.crc = CrcOf(h)
           <=> h = Stripped(f.header)
  BY EditedHeader DEF Shape
<1>5. TailLen(g) = TailLen(f)
  BY <1>2, <1>4 DEF TailLen
<1>6. Verify(g, key) # "OK"
  <2> SUFFICES ASSUME Verify(g, key) = "OK" PROVE FALSE
    OBVIOUS
  <2>1. h.flags = "hmac"
    BY <1>2 DEF Verify
  <2>2. BlobLen(g) = BlobLen(f)
    BY <1>2, <1>5, <2>1, ShapeLengths DEF BlobLen
  <2>3. MacOf(g, key) = Mac(key, h, f.table, blobs)
    BY <1>2, <2>2, ShapeParts DEF MacOf
  <2>4. Trailer(g) = Mac(key, f.header, f.table, blobs)
    BY <1>2, <2>2, ShapeParts DEF Trailer
  <2>5. Mac(key, f.header, f.table, blobs) = Mac(key, h, f.table, blobs)
    BY <2>3, <2>4, VerifyNeedsMac
  <2>6. 1 \in 1 .. HmacLen
    BY ContainerConstants
  <2>7. MacCell(key, f.header, f.table, blobs, 1) = MacCell(key, h, f.table, blobs, 1)
    BY <2>5, <2>6, MacTypes
  <2> QED BY <1>3, <2>7, MacCellTells
<1>7. Verify(g, key) = "no-hmac" <=> ParseErr(g) = "OK" /\ h.flags # "hmac"
  BY <1>2 DEF Verify
<1>8. ASSUME ParseErr(g) = "OK", h.flags # "hmac" PROVE h = Stripped(f.header)
  <2>1. HeaderErr(g) = "OK"
    BY <1>8 DEF ParseErr
  <2>2. h.magic = Magic /\ h.version = Version /\ h.flags \in KnownFlags /\ h.crc = CrcOf(h)
    BY <1>2, <2>1 DEF HeaderErr
  <2> QED BY <1>4, <1>8, <2>2 DEF KnownFlags
<1>9. ASSUME h = Stripped(f.header) PROVE ParseErr(g) = "OK" /\ h.flags # "hmac"
  <2>1. h.magic = Magic /\ h.version = Version /\ h.flags = "none" /\ h.crc = CrcOf(h)
    BY <1>4, <1>9
  <2>2. /\ f.len \in Nat /\ f.header.count \in Nat /\ Len(blobs) \in Nat /\ HmacLen \in Nat
        /\ f.len >= HeaderSize + EntrySize * f.header.count
        /\ BlobLen(f) = Len(blobs) /\ TailLen(f) = Len(blobs) + HmacLen
    BY ShapeLengths
  <2>3. HeaderErr(g) = "OK"
    BY SMTT(30), <1>2, <2>1, <2>2 DEF HeaderErr, KnownFlags, HeaderSize, EntrySize
  <2>4. HeaderErr(f) = "OK" /\ TableErr(f) = "OK" /\ BlobsErr(f) = "OK"
    BY ShapeParses DEF ParseErr
  <2>5. TableErr(g) = "OK"
    BY <1>2, <1>4, <2>4 DEF TableErr
  <2>6. BlobLen(g) = Len(blobs) + HmacLen
    BY <1>2, <1>5, <2>1, <2>2 DEF BlobLen
  <2>7. BlobsErr(g) = "OK"
    <3>1. CompTotal(g) = Len(blobs)
      BY <1>2 DEF Shape, TableShape, CompTotal
    <3>2. ~(CompTotal(g) > BlobLen(g))
      BY <2>2, <2>6, <3>1
    <3>3. ASSUME NEW i \in 1 .. g.header.count
          PROVE  /\ g.table[i].raw_len # 0 /\ ~(g.table[i].raw_len > MaxRaw)
                 /\ ~(g.table[i].comp_len > BlobLen(g))
                 /\ ~(g.table[i].offset > BlobLen(g) - g.table[i].comp_len)
      <4>1. g.table[i] \in Entry /\ g.table[i].offset + g.table[i].comp_len <= Len(blobs)
        BY <1>2, <1>4 DEF Shape, TableShape
      <4>2. /\ g.table[i].raw_len \in 1 .. MaxRaw /\ g.table[i].comp_len \in Nat
            /\ g.table[i].offset \in Nat
        BY <4>1 DEF Entry
      <4>3. PICK o \in Nat, c \in Nat, b \in Nat, m \in Nat :
              /\ o = g.table[i].offset /\ c = g.table[i].comp_len
              /\ b = Len(blobs) /\ m = HmacLen
        BY <2>2, <4>2
      <4>4. BlobLen(g) = b + m /\ o + c <= b
        BY <2>6, <4>1, <4>3
      <4>5. ~(c > b + m) /\ ~(o > (b + m) - c)
        BY <4>4
      <4>6. g.table[i].raw_len # 0 /\ ~(g.table[i].raw_len > MaxRaw)
        BY <4>2, ContainerConstants
      <4> QED BY <4>3, <4>4, <4>5, <4>6
    <3> QED BY <3>2, <3>3 DEF BlobsErr
  <2> QED BY <1>2, <2>1, <2>3, <2>5, <2>7 DEF ParseErr
<1> QED BY <1>6, <1>7, <1>8, <1>9

(***************************************************************************)
(* The section count lowered: the last bytes are still the MAC of the old  *)
(* header.                                                                 *)
(***************************************************************************)
LEMMA CountDamage ==
  ASSUME NEW f, NEW blobs, NEW key, Shape(f, blobs, key), key # "none",
         f.table # <<>>, NEW g, g = CountEdit(f)
  PROVE  /\ Verify(g, key) \notin {"OK", "no-hmac"}
         /\ g.header.flags = "hmac"
<1> DEFINE l == f.header.count
           d == EntryBytes(Last(f.table))
           B == Len(blobs)
<1>1. f = [header |-> f.header, table |-> f.table, tail |-> f.tail, len |-> f.len]
  BY DEF Shape
<1>2. /\ f.header = [magic |-> f.header.magic, version |-> f.header.version,
                     flags |-> f.header.flags, count |-> f.header.count, crc |-> f.header.crc]
      /\ f.header.flags = "hmac"
  BY DEF Shape, HeaderShape
<1>3. PICK e : /\ e = g.header /\ e.flags = "hmac" /\ e.count = l - 1
               /\ g.tail = d \o f.tail /\ g.len = f.len
  <2>1. PICK h : h = [f.header EXCEPT !.count = @ - 1]
    OBVIOUS
  <2>2. PICK e : e = [h EXCEPT !.crc = CrcOf(h)]
    OBVIOUS
  <2>3. e.flags = "hmac" /\ e.count = l - 1
    BY <1>2, <2>1, <2>2
  <2>4. g = [f EXCEPT !.header = e, !.table = Front(@), !.tail = d \o @]
    BY <2>1, <2>2 DEF CountEdit
  <2>5. g.header = e /\ g.tail = d \o f.tail /\ g.len = f.len
    BY <1>1, <2>4
  <2> QED BY <2>3, <2>5
<1>4. /\ l \in Nat /\ B \in Nat /\ HmacLen \in Nat /\ HmacLen > 0 /\ f.len \in Nat
      /\ TailLen(f) = B + HmacLen
  BY ShapeLengths
<1>5. e # f.header
  BY <1>3, <1>4
<1>6. TailLen(g) = EntrySize + B + HmacLen /\ BlobLen(g) = EntrySize + B
  <2>1. PICK n \in Nat, c \in Nat, b \in Nat, m \in Nat : n = f.len /\ c = l /\ b = B /\ m = HmacLen
    BY <1>4
  <2>2. n - HeaderSize - EntrySize * c = b + m
    BY <1>4, <2>1 DEF TailLen
  <2>3. n - HeaderSize - EntrySize * (c - 1) = EntrySize + b + m
    BY <2>2 DEF HeaderSize, EntrySize
  <2>4. TailLen(g) = n - HeaderSize - EntrySize * (c - 1)
    BY <1>3, <2>1 DEF TailLen
  <2>5. (EntrySize + b + m) - m = EntrySize + b
    BY DEF EntrySize
  <2>6. BlobLen(g) = TailLen(g) - HmacLen
    BY <1>3 DEF BlobLen
  <2>7. TailLen(g) = EntrySize + b + m
    BY <2>3, <2>4
  <2>8. BlobLen(g) = EntrySize + b
    <3>1. PICK t, z : t = TailLen(g) /\ z = HmacLen
      OBVIOUS
    <3>2. BlobLen(g) = t - z /\ t = EntrySize + b + m /\ z = m
      BY <2>1, <2>6, <2>7, <3>1
    <3>3. BlobLen(g) = (EntrySize + b + m) - m
      BY <3>2, Zenon
    <3> QED BY <2>5, <3>3, Zenon
  <2> HIDE DEF B
  <2> QED BY <2>1, <2>7, <2>8
<1>7. /\ f.tail \in Seq(Range(f.tail)) /\ Len(f.tail) = B + HmacLen
      /\ \A j \in 1 .. HmacLen : f.tail[B + j] = MacCell(key, f.header, f.table, blobs, j)
  BY SignedTail
<1> DEFINE S == Range(f.tail) \cup Range(d)
<1>8. d \in Seq(Range(d)) /\ Len(d) = EntrySize
  BY DEF EntryBytes, EntrySize, Range
<1>9. d \in Seq(S) /\ f.tail \in Seq(S)
  BY <1>7, <1>8
<1> HIDE DEF d, S, B, l
<1>10. PICK u : u = g.tail
  OBVIOUS
<1>11. /\ u \in Seq(S) /\ Len(u) = EntrySize + B + HmacLen
       /\ \A i \in 1 .. B + HmacLen : u[EntrySize + i] = f.tail[i]
  <2>1. EntrySize \in Nat
    BY DEF EntrySize
  <2>2. u = d \o f.tail
    BY <1>3, <1>10
  <2>3. u \in Seq(S) /\ Len(u) = Len(d) + Len(f.tail)
    BY <1>9, <2>2, ConcatProperties
  <2>4. \A i \in 1 .. Len(d) + Len(f.tail) :
          u[i] = IF i <= Len(d) THEN d[i] ELSE f.tail[i - Len(d)]
    BY <1>9, <2>2, ConcatProperties
  <2>5. ASSUME NEW i \in 1 .. B + HmacLen PROVE u[EntrySize + i] = f.tail[i]
    <3>1. PICK k : k = EntrySize + i
      OBVIOUS
    <3>2. k \in 1 .. EntrySize + (B + HmacLen) /\ ~(k <= EntrySize) /\ k - EntrySize = i
      BY <1>4, <2>1, <3>1
    <3> QED BY <1>7, <1>8, <2>4, <3>1, <3>2
  <2>6. EntrySize + (B + HmacLen) = EntrySize + B + HmacLen
    BY <1>4, <2>1
  <2> QED BY <1>7, <1>8, <2>3, <2>5, <2>6
<1> SUFFICES ASSUME Verify(g, key) = "OK" PROVE FALSE
  BY <1>3 DEF Verify
<1>12. Trailer(g) = MacOf(g, key)
  BY VerifyNeedsMac
<1>13. PICK t, w : MacOf(g, key) = Mac(key, e, t, w)
  BY <1>3 DEF MacOf
<1>14. Trailer(g)[1] = u[EntrySize + B + 1]
  <2>1. PICK b \in Nat : b = EntrySize + B
    BY <1>4 DEF EntrySize
  <2>2. PICK m \in Nat : m = HmacLen
    BY <1>4
  <2>3. Trailer(g) = SubSeq(u, b + 1, b + m)
    BY <1>6, <1>10, <2>1, <2>2 DEF Trailer
  <2>4. b + m <= Len(u) /\ 1 \in 1 .. m
    BY <1>4, <1>11, <2>1, <2>2
  <2>5. \A j \in 1 .. m : SubSeq(u, b + 1, b + m)[j] = u[b + j]
    BY <1>11, <2>4, SubSeqAt
  <2> QED BY <2>1, <2>3, <2>4, <2>5
<1>15. EntrySize + B + 1 = EntrySize + (B + 1) /\ B + 1 \in 1 .. B + HmacLen /\ 1 \in 1 .. HmacLen
  BY <1>4 DEF EntrySize
<1>16. u[EntrySize + B + 1] = MacCell(key, f.header, f.table, blobs, 1)
  BY <1>7, <1>11, <1>15
<1>17. MacCell(key, f.header, f.table, blobs, 1) = MacCell(key, e, t, w, 1)
  BY <1>12, <1>13, <1>14, <1>15, <1>16, MacTypes
<1> QED BY <1>5, <1>17, MacCellTells

(***************************************************************************)
(* No proper prefix of an emitted container parses; no single change to a  *)
(* signed one, in its header, table, blobs, trailer or length, gets an OK  *)
(* from dtl verify; and clearing the HMAC flag under a new CRC is the only *)
(* one it exits 0 on.                                                      *)
(***************************************************************************)
THEOREM DamageDetected == WriterSpec => []DamageFails
<1>1. OutShape => DamageFails
  <2> SUFFICES ASSUME OutShape PROVE DamageFails
    OBVIOUS
  <2>1. ASSUME out # NoFile, NEW n \in 0 .. out.len - 1
        PROVE  ParseErr([out EXCEPT !.len = n]) # "OK"
    <3>1. PICK blobs, key : Shape(out, blobs, key)
      BY <2>1 DEF OutShape
    <3> QED BY <3>1, PrefixRefused
  <2>2. ASSUME Signed, NEW g \in Damaged(out), g # out
        PROVE  /\ Verify(g, SigningKey) # "OK"
               /\ Verify(g, SigningKey) = "no-hmac" <=> g.header = Stripped(out.header)
    <3>1. PICK blobs, key : Shape(out, blobs, key)
      BY <2>2 DEF OutShape, Signed
    <3>2. key # "none"
      BY <2>2, <3>1, ShapeLengths DEF Signed
    <3>3. SigningKey = key
      BY <3>1, <3>2, ShapeKey DEF SigningKey
    <3>4. \/ \E h \in HeaderEdits(out.header) : g = [out EXCEPT !.header = h]
          \/ out.table # <<>> /\ g = CountEdit(out)
          \/ \E t : g = [out EXCEPT !.table = t]
          \/ \E u \in TailEdits(out.tail) : g = [out EXCEPT !.tail = u]
          \/ \E b \in Range(out.tail) : g = [out EXCEPT !.len = @ + 1, !.tail = Append(@, b)]
      <4>1. out.table = <<>> => DOMAIN out.table = {}
        OBVIOUS
      <4> QED BY <2>2, <4>1 DEF Damaged
    <3>o. out = [header |-> out.header, table |-> out.table, tail |-> out.tail, len |-> out.len]
      BY <3>1 DEF Shape
    <3>s. Stripped(out.header).flags # "hmac"
      BY <3>1 DEF Stripped, Shape, HeaderShape
    <3>k. ASSUME g.header.flags = "hmac"
          PROVE  ~(Verify(g, key) = "no-hmac") /\ g.header # Stripped(out.header)
      BY <3>k, <3>s DEF Verify
    <3>h. out.header.flags = "hmac"
      BY <2>2 DEF Signed
    <3>5. CASE \E h \in HeaderEdits(out.header) : g = [out EXCEPT !.header = h]
      <4>1. PICK h \in HeaderEdits(out.header) : g = [out EXCEPT !.header = h]
        BY <3>5
      <4>2. g.header = h
        BY <3>o, <4>1
      <4> QED BY <2>2, <3>1, <3>2, <3>3, <4>1, <4>2, HeaderDamage
    <3>6. CASE out.table # <<>> /\ g = CountEdit(out)
      BY <3>1, <3>2, <3>3, <3>6, <3>k, CountDamage
    <3>7. CASE \E t : g = [out EXCEPT !.table = t]
      <4>1. g.header = out.header
        BY <3>7, <3>o
      <4> QED BY <2>2, <3>1, <3>2, <3>3, <3>7, <3>h, <3>k, <4>1, TableDamageFails
    <3>8. CASE \E u \in TailEdits(out.tail) : g = [out EXCEPT !.tail = u]
      <4>1. PICK u \in TailEdits(out.tail) : g = [out EXCEPT !.tail = u]
        BY <3>8
      <4>2. PICK k \in 1 .. Len(out.tail) - 1 : u = [out.tail EXCEPT ![k] = out.tail[k + 1]]
        BY DEF TailEdits
      <4>3. g.header = out.header
        BY <3>o, <4>1
      <4> QED BY <2>2, <3>1, <3>2, <3>3, <3>h, <3>k, <4>1, <4>2, <4>3, TailDamageFails
    <3>9. CASE \E b \in Range(out.tail) : g = [out EXCEPT !.len = @ + 1, !.tail = Append(@, b)]
      <4>1. g.header = out.header
        BY <3>9, <3>o
      <4>2. PICK b \in Range(out.tail) : g = [out EXCEPT !.len = @ + 1, !.tail = Append(@, b)]
        BY <3>9
      <4>3. Verify(g, key) # "OK"
        BY <3>1, <3>2, <4>2, AppendFails
      <4> QED BY <3>3, <3>h, <3>k, <4>1, <4>3
    <3> QED BY <3>4, <3>5, <3>6, <3>7, <3>8, <3>9
  <2>3. ASSUME Signed, NEW g \in Damaged(out) \ {out}
        PROVE  /\ Verify(g, SigningKey) # "OK"
               /\ VerifyExit(g, SigningKey) = 0 <=> g.header = Stripped(out.header)
    BY <2>2, <2>3 DEF VerifyExit
  <2> QED BY <2>1, <2>3 DEF DamageFails
<1> QED BY <1>1, OutShapeInductive, PTL

-----------------------------------------------------------------------------

(***************************************************************************)
(* The refinement: every call of the writer is a step of the log, or no    *)
(* step of it.                                                             *)
(***************************************************************************)
OpenLog == IF in_section THEN [type |-> cur_type, stream |-> Whole(tlv)] ELSE NoSection

(***************************************************************************)
(* The torn TLV a failed add leaves is no part of the log.                 *)
(***************************************************************************)
LEMMA WholeItems ==
  ASSUME NEW t \in Seq(Item)
  PROVE  Whole(t) = t /\ Whole(Append(t, Torn)) = t
<1>1. Torn \notin Range(t)
  BY ItemTypes DEF Range
<1>2. Torn \in Range(Append(t, Torn))
  <2>1. Len(t) + 1 \in DOMAIN Append(t, Torn) /\ Append(t, Torn)[Len(t) + 1] = Torn
    OBVIOUS
  <2> QED BY <2>1 DEF Range
<1>3. Front(Append(t, Torn)) = t
  BY DEF Front
<1> QED BY <1>1, <1>2, <1>3 DEF Whole

(***************************************************************************)
(* A section is told apart from no section.                                *)
(***************************************************************************)
LEMMA SectionIsOne ==
  ASSUME NEW type \in Types, NEW t \in Seq(Item)
  PROVE  [type |-> type, stream |-> t] # NoSection
<1>1. [type |-> type, stream |-> t] \in [type : Types, stream : Seq(Item)]
  OBVIOUS
<1> QED BY <1>1, LogAssumption

(***************************************************************************)
(* A failing call refuses: closed, open and published stay.                *)
(***************************************************************************)
LEMMA RefuseStep ==
  ASSUME err = "OK", err' # "OK", sections' = sections, out' = out, OpenLog' = OpenLog
  PROVE  Log!Refuse
<1>1. Streams(sections)' = Streams(sections)
  BY DEF Streams
<1>2. ReadOut(out)' = ReadOut(out)
  OBVIOUS
<1> QED BY <1>1, <1>2 DEF Log!Refuse, OpenLog

(***************************************************************************)
(* begin_section opens an empty section.                                   *)
(***************************************************************************)
LEMMA BeginOpens ==
  ASSUME WriterInv, NEW t \in Types, NEW c, Begin(t, c)
  PROVE  Log!Open
<1>1. /\ err = "OK" /\ err' = err /\ ~in_section /\ in_section' /\ cur_type' = t
      /\ tlv' = <<>> /\ sections' = sections /\ out' = out
  BY DEF Begin, NoError
<1>2. <<>> \in Seq(Item) /\ Whole(<<>>) = <<>>
  <2>1. <<>> \in Seq(Item)
    OBVIOUS
  <2>2. Whole(<<>>) = <<>>
    BY <2>1, WholeItems, Zenon
  <2> QED BY <2>1, <2>2
<1>3. OpenLog = NoSection
  BY <1>1 DEF OpenLog
<1>4. OpenLog' = [type |-> t, stream |-> <<>>]
  BY <1>1, <1>2 DEF OpenLog
<1>5. OpenLog' # NoSection
  BY <1>2, <1>4, SectionIsOne
<1>6. OpenLog' = [type |-> OpenLog'.type, stream |-> <<>>]
  <2>1. PICK o : o = OpenLog'
    OBVIOUS
  <2>2. o = [type |-> o.type, stream |-> <<>>]
    BY <1>4, <2>1
  <2> QED BY <2>1, <2>2
<1>7. Streams(sections)' = Streams(sections) /\ ReadOut(out)' = ReadOut(out)
  BY <1>1
<1> QED BY <1>1, <1>3, <1>5, <1>6, <1>7 DEF Log!Open, OpenLog

(***************************************************************************)
(* A record added whole goes to the end of the open section.               *)
(***************************************************************************)
LEMMA AddAdds ==
  ASSUME WriterInv, NEW r \in Items, AddWhole(r)
  PROVE  Log!Add
<1>1. PICK x \in Item : x = [tag |-> r.tag, plen |-> r.plen]
  BY ItemTypes
<1>2. /\ err = "OK" /\ err' = err /\ in_section /\ in_section' /\ cur_type' = cur_type
      /\ tlv' = Append(tlv, x) /\ sections' = sections /\ out' = out
  BY <1>1 DEF AddWhole, NoError, section
<1>3. tlv \in Seq(Item) /\ cur_type \in Types
  BY <1>2 DEF WriterInv, WriterTypes
<1>4. Append(tlv, x) \in Seq(Item)
  BY <1>3
<1>5. OpenLog = [type |-> cur_type, stream |-> tlv]
  BY <1>2, <1>3, WholeItems DEF OpenLog
<1>6. OpenLog' = [type |-> cur_type, stream |-> Append(tlv, x)]
  BY <1>2, <1>4, WholeItems DEF OpenLog
<1>7. OpenLog # NoSection /\ OpenLog' # NoSection
  BY <1>3, <1>4, <1>5, <1>6, SectionIsOne
<1>8. PICK o, p : o = OpenLog /\ p = OpenLog'
  OBVIOUS
<1>9. p.stream # <<>> /\ p = [o EXCEPT !.stream = Append(o.stream, p.stream[Len(p.stream)])]
  <2>1. o.stream = tlv /\ p.stream = Append(tlv, x)
    BY <1>5, <1>6, <1>8
  <2>2. Append(tlv, x) # <<>> /\ Append(tlv, x)[Len(Append(tlv, x))] = x
    BY <1>3
  <2>3. [o EXCEPT !.stream = Append(tlv, x)] = p
    <3>1. PICK a : a = Append(tlv, x)
      OBVIOUS
    <3>2. o = [type |-> cur_type, stream |-> tlv] /\ p = [type |-> cur_type, stream |-> a]
      BY <1>5, <1>6, <1>8, <3>1
    <3>3. [o EXCEPT !.stream = a] = p
      BY <3>2
    <3> QED BY <3>1, <3>3
  <2> QED BY <2>1, <2>2, <2>3
<1>10. Streams(sections)' = Streams(sections) /\ ReadOut(out)' = ReadOut(out)
  BY <1>2
<1> QED BY <1>2, <1>7, <1>8, <1>9, <1>10 DEF Log!Add, OpenLog

(***************************************************************************)
(* A section that ends decodes to the TLVs of the accumulator.             *)
(***************************************************************************)
LEMMA EndStreams ==
  ASSUME WriterInv, End
  PROVE  /\ tlv # <<>>
         /\ Streams(sections)' = Append(Streams(sections), [type |-> cur_type, stream |-> tlv])
<1>1. err = "OK" /\ in_section /\ tlv_len # 0 /\ cur_codec \in Codecs
  BY DEF End
<1>2. tlv \in Seq(Item) /\ cur_type \in Types /\ tlv_len = StreamLen(tlv)
      /\ sections \in Seq(Closed)
  BY <1>1 DEF WriterInv, WriterTypes
<1>3. tlv # <<>>
  BY <1>1, <1>2, StreamLenTypes
<1>4. PICK n \in Nat \ {0}, s \in Closed :
        /\ s = [type |-> cur_type, codec_id |-> cur_codec, raw_len |-> tlv_len,
                comp_len |-> n, blob |-> Encode(cur_codec, tlv, n)]
        /\ sections' = Append(sections, s)
  BY EndCloses
<1>5. s.type = cur_type /\ Decode(s.codec_id, s.blob) = tlv
  BY <1>1, <1>2, <1>4, EncodeDecodes
<1>6. Streams(Append(sections, s)) = Append(Streams(sections), [type |-> cur_type, stream |-> tlv])
  <2> DEFINE E == {[type |-> q.type, stream |-> Decode(q.codec_id, q.blob)] : q \in Closed}
             v(q) == [type |-> q.type, stream |-> Decode(q.codec_id, q.blob)]
             l == Len(sections)
  <2>1. v(s) = [type |-> cur_type, stream |-> tlv]
    BY <1>5
  <2>2. \A q \in Closed : v(q) \in E
    OBVIOUS
  <2> HIDE DEF E
  <2>3. \A q \in Seq(Closed) : Streams(q) = [i \in 1 .. Len(q) |-> v(q[i])]
    BY DEF Streams
  <2> HIDE DEF v
  <2>4. l \in Nat /\ Append(sections, s) \in Seq(Closed) /\ Len(Append(sections, s)) = l + 1
    BY <1>2
  <2>5. \A i \in 1 .. l + 1 : Append(sections, s)[i] = IF i <= l THEN sections[i] ELSE s
    BY <1>2
  <2>6. Streams(sections) \in Seq(E) /\ Len(Streams(sections)) = l
    BY <1>2, <2>2, <2>3
  <2>7. Streams(Append(sections, s)) \in Seq(E) /\ Len(Streams(Append(sections, s))) = l + 1
    <3>1. PICK q \in Seq(Closed) : q = Append(sections, s)
      BY <2>4
    <3>2. Len(q) = l + 1 /\ \A i \in 1 .. l + 1 : q[i] \in Closed
      BY <2>4, <3>1
    <3>3. Streams(q) \in Seq(E) /\ Len(Streams(q)) = l + 1
      BY <2>2, <2>3, <2>4, <3>2
    <3> QED BY <3>1, <3>3
  <2>8. /\ Append(Streams(sections), v(s)) \in Seq(E)
        /\ Len(Append(Streams(sections), v(s))) = l + 1
        /\ \A i \in 1 .. l + 1 : Append(Streams(sections), v(s))[i]
                                   = IF i <= l THEN Streams(sections)[i] ELSE v(s)
    BY <2>2, <2>6
  <2>9. ASSUME NEW i \in 1 .. l + 1
        PROVE  Streams(Append(sections, s))[i] = Append(Streams(sections), v(s))[i]
    <3>1. Streams(Append(sections, s))[i] = v(Append(sections, s)[i])
      BY <2>3, <2>4
    <3>2. i <= l => Streams(sections)[i] = v(sections[i])
      BY <1>2, <2>3, <2>4
    <3> QED BY <2>5, <2>8, <3>1, <3>2
  <2> QED BY <2>1, <2>7, <2>8, <2>9, SeqEqual
<1> QED BY <1>3, <1>4, <1>6

(***************************************************************************)
(* end_section closes the open section with what it decodes to.            *)
(***************************************************************************)
LEMMA EndClosesLog ==
  ASSUME WriterInv, End
  PROVE  Log!Close
<1>1. /\ err = "OK" /\ err' = err /\ in_section /\ ~in_section' /\ out' = out /\ tlv_len # 0
  BY DEF End, NoError
<1>2. tlv \in Seq(Item) /\ cur_type \in Types /\ tlv_len = StreamLen(tlv)
  BY <1>1 DEF WriterInv, WriterTypes
<1>3. tlv # <<>>
  BY <1>1, <1>2, StreamLenTypes
<1>4. OpenLog = [type |-> cur_type, stream |-> tlv] /\ OpenLog' = NoSection
  BY <1>1, <1>2, WholeItems DEF OpenLog
<1>5. OpenLog # NoSection /\ OpenLog.stream # <<>>
  BY <1>2, <1>3, <1>4, SectionIsOne
<1>6. Streams(sections)' = Append(Streams(sections), OpenLog)
  BY <1>4, EndStreams
<1>7. ReadOut(out)' = ReadOut(out)
  BY <1>1
<1> QED BY <1>1, <1>4, <1>5, <1>6, <1>7 DEF Log!Close, OpenLog

(***************************************************************************)
(* What finish emits reads back as the sections closed so far.             *)
(***************************************************************************)
LEMMA LayoutReadsBack ==
  ASSUME WriterInv, BlobRegion <= U32Max
  PROVE  ReadOut(Layout) = Streams(sections)
<1>1. Shape(Layout, EmittedBlobs, hmac_key)
  BY LayoutShape
<1>2. Readable(Layout) /\ Layout # NoFile
  BY <1>1, ShapeReadable, LayoutIsFile
<1>3. Layout.table = EmittedTable /\ Layout.header.count = Len(sections)
  BY DEF Layout, EmittedHeader
<1>4. /\ Len(sections) \in Nat /\ DOMAIN sections = 1 .. Len(sections)
  BY SectionTypes
<1>5. ASSUME NEW i \in 1 .. Len(sections)
      PROVE  /\ Layout.table[i].type = sections[i].type
             /\ Blob(Layout, i) = sections[i].blob
             /\ Layout.table[i].codec_id = sections[i].codec_id
  <2>1. PICK e : e = Layout.table[i]
    OBVIOUS
  <2>2. e = [type |-> sections[i].type, codec_id |-> sections[i].codec_id, reserved |-> 0,
             raw_len |-> sections[i].raw_len, comp_len |-> sections[i].comp_len,
             offset |-> Offset(i)]
    BY <1>3, <1>4, <2>1, OffsetFits DEF EmittedTable
  <2>3. /\ e.type = sections[i].type /\ e.codec_id = sections[i].codec_id
        /\ e.comp_len = sections[i].comp_len /\ e.offset = Offset(i)
    BY <2>2
  <2>4. Blob(Layout, i) = BlobAt(EmittedBlobs, e)
    BY <1>1, <1>3, <2>1, ShapeParts
  <2>5. BlobAt(EmittedBlobs, e) = sections[i].blob
    BY <2>3, EmittedBlobAt
  <2> QED BY <2>1, <2>3, <2>4, <2>5
<1>6. ReadBack(Layout) = Streams(sections)
  <2>1. ReadBack(Layout) = [i \in 1 .. Len(sections) |->
                              [type |-> Layout.table[i].type,
                               stream |-> Decode(Layout.table[i].codec_id, Blob(Layout, i))]]
    BY <1>3 DEF ReadBack
  <2>2. Streams(sections) = [i \in 1 .. Len(sections) |->
                               [type |-> sections[i].type,
                                stream |-> Decode(sections[i].codec_id, sections[i].blob)]]
    BY <1>4 DEF Streams
  <2> QED BY <1>5, <2>1, <2>2
<1> QED BY <1>2, <1>6 DEF ReadOut

(***************************************************************************)
(* finish publishes.                                                       *)
(***************************************************************************)
LEMMA FinishPublishes ==
  ASSUME WriterInv, Finish
  PROVE  Log!Publish
<1>1. /\ err = "OK" /\ err' = err /\ ~in_section /\ ~in_section' /\ out' = Layout
      /\ sections' = sections /\ BlobRegion <= U32Max
  BY DEF Finish, NoError, section
<1>2. OpenLog = NoSection /\ OpenLog' = OpenLog
  BY <1>1 DEF OpenLog
<1>3. Streams(sections)' = Streams(sections) /\ ReadOut(out)' = Streams(sections)
  BY <1>1, LayoutReadsBack
<1> QED BY <1>1, <1>2, <1>3 DEF Log!Publish, OpenLog

(***************************************************************************)
(* A call that fails, with or without a torn TLV.                          *)
(***************************************************************************)
LEMMA FailRefuses ==
  ASSUME WriterInv, err = "OK", NEW f, NEW e, Latch(f, e), e # "OK",
         UNCHANGED <<section, sections, out>>,
         tlv' = tlv \/ tlv' = Append(tlv, Torn)
  PROVE  Log!Refuse
<1>1. err' # "OK" /\ sections' = sections /\ out' = out /\ in_section' = in_section
      /\ cur_type' = cur_type
  BY DEF Latch, section
<1>2. tlv \in Seq(Item)
  BY DEF WriterInv, WriterTypes
<1>3. Whole(tlv') = Whole(tlv)
  BY <1>2, WholeItems
<1>4. OpenLog' = OpenLog
  BY <1>1, <1>3 DEF OpenLog
<1> QED BY <1>1, <1>4, RefuseStep

(***************************************************************************)
(* Calls that leave the log alone.                                         *)
(***************************************************************************)
LEMMA LogStutter ==
  ASSUME sections' = sections, out' = out, tlv' = tlv, UNCHANGED section, err' = err
  PROVE  UNCHANGED Log!logVars
<1>1. OpenLog' = OpenLog
  BY DEF OpenLog, section
<1>2. Streams(sections)' = Streams(sections) /\ ReadOut(out)' = ReadOut(out)
  OBVIOUS
<1> QED BY <1>1, <1>2 DEF Log!logVars, OpenLog

(***************************************************************************)
(* Every call is a step of the log or leaves it alone.                     *)
(***************************************************************************)
LEMMA LogStep ==
  ASSUME WriterInv, [WriterNext]_vars
  PROVE  [Log!LogNext]_(Log!logVars)
<1>1. CASE BeginTooMany \/ WrongCall
  <2>1. \E e \in {"RANGE", "INVAL"} :
          err = "OK" /\ Latch(e, e) /\ UNCHANGED <<section, sections, out>> /\ tlv' = tlv
    BY <1>1 DEF BeginTooMany, WrongCall, Fails, buffer
  <2> QED BY <2>1, FailRefuses DEF Log!LogNext
<1>2. ASSUME NEW t \in Types, NEW c \in CodecIds, Begin(t, c)
      PROVE  [Log!LogNext]_(Log!logVars)
  BY <1>2, BeginOpens DEF Log!LogNext
<1>3. ASSUME NEW r \in Items, AddWhole(r) \/ AddRejected(r)
      PROVE  [Log!LogNext]_(Log!logVars)
  <2>1. CASE AddRejected(r)
    <3>1. \E e \in {"RANGE", "BADRECORD"} :
            /\ err = "OK" /\ Latch(e, e) /\ UNCHANGED <<section, sections, out>>
            /\ tlv' = Append(tlv, Torn)
      BY <2>1 DEF AddRejected, Fails
    <3> QED BY <3>1, FailRefuses DEF Log!LogNext
  <2> QED BY <1>3, <2>1, AddAdds DEF Log!LogNext
<1>4. ASSUME NEW r \in Items, NEW done, AddOom(r, done)
      PROVE  [Log!LogNext]_(Log!logVars)
  <2>1. r.flaw \in {"none", "long", "unknown"}
    BY ItemTypes DEF Flaws
  <2>2. \E e \in {"OOM", "RANGE", "BADRECORD"} :
          /\ err = "OK" /\ Latch("OOM", e) /\ UNCHANGED <<section, sections, out>>
          /\ tlv' = Append(tlv, Torn)
    BY <1>4, <2>1 DEF AddOom
  <2> QED BY <2>2, FailRefuses DEF Log!LogNext
<1>5. ASSUME NEW n \in Counts, BatchTooMany(n) \/ BatchUnstaged(n)
      PROVE  [Log!LogNext]_(Log!logVars)
  <2>1. \E e \in {"RANGE", "OOM"} :
          err = "OK" /\ Latch(e, e) /\ UNCHANGED <<section, sections, out>> /\ tlv' = tlv
    BY <1>5 DEF BatchTooMany, BatchUnstaged, Fails, buffer
  <2> QED BY <2>1, FailRefuses DEF Log!LogNext
<1>6. CASE EndFails \/ FinishFails
  <2>1. \A e \in EndErrs : e # "OK"
    BY DEF EndErrs
  <2>2. \E e : /\ e # "OK" /\ err = "OK" /\ Latch(e, e)
               /\ UNCHANGED <<section, sections, out>> /\ tlv' = tlv
    BY <1>6, <2>1 DEF EndFails, FinishFails, Fails, buffer
  <2> QED BY <2>2, FailRefuses DEF Log!LogNext
<1>7. CASE End
  BY <1>7, EndClosesLog DEF Log!LogNext
<1>8. ASSUME NEW k \in Keys, SetHmac(k) PROVE [Log!LogNext]_(Log!logVars)
  <2>1. sections' = sections /\ out' = out /\ tlv' = tlv /\ UNCHANGED section /\ err' = err
    BY <1>8 DEF SetHmac, buffer, NoError
  <2> QED BY <2>1, LogStutter
<1>9. CASE Finish
  BY <1>9, FinishPublishes DEF Log!LogNext
<1>10. CASE LatchedCall \/ UNCHANGED vars
  <2>1. sections' = sections /\ out' = out /\ tlv' = tlv /\ UNCHANGED section /\ err' = err
    BY <1>10 DEF LatchedCall, vars, section
  <2> QED BY <2>1, LogStutter
<1> QED BY <1>1, <1>2, <1>3, <1>4, <1>5, <1>6, <1>7, <1>8, <1>9, <1>10 DEF WriterNext

(***************************************************************************)
(* writer.h's promise: the emitted bytes decode to the records added.      *)
(***************************************************************************)
THEOREM WriterIsLog == WriterSpec => ImplementsLog
<1>1. WriterInit => Log!LogInit
  <2>1. ASSUME WriterInit PROVE Streams(sections) = <<>>
    BY <2>1 DEF WriterInit, Streams
  <2> QED BY <2>1 DEF WriterInit, Log!LogInit, ReadOut
<1>2. WriterInv /\ [WriterNext]_vars => [Log!LogNext]_(Log!logVars)
  BY LogStep
<1> QED BY <1>1, <1>2, WriterInductive, PTL DEF WriterSpec, ImplementsLog, Log!LogSpec
=============================================================================
