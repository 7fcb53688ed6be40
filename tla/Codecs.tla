------------------------------- MODULE Codecs --------------------------------
(***************************************************************************)
(* codec/: the six coding codecs (store copies) as functions on byte       *)
(* sequences.  Each encoder and decoder yields [rc, out]; cap is out_cap.  *)
(* Bytes are 0 .. Base - 1 and words are WordBytes bytes, so that 32-bit   *)
(* words can be scaled to what TLC counts with; the code has Base = 256,   *)
(* WordBytes = 4 and varint groups of Base \div 2 = 128 values.            *)
(*                                                                         *)
(* input is fed one byte at a time: every bounded input is reached.        *)
(***************************************************************************)
EXTENDS Integers, Sequences, FiniteSetsExt, SequencesExt

CONSTANTS Base,         \* 256
          WordBytes,    \* 4
          WordMax,      \* Base ^ WordBytes
          MaxRun,       \* DTL_RLE_MAX_RUN
          Window,       \* DTL_LZ77_WINDOW
          MaxMatch,     \* DTL_LZ77_MAX_MATCH
          LenBase,      \* 16: values of the length field of a match token
          GroupTokens,  \* 8: tokens under one flag byte
          DictBlock,    \* DTL_DICT_BLOCK
          DictMax,      \* DTL_DICT_MAX_ENTRIES
          GroupBytes,   \* 5: bytes of a base32 group
          GroupChars,   \* 8: characters of a base32 group
          CharBase,     \* 32
          Feeds,        \* [bytes, max]: the bytes fed and how many of them
          OutCap,       \* out_cap of a decode of arbitrary input
          Under         \* the codecs checked

ASSUME CodecConstants ==
  /\ WordMax = Base ^ WordBytes /\ \A f \in Feeds : f.bytes \subseteq 0 .. Base - 1
  /\ CharBase ^ GroupChars = Base ^ GroupBytes
  /\ MaxMatch <= LenBase + 2 /\ DictBlock < Base

VARIABLE input

Ok(s) == [rc |-> "OK", out |-> s]
Bad(e) == [rc |-> e, out |-> <<>>]
MinMatch == 3
Pad == CharBase   \* '=', a character outside the alphabet's values
Junk == -1        \* a byte read from outside the output buffer

Within(s, cap) == IF Len(s) > cap THEN Bad("RANGE") ELSE Ok(s)

(* dtl_endian_read_u32le and dtl_endian_write_u32le on scaled words.       *)
Word(s, i) == FoldRight(LAMBDA b, v : b + Base * v, SubSeq(s, i, i + WordBytes - 1), 0)
Bytes(v) == [k \in 1 .. WordBytes |-> (v \div Base ^ (k - 1)) % Base]

-----------------------------------------------------------------------------

StoreEncode(s, cap) == Within(s, cap)
StoreDecode(s, cap) == Within(s, cap)

Run(s, i, max) == CHOOSE n \in 1 .. max :
                    /\ i + n - 1 <= Len(s) /\ \A k \in 0 .. n - 1 : s[i + k] = s[i]
                    /\ n = max \/ i + n > Len(s) \/ s[i + n] # s[i]

(***************************************************************************)
(* codec/rle: count and value of each run, runs capped at MaxRun.          *)
(***************************************************************************)
RleEncode(s, cap) ==
  LET pairs[i \in Nat] ==
        IF i > Len(s) THEN <<>>
        ELSE LET n == Run(s, i, MaxRun) IN <<n, s[i]>> \o pairs[i + n]
  IN  Within(pairs[1], cap)

MutRunFits(n, room) == room >= 1

(* The room test of dtl_rle_decode before it writes a run.                 *)
RunFits(n, room) == room >= n

RleDecode(s, cap) ==
  LET from[i \in Nat, out \in Seq(Int)] ==
        IF i > Len(s) THEN Ok(out)
        ELSE IF i = Len(s) THEN Bad("TRUNCATED")
        ELSE IF s[i] = 0 THEN Bad("BADRECORD")
        ELSE IF ~RunFits(s[i], cap - Len(out)) THEN Bad("RANGE")
        ELSE from[i + 2, out \o [k \in 1 .. s[i] |-> s[i + 1]]]
  IN  from[1, <<>>]

-----------------------------------------------------------------------------

More == Base \div 2   \* 0x80

(***************************************************************************)
(* LEB128: groups of More values, low group first, the high bit set on all *)
(* but the last.                                                           *)
(***************************************************************************)
Leb(v) ==
  LET groups[w \in Nat] ==
        IF w < More THEN <<w>> ELSE <<(w % More) + More>> \o groups[w \div More]
  IN  groups[v]

MutLebAt(s, i) ==
  LET group[j \in Nat, mul \in Nat, v \in Nat] ==
        IF j > Len(s) THEN [rc |-> "OK", value |-> v % WordMax, next |-> j]
        ELSE IF mul >= WordMax THEN [rc |-> "RANGE", value |-> 0, next |-> j]
        ELSE IF s[j] < More THEN [rc |-> "OK", value |-> (v + s[j] * mul) % WordMax, next |-> j + 1]
        ELSE group[j + 1, mul * More, v + (s[j] - More) * mul]
  IN  group[i, 1, 0]

(***************************************************************************)
(* The varint read at i: its value and where it ends, or the error.  A     *)
(* group beyond the last one a word can hold is RANGE, as is a last group  *)
(* with bits the word has no room for.                                     *)
(***************************************************************************)
LebAt(s, i) ==
  LET bad(e) == [rc |-> e, value |-> 0, next |-> i]
      group[j \in Nat, mul \in Nat, v \in Nat] ==
        IF j > Len(s) THEN bad("TRUNCATED")
        ELSE IF mul >= WordMax THEN bad("RANGE")
        ELSE IF mul * More > WordMax /\ s[j] % More >= WordMax \div mul THEN bad("RANGE")
        ELSE LET w == v + (s[j] % More) * mul IN
             IF s[j] < More THEN [rc |-> "OK", value |-> w, next |-> j + 1]
             ELSE group[j + 1, mul * More, w]
  IN  group[i, 1, 0]

(***************************************************************************)
(* codec/varint.                                                           *)
(***************************************************************************)
VarintEncode(s, cap) ==
  LET from[i \in Nat, out \in Seq(Nat)] ==
        IF i > Len(s) THEN Ok(out)
        ELSE IF Len(s) - i + 1 < WordBytes THEN Bad("TRUNCATED")
        ELSE LET grown == out \o Leb(Word(s, i)) IN
             IF Len(grown) > cap THEN Bad("RANGE") ELSE from[i + WordBytes, grown]
  IN  from[1, <<>>]

VarintDecode(s, cap) ==
  LET from[i \in Nat, out \in Seq(Nat)] ==
        IF i > Len(s) THEN Ok(out)
        ELSE LET v == LebAt(s, i) IN
             IF v.rc # "OK" THEN Bad(v.rc)
             ELSE IF cap - Len(out) < WordBytes THEN Bad("RANGE")
             ELSE from[v.next, out \o Bytes(v.value)]
  IN  from[1, <<>>]

(***************************************************************************)
(* codec/delta: the first word raw, then the zig-zagged differences, all   *)
(* modulo the word size.                                                   *)
(***************************************************************************)
Zigzag(d) == IF d < WordMax \div 2 THEN 2 * d ELSE WordMax - 1 - ((2 * d) % WordMax)

MutUnzigzag(z) == IF z % 2 = 0 THEN z \div 2 ELSE WordMax - z \div 2

Unzigzag(z) == IF z % 2 = 0 THEN z \div 2 ELSE WordMax - 1 - z \div 2

DeltaEncode(s, cap) ==
  LET n == Len(s) \div WordBytes
      word(k) == Word(s, WordBytes * k + 1)
      delta(k) == Leb(Zigzag((word(k) - word(k - 1)) % WordMax))
  IN  IF s = <<>> THEN Ok(<<>>)
      ELSE IF Len(s) % WordBytes # 0 THEN Bad("TRUNCATED")
      ELSE Within(SubSeq(s, 1, WordBytes) \o FlattenSeq([k \in 1 .. n - 1 |-> delta(k)]), cap)

DeltaDecode(s, cap) ==
  LET from[i \in Nat, prev \in Nat, out \in Seq(Nat)] ==
        IF i > Len(s) THEN Ok(out)
        ELSE LET z == LebAt(s, i)
                 cur == (prev + Unzigzag(z.value)) % WordMax
             IN IF z.rc # "OK" THEN Bad(z.rc)
                ELSE IF cap - Len(out) < WordBytes THEN Bad("RANGE")
                ELSE from[z.next, cur, out \o Bytes(cur)]
  IN  IF s = <<>> THEN Ok(<<>>)
      ELSE IF Len(s) < WordBytes THEN Bad("TRUNCATED")
      ELSE IF cap < WordBytes THEN Bad("RANGE")
      ELSE from[WordBytes + 1, Word(s, 1), SubSeq(s, 1, WordBytes)]

-----------------------------------------------------------------------------

(***************************************************************************)
(* dtl_lz77_find: the longest match in the window before p (1-based), the  *)
(* farthest back of equally long ones; 0 below MinMatch.                   *)
(***************************************************************************)
MatchLen(s, q, p) ==
  Max({n \in 0 .. Min({Len(s) - p + 1, MaxMatch}) :
         \A k \in 0 .. n - 1 : s[q + k] = s[p + k]})

Find(s, p) ==
  LET starts == Max({1, p - Window}) .. p - 1
      best == Max({MatchLen(s, q, p) : q \in starts} \union {0})
  IN  IF best < MinMatch THEN [len |-> 0, off |-> 0]
      ELSE [len |-> best, off |-> p - Min({q \in starts : MatchLen(s, q, p) = best})]

(***************************************************************************)
(* codec/lz77: a flag byte, then up to GroupTokens literals and matches.   *)
(***************************************************************************)
LzToken(m) ==
  <<(m.off - 1) % Base, ((m.off - 1) \div Base) * LenBase + m.len - MinMatch>>

Lz77Encode(s, cap) ==
  LET tokens[p \in Nat] ==
        IF p > Len(s) THEN <<>>
        ELSE LET m == Find(s, p) IN
             IF m.len > 0 THEN <<[match |-> 1, bytes |-> LzToken(m)]>> \o tokens[p + m.len]
             ELSE <<[match |-> 0, bytes |-> <<s[p]>>]>> \o tokens[p + 1]
      all == tokens[1]
      group(g) == SubSeq(all, GroupTokens * (g - 1) + 1, Min({GroupTokens * g, Len(all)}))
      flag(ts) == FoldRight(LAMBDA t, f : t.match + 2 * f, ts, 0)
      emit(ts) == <<flag(ts)>> \o FlattenSeq([k \in DOMAIN ts |-> ts[k].bytes])
      ngroups == (Len(all) + GroupTokens - 1) \div GroupTokens
  IN  Within(FlattenSeq([g \in 1 .. ngroups |-> emit(group(g))]), cap)

(***************************************************************************)
(* The copy of a match byte by byte, what was just copied included.  The   *)
(* bound on the offset is the code's: it lets one byte before the output.  *)
(***************************************************************************)
OffsetRejected(off, out) == off > Len(out) + 1

Copied(out, off, len) ==
  LET step(o, k) == LET q == Len(o) - off + 1 IN Append(o, IF q >= 1 THEN o[q] ELSE Junk)
  IN  FoldLeft(step, out, [k \in 1 .. len |-> k])

Lz77Decode(s, cap) ==
  LET from[i \in Nat, bit \in Nat, flag \in Nat, out \in Seq(Int)] ==
        IF i > Len(s) THEN Ok(out)
        ELSE IF bit = GroupTokens THEN from[i + 1, 0, s[i], out]
        ELSE IF (flag \div 2 ^ bit) % 2 = 0
        THEN IF cap - Len(out) < 1 THEN Bad("RANGE")
             ELSE from[i + 1, bit + 1, flag, Append(out, s[i])]
        ELSE IF i = Len(s) THEN Bad("TRUNCATED")
        ELSE LET off == s[i] + Base * (s[i + 1] \div LenBase) + 1
                 len == (s[i + 1] % LenBase) + MinMatch
             IN IF OffsetRejected(off, out) THEN Bad("BADRECORD")
                ELSE IF cap - Len(out) < len THEN Bad("RANGE")
                ELSE from[i + 2, bit + 1, flag, Copied(out, off, len)]
  IN  from[1, GroupTokens, 0, <<>>]

-----------------------------------------------------------------------------

(* A table that would outgrow the u16 id space.                            *)
DictFull(entries) == entries > DictMax

(***************************************************************************)
(* codec/dict: the distinct blocks in order of first use as the phrase     *)
(* table, then a token per block.  A u16 takes two bytes.                  *)
(***************************************************************************)
U16(v) == <<v % Base, v \div Base>>

DictEncode(s, cap) ==
  LET nblocks == (Len(s) + DictBlock - 1) \div DictBlock
      block(b) == SubSeq(s, DictBlock * (b - 1) + 1, Min({DictBlock * b, Len(s)}))
      blocks == [b \in 1 .. nblocks |-> block(b)]
      table == FoldLeft(LAMBDA t, b : IF b \in Range(t) THEN t ELSE Append(t, b), <<>>, blocks)
      id(b) == (CHOOSE e \in DOMAIN table : table[e] = b) - 1
  IN  IF DictFull(Len(table)) THEN Bad("RANGE")
      ELSE Within(U16(Len(table))
                  \o FlattenSeq([e \in DOMAIN table |-> <<Len(table[e])>> \o table[e]])
                  \o FlattenSeq([b \in 1 .. nblocks |-> U16(id(blocks[b]))]), cap)

DictDecode(s, cap) ==
  LET count == s[1] + Base * s[2]
      emit[i \in Nat, table \in Seq(Seq(Nat)), out \in Seq(Nat)] ==
        IF i > Len(s) THEN Ok(out)
        ELSE IF i = Len(s) THEN Bad("TRUNCATED")
        ELSE LET id == s[i] + Base * s[i + 1] IN
             IF id >= count THEN Bad("BADRECORD")
             ELSE IF cap - Len(out) < Len(table[id + 1]) THEN Bad("RANGE")
             ELSE emit[i + 2, table, out \o table[id + 1]]
      read[i \in Nat, table \in Seq(Seq(Nat))] ==
        IF Len(table) = count THEN emit[i, table, <<>>]
        ELSE IF i > Len(s) \/ Len(s) - i < s[i] THEN Bad("TRUNCATED")
        ELSE read[i + 1 + s[i], Append(table, SubSeq(s, i + 1, i + s[i]))]
  IN  IF Len(s) < 2 THEN Bad("TRUNCATED") ELSE read[3, <<>>]

-----------------------------------------------------------------------------

(***************************************************************************)
(* codec/base32: groups of bytes as one big-endian number, written in      *)
(* CharBase; a short last group is padded.                                 *)
(***************************************************************************)
CharsFor(nbytes) ==   \* dtl_base32_chars_for_bytes
  CHOOSE c \in 0 .. GroupChars : /\ CharBase ^ c >= Base ^ nbytes
                                 /\ c > 0 => CharBase ^ (c - 1) < Base ^ nbytes

Number(digits, base) == FoldLeft(LAMBDA v, d : v * base + d, 0, digits)
Filled(s, n, d) == s \o [k \in 1 .. n - Len(s) |-> d]

Base32Encode(s, cap) ==
  LET ngroups == (Len(s) + GroupBytes - 1) \div GroupBytes
      bytes(g) == SubSeq(s, GroupBytes * (g - 1) + 1, Min({GroupBytes * g, Len(s)}))
      chars(bs) ==
        LET acc == Number(Filled(bs, GroupBytes, 0), Base) IN
        [j \in 1 .. GroupChars |->
           IF j <= CharsFor(Len(bs)) THEN (acc \div CharBase ^ (GroupChars - j)) % CharBase
           ELSE Pad]
  IN  Within(FlattenSeq([g \in 1 .. ngroups |-> chars(bytes(g))]), cap)

(* The bytes a group with that many pads stands for; none if it is illegal.*)
DataBytes(pad) == {b \in 1 .. GroupBytes : GroupChars - CharsFor(b) = pad}

Base32Decode(s, cap) ==
  LET ngroups == Len(s) \div GroupChars
      grp(g) == SubSeq(s, GroupChars * (g - 1) + 1, GroupChars * g)
      pad(cs) == Max({n \in 0 .. GroupChars :
                        \A j \in GroupChars - n + 1 .. GroupChars : cs[j] = Pad})
      from[g \in Nat, out \in Seq(Nat)] ==
        IF g > ngroups THEN Ok(out)
        ELSE LET cs == grp(g)
                 data == SubSeq(cs, 1, GroupChars - pad(cs))
                 n == Max(DataBytes(pad(cs)))
                 acc == Number(Filled(data, GroupChars, 0), CharBase)
             IN IF \/ g # ngroups /\ pad(cs) # 0
                   \/ DataBytes(pad(cs)) = {}
                   \/ \E j \in DOMAIN data : data[j] >= CharBase
                THEN Bad("BADRECORD")
                ELSE IF cap - Len(out) < n THEN Bad("RANGE")
                ELSE from[g + 1, out \o [k \in 1 .. n |-> (acc \div Base ^ (GroupBytes - k)) % Base]]
  IN  IF Len(s) % GroupChars # 0 THEN Bad("TRUNCATED") ELSE from[1, <<>>]

-----------------------------------------------------------------------------

(* dtl_codec_get.                                                          *)
EncodeBy(c, s, cap) ==
  CASE c = "store" -> StoreEncode(s, cap)
    [] c = "rle" -> RleEncode(s, cap)
    [] c = "varint" -> VarintEncode(s, cap)
    [] c = "delta" -> DeltaEncode(s, cap)
    [] c = "lz77" -> Lz77Encode(s, cap)
    [] c = "dict" -> DictEncode(s, cap)
    [] c = "base32" -> Base32Encode(s, cap)

DecodeBy(c, s, cap) ==
  CASE c = "store" -> StoreDecode(s, cap)
    [] c = "rle" -> RleDecode(s, cap)
    [] c = "varint" -> VarintDecode(s, cap)
    [] c = "delta" -> DeltaDecode(s, cap)
    [] c = "lz77" -> Lz77Decode(s, cap)
    [] c = "dict" -> DictDecode(s, cap)
    [] c = "base32" -> Base32Decode(s, cap)

Init == input = <<>>

Feed == \E f \in Feeds :
          /\ Len(input) < f.max /\ Range(input) \subseteq f.bytes
          /\ \E b \in f.bytes : input' = Append(input, b)

Spec == Init /\ [][Feed]_input

(* A buffer no encoder outgrows.                                           *)
Ample == 8 * (Len(input) + 1)

(***************************************************************************)
(* Every decoder inverts its encoder, given room for exactly the original  *)
(* (the raw_len of the section): dtl_writer_end_section followed by the    *)
(* readers' decode.                                                        *)
(***************************************************************************)
RoundTrip ==
  \A c \in Under :
    LET e == EncodeBy(c, input, Ample) IN
      e.rc = "OK" => DecodeBy(c, e.out, Len(input)) = Ok(input)

(***************************************************************************)
(* A blob that lost its end is refused or decodes to a proper prefix of    *)
(* the original: the strict readers' got # raw_len test never misses it,   *)
(* and the walk, which has no such test, never delivers an invented byte.  *)
(***************************************************************************)
CutDecodesToPrefix ==
  \A c \in Under :
    LET e == EncodeBy(c, input, Ample).out IN
      \A n \in 0 .. Len(e) - 1 :
        LET d == DecodeBy(c, SubSeq(e, 1, n), Len(input)) IN
          d.rc = "OK" => IsStrictPrefix(d.out, input)

(***************************************************************************)
(* No encoder makes more than twice its input and one base32 group or dict *)
(* header of it, so the first retry of dtl_writer_end_section, with 3n +   *)
(* 192 bytes, is never short; only partial words and full dict tables are  *)
(* refused.  Whatever the blob, a decoder that succeeds wrote at most      *)
(* out_cap bytes and words only whole.                                     *)
(***************************************************************************)
CodecsBounded ==
  \A c \in Under :
    LET e == EncodeBy(c, input, 2 * Len(input) + GroupChars)
        d == DecodeBy(c, input, OutCap)
    IN  /\ \/ e.rc = "OK"
           \/ e.rc = "TRUNCATED" /\ c \in {"varint", "delta"} /\ Len(input) % WordBytes # 0
           \/ e.rc = "RANGE" /\ c = "dict" /\ Len(input) > DictBlock * DictMax
        /\ d.rc = "OK" => /\ Len(d.out) <= OutCap
                          /\ c \in {"varint", "delta"} => Len(d.out) % WordBytes = 0

(***************************************************************************)
(* lz77.h: a match offset larger than the bytes written so far is rejected *)
(* so that decode never reads before the output start.                     *)
(***************************************************************************)
MatchInsideOutput ==
  Junk \notin Range(Lz77Decode(input, OutCap).out)
=============================================================================
