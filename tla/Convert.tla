------------------------------- MODULE Convert ------------------------------
(***************************************************************************)
(* report/export, report/import and report/jimport: a container's records  *)
(* are written as CSV or JSON text, and text is read back into a           *)
(* container.                                                              *)
(*                                                                         *)
(* A text is a sequence of symbols: characters, and whole words for the    *)
(* names the code prints (tags, keys, true, false) and for the rendering   *)
(* of a float.  Integers are rendered digit by digit, payloads as hex      *)
(* pairs, strings character by character.                                  *)
(*                                                                         *)
(* A record is [tag, ints, strs, bytes, samples]: its integer fields in    *)
(* column order, its strings (the keys and values of CONFIG in turn), its  *)
(* payload and its samples.  Widths are scaled by constants.  The records  *)
(* are those the walk of the export delivers; all go into one section.     *)
(***************************************************************************)
EXTENDS Integers, Sequences, FiniteSetsExt, SequencesExt

CONSTANTS U8Max, U16Max, U32Max,   \* 255, 65535, 2^32 - 1
          MaxFields,      \* DTL_IMPORT_MAX_FIELDS
          FieldCap,       \* DTL_IMPORT_FIELD_CAP
          LineCap,        \* 8192: the line buffer of dtl_import_csv_memory
          JsonMaxDepth,   \* DTL_JSON_MAX_DEPTH
          HashLen,        \* 8: bytes of a firmware hash
          Finite,         \* the floats that are numbers, by their %.9g rendering
          Special,        \* the other floats
          Six(_),         \* the float strtof reads from the %.6g rendering of one
          Tables,         \* the sequences of records exported
          Truncated       \* those whose text may lose its end

ASSUME ConvertConstants ==
  /\ {U8Max, U16Max, U32Max, MaxFields, FieldCap, LineCap, JsonMaxDepth, HashLen} \subseteq Nat
  /\ \A v \in Finite : Six(v) \in Finite /\ Six(Six(v)) = Six(v)
  /\ Truncated \subseteq Tables

VARIABLES phase,      \* "container", "text", "imported" or "done"
          recs,       \* the records of the exported container
          fmt,        \* "csv" or "json"
          text,       \* the exported text, as the importer finds it
          cut,        \* symbols the text lost at its end
          crlf,       \* TRUE once its lines end in CR LF
          got,        \* the records the importer built
          rc,         \* result of the import
          count,      \* *out_records
          outfile     \* [state, recs]: the file at out_path

vars == <<phase, recs, fmt, text, cut, crlf, got, rc, count, outfile>>

Tags == {"HEARTBEAT", "SENSOR", "EVENT", "DIAG", "GEO", "BATTERY", "NET", "LOG", "CONFIG",
         "KEYREF", "FIRMWARE"}
TagOf == [HEARTBEAT |-> 16, SENSOR |-> 17, EVENT |-> 18, DIAG |-> 19, GEO |-> 20,
          BATTERY |-> 21, NET |-> 22, LOG |-> 23, CONFIG |-> 24, KEYREF |-> 25,
          FIRMWARE |-> 26]
Rec(tag, ints, strs, bytes, samples) ==
  [tag |-> tag, ints |-> ints, strs |-> strs, bytes |-> bytes, samples |-> samples]

Junk == -1   \* a byte read from outside a buffer

DigitOf == <<"0", "1", "2", "3", "4", "5", "6", "7", "8", "9", "a", "b", "c", "d", "e", "f">>
Decimals == {DigitOf[i] : i \in 1 .. 10}
ValueOf(d) == CHOOSE v \in 0 .. 15 : DigitOf[v + 1] = d

At(s, i) == IF i \in DOMAIN s THEN s[i] ELSE "NUL"

(* The C string that starts the bytes s.                                   *)
ToNul(s) == LET z == SelectInSeq(s, LAMBDA c : c = "NUL") IN
              IF z = 0 THEN s ELSE SubSeq(s, 1, z - 1)

Join(parts, sep) ==
  FlattenSeq([i \in DOMAIN parts |-> IF i = 1 THEN parts[i] ELSE <<sep>> \o parts[i]])

-----------------------------------------------------------------------------
(***************************************************************************)
(* What printf's %u, %d and %02x write, and what strtoul, strtol and the   *)
(* hex readers make of it.  A width names the range check of the importer. *)
(***************************************************************************)
Dec(n) ==
  LET digits[m \in Nat] == IF m < 10 THEN <<DigitOf[m + 1]>>
                           ELSE digits[m \div 10] \o <<DigitOf[(m % 10) + 1]>>
  IN  IF n < 0 THEN <<"-">> \o digits[-n] ELSE digits[n]

Hex(bytes) ==
  FlattenSeq([i \in DOMAIN bytes |-> <<DigitOf[(bytes[i] \div 16) + 1], DigitOf[(bytes[i] % 16) + 1]>>])

Natural(t) == t # <<>> /\ Range(t) \subseteq Decimals
NaturalOf(t) == FoldLeft(LAMBDA v, d : 10 * v + ValueOf(d), 0, t)
Integer(t) == Natural(t) \/ (At(t, 1) = "-" /\ Natural(Tail(t)))
IntegerOf(t) == IF t[1] = "-" THEN -NaturalOf(Tail(t)) ELSE NaturalOf(t)

MaxOf(w) == CASE w = "u32" -> U32Max [] w = "u16" -> U16Max [] w = "u8" -> U8Max
              [] w = "u4" -> 4 [] w = "u2" -> 2
Half(max) == (max + 1) \div 2

(* dtl_field_u32 and dtl_field_i32 with the checks that follow them; an    *)
(* i32 is cast from a long without one.                                    *)
Reads(t, w) ==
  CASE w = "i32" -> Integer(t)
    [] w = "i16" -> Integer(t) /\ IntegerOf(t) \in -Half(U16Max) .. Half(U16Max) - 1
    [] OTHER -> Natural(t) /\ NaturalOf(t) <= MaxOf(w)
ReadAs(t, w) ==
  IF w = "i32" THEN ((IntegerOf(t) + Half(U32Max)) % (U32Max + 1)) - Half(U32Max) ELSE IntegerOf(t)

IsHex(t) == Len(t) % 2 = 0 /\ Range(t) \subseteq Range(DigitOf)
UnHex(t) == [i \in 1 .. Len(t) \div 2 |-> 16 * ValueOf(t[2 * i - 1]) + ValueOf(t[2 * i])]

(* The integer fields of each type, in column order.                       *)
Widths == [HEARTBEAT |-> <<"u32", "u32">>, GEO |-> <<"i32", "i32", "i32">>,
           BATTERY |-> <<"u8", "i16", "u32">>, NET |-> <<"u8", "u32", "u32", "u32", "u32">>,
           FIRMWARE |-> <<"u16", "u16", "u16">>, SENSOR |-> <<"u16">>, EVENT |-> <<"u16">>,
           LOG |-> <<"u8">>, CONFIG |-> <<>>, KEYREF |-> <<"u8">>, DIAG |-> <<"u16">>]

-----------------------------------------------------------------------------
(***************************************************************************)
(* CSV export: the columns of a row.                                       *)
(***************************************************************************)
CsvString(s) ==
  <<"\"">> \o FlattenSeq([i \in DOMAIN s |-> IF s[i] = "\"" THEN <<"\"", "\"">> ELSE <<s[i]>>]) \o <<"\"">>

Blank(n) == [i \in 1 .. n |-> <<>>]
First(n, s) == SubSeq(s, 1, Min({n, Len(s)}))

CsvTail(r) ==
  CASE r.tag = "HEARTBEAT" -> Blank(4)
    [] r.tag \in {"GEO", "BATTERY"} -> Blank(3)
    [] r.tag = "NET" -> Blank(1)
    [] r.tag = "SENSOR" -> <<Dec(Len(r.samples))>>
                           \o LET s == First(4, r.samples) IN [i \in DOMAIN s |-> <<Six(s[i])>>]
    [] r.tag = "EVENT" -> <<Dec(Len(r.bytes)), Hex(r.bytes)>> \o Blank(2)
    [] r.tag = "DIAG" -> <<Dec(Len(r.bytes)), Dec(0), Hex(r.bytes)>> \o Blank(2)
    [] r.tag = "LOG" -> <<CsvString(r.strs[1])>> \o Blank(3)
    [] r.tag = "CONFIG" -> <<Dec(Len(r.strs) \div 2)>>
                           \o LET s == First(4, r.strs) IN [i \in DOMAIN s |-> CsvString(ToNul(s[i]))]
    [] r.tag = "KEYREF" -> <<Dec(0), CsvString(r.strs[1])>> \o Blank(3)
    [] r.tag = "FIRMWARE" -> <<Hex(r.bytes)>> \o Blank(2)

Columns(r, index) ==
  <<Dec(index), <<r.tag>>>> \o [i \in DOMAIN r.ints |-> Dec(r.ints[i])] \o CsvTail(r)
CsvRow(r, index) == Join(Columns(r, index), ",")

Header == <<"index", ",", "tag", ",", "f0", ",", "f1", ",", "f2", ",", "f3", ",", "f4", ",", "f5">>

ExportCsv(rs) ==
  Header \o <<"NL">> \o FlattenSeq([i \in DOMAIN rs |-> CsvRow(rs[i], i - 1) \o <<"NL">>])

(***************************************************************************)
(* JSON export.                                                            *)
(***************************************************************************)
Escape == [c \in {"\"", "\\", "NL", "CR", "TAB"} |->
             CASE c = "NL" -> "n" [] c = "CR" -> "r" [] c = "TAB" -> "t" [] OTHER -> c]
Control == [NUL |-> 0, BS |-> 8]   \* control characters without a letter of their own

JsonChar(c) ==
  CASE c \in DOMAIN Escape -> <<"\\", Escape[c]>>
    [] c \in DOMAIN Control -> <<"\\", "u", "0", "0">> \o Hex(<<Control[c]>>)
    [] OTHER -> <<c>>
Quoted(t) == <<"\"">> \o t \o <<"\"">>
JsonString(s) == Quoted(FlattenSeq([i \in DOMAIN s |-> JsonChar(s[i])]))
Member(key, t) == Quoted(<<key>>) \o <<":">> \o t

Keys == [HEARTBEAT |-> <<"uptime_s", "seq">>, GEO |-> <<"lat_e7", "lon_e7", "alt_mm">>,
         BATTERY |-> <<"pct", "temp_c_e1", "cycles">>,
         NET |-> <<"iface_id", "rx_bytes", "tx_bytes", "rx_pkts", "tx_pkts">>,
         FIRMWARE |-> <<>>, SENSOR |-> <<"sensor_id">>, EVENT |-> <<"code">>,
         LOG |-> <<"severity">>, CONFIG |-> <<>>, KEYREF |-> <<"slot_id">>, DIAG |-> <<"subsystem">>]

JsonPairs(strs) ==
  Join([i \in 1 .. Len(strs) \div 2 |->
          JsonString(ToNul(strs[2 * i - 1])) \o <<":">> \o JsonString(ToNul(strs[2 * i]))], ",")

JsonTail(r) ==
  CASE r.tag = "SENSOR" -> <<Member("samples", <<"[">> \o Join([i \in DOMAIN r.samples |-> <<r.samples[i]>>], ",")
                                               \o <<"]">>)>>
    [] r.tag = "EVENT" -> <<Member("payload_hex", Quoted(Hex(r.bytes)))>>
    [] r.tag = "DIAG" -> <<Member("redacted", <<"false">>), Member("blob_hex", Quoted(Hex(r.bytes)))>>
    [] r.tag = "LOG" -> <<Member("msg", JsonString(r.strs[1]))>>
    [] r.tag = "CONFIG" -> <<Member("pairs", <<"{">> \o JsonPairs(r.strs) \o <<"}">>)>>
    [] r.tag = "KEYREF" -> <<Member("redacted", <<"false">>), Member("label", JsonString(r.strs[1]))>>
    [] r.tag = "FIRMWARE" -> <<Member("version", Quoted(Join([i \in 1 .. 3 |-> Dec(r.ints[i])], "."))),
                               Member("hash_hex", Quoted(Hex(r.bytes)))>>
    [] OTHER -> <<>>

JsonRecord(r, index) ==
  <<"NL", " ", " ", "{">>
  \o Join(<<Member("index", Dec(index)), Member("tag", Dec(TagOf[r.tag])), Member("type", Quoted(<<r.tag>>))>>
          \o [i \in DOMAIN Keys[r.tag] |-> Member(Keys[r.tag][i], Dec(r.ints[i]))] \o JsonTail(r), ",")
  \o <<"}">>

ExportJson(rs) ==
  <<"[">> \o Join([i \in DOMAIN rs |-> JsonRecord(rs[i], i - 1)], ",") \o <<"NL", "]", "NL">>

ExportAs(f, rs) == IF f = "csv" THEN ExportCsv(rs) ELSE ExportJson(rs)

-----------------------------------------------------------------------------
(***************************************************************************)
(* CSV import.  dtl_csv_parse_row cuts a line into fields; every field is  *)
(* [ok, text, next], next being the position of the comma behind it.       *)
(***************************************************************************)
Refused == [ok |-> FALSE, text |-> <<>>, next |-> 0]

MutQuotedField(line, i) ==
  LET from[j \in Nat] ==
        CASE At(line, j) = "NUL" -> Refused
          [] At(line, j) # "\"" -> LET r == from[j + 1] IN [r EXCEPT !.text = <<line[j]>> \o @]
          [] OTHER -> [ok |-> TRUE, text |-> <<>>, next |-> j + 1]
  IN  from[i + 1]

QuotedField(line, i) ==
  LET from[j \in Nat] ==
        CASE At(line, j) = "NUL" -> Refused
          [] At(line, j) # "\"" -> LET r == from[j + 1] IN [r EXCEPT !.text = <<line[j]>> \o @]
          [] OTHER -> IF At(line, j + 1) = "\""
                      THEN LET r == from[j + 2] IN [r EXCEPT !.text = <<"\"">> \o @]
                      ELSE [ok |-> At(line, j + 1) \in {",", "NUL"}, text |-> <<>>, next |-> j + 1]
  IN  from[i + 1]

PlainField(line, i) ==
  LET to == CHOOSE j \in i .. Len(line) + 1 : /\ At(line, j) \in {",", "NUL"}
                                              /\ \A k \in i .. j - 1 : line[k] # ","
  IN  [ok |-> TRUE, text |-> SubSeq(line, i, to - 1), next |-> to]

CsvField(line, i) ==
  LET f == IF At(line, i) = "\"" THEN QuotedField(line, i) ELSE PlainField(line, i) IN
    IF Len(f.text) >= FieldCap THEN Refused ELSE f

(* The fields of a line, or <<>> if it is refused.                         *)
CsvFields(line) ==
  LET from[i \in Nat, n \in Nat] ==
        LET f == CsvField(line, i)
            rest == from[f.next + 1, n + 1]
        IN  CASE n = MaxFields \/ ~f.ok -> <<>>
              [] n < MaxFields /\ f.ok /\ f.next > Len(line) -> <<f.text>>
              [] OTHER -> IF rest = <<>> THEN <<>> ELSE <<f.text>> \o rest
  IN  from[1, 0]

Bad == [ok |-> FALSE, rec |-> Rec("NONE", <<>>, <<>>, <<>>, <<>>)]
Good(tag, ints, strs, bytes, samples) == [ok |-> TRUE, rec |-> Rec(tag, ints, strs, bytes, samples)]

(* The length or count column of the types that have one.                  *)
LengthWidth == [SENSOR |-> "u4", EVENT |-> "u16", DIAG |-> "u16", CONFIG |-> "u2"]

Field(f, i) == IF i \in DOMAIN f THEN f[i] ELSE <<>>

(* dtl_import_row on fields f: index, tag, the integers, then the tail.    *)
(* DIAG keeps the declared length, whatever the hex column holds.          *)
ImportRow(f) ==
  LET tag == Field(f, 2)[1]
      w == Widths[tag] \o (IF tag \in DOMAIN LengthWidth THEN <<LengthWidth[tag]>> ELSE <<>>)
      ints == [k \in DOMAIN Widths[tag] |-> ReadAs(f[k + 2], w[k])]
      n == ReadAs(f[Len(w) + 2], Last(w))
      cells == SelectSeq(SubSeq(f, 5, Len(f)), LAMBDA t : t # <<>>)
      hex == IF tag = "EVENT" THEN Field(f, 5) ELSE Field(f, 6)
  IN  IF \/ Len(f) < 2 \/ f[2] \notin {<<t>> : t \in Tags}
         \/ Len(f) < 2 + Len(w) \/ \E k \in DOMAIN w : ~Reads(f[k + 2], w[k])
      THEN Bad
      ELSE CASE tag \in {"HEARTBEAT", "GEO", "BATTERY", "NET"} -> Good(tag, ints, <<>>, <<>>, <<>>)
             [] tag = "SENSOR" ->
                  IF Len(cells) < n \/ \E i \in 1 .. n : cells[i][1] \notin Finite \cup Special THEN Bad
                  ELSE Good(tag, ints, <<>>, <<>>, [i \in 1 .. n |-> cells[i][1]])
             [] tag = "EVENT" ->
                  IF ~IsHex(hex) \/ Len(hex) # 2 * n THEN Bad
                  ELSE Good(tag, ints, <<>>, UnHex(hex), <<>>)
             [] tag = "DIAG" ->
                  IF ~IsHex(hex) \/ (hex = <<>> /\ n # 0) THEN Bad
                  ELSE LET b == UnHex(hex) IN
                         Good(tag, ints, <<>>, [i \in 1 .. n |-> IF i \in DOMAIN b THEN b[i] ELSE Junk], <<>>)
             [] tag = "LOG" ->
                  IF Len(f) < 4 \/ Len(f[4]) > U16Max THEN Bad ELSE Good(tag, ints, <<f[4]>>, <<>>, <<>>)
             [] tag = "CONFIG" ->
                  IF Len(f) < 3 + 2 * n THEN Bad ELSE Good(tag, ints, SubSeq(f, 4, 3 + 2 * n), <<>>, <<>>)
             [] tag = "KEYREF" ->
                  IF Len(f) < 5 \/ Len(f[5]) > U8Max THEN Bad ELSE Good(tag, ints, <<f[5]>>, <<>>, <<>>)
             [] tag = "FIRMWARE" ->
                  IF ~IsHex(hex) \/ Len(hex) # 2 * HashLen THEN Bad
                  ELSE Good(tag, ints, <<>>, UnHex(hex), <<>>)

(* The lines of a text, without the carriage returns at their ends.        *)
Lines(t) ==
  LET ends == SetToSortSeq({i \in DOMAIN t : t[i] = "NL"} \cup {Len(t) + 1}, <)
      raw == [k \in DOMAIN ends |-> SubSeq(t, IF k = 1 THEN 1 ELSE ends[k - 1] + 1, ends[k] - 1)]
      last(l) == SelectLastInSeq(l, LAMBDA c : c # "CR")
  IN  [k \in DOMAIN raw |-> [raw |-> raw[k], line |-> SubSeq(raw[k], 1, last(raw[k]))]]

Rejected == [rc |-> "BADRECORD", recs |-> <<>>, count |-> 0]

(* The records read go into the writer one by one; one that could not be   *)
(* read ends the import.                                                   *)
Built(read) ==
  IF \E k \in DOMAIN read : ~read[k].ok THEN Rejected
  ELSE [rc |-> "OK", recs |-> [k \in DOMAIN read |-> read[k].rec], count |-> Len(read)]

(* dtl_import_csv_memory: empty lines and a header on the first line are   *)
(* passed over, and the first line that cannot be read ends the import.    *)
ImportCsv(t) ==
  LET ls == Lines(t)
      heads(l) == IsPrefix(SubSeq(Header, 1, 4), l)
      rows == SelectSeq([k \in DOMAIN ls |-> IF k = 1 /\ heads(ls[1].line) THEN <<>> ELSE ToNul(ls[k].line)],
                        LAMBDA l : l # <<>>)
  IN  IF \E k \in DOMAIN ls : Len(ls[k].raw) >= LineCap THEN Rejected
      ELSE Built([k \in DOMAIN rows |-> ImportRow(CsvFields(rows[k]))])

-----------------------------------------------------------------------------
(***************************************************************************)
(* JSON import.  A node is [kind, text, keys, kids]; every parse operator  *)
(* yields [ok, i, node], i being the cursor.                               *)
(***************************************************************************)
Node(kind, t, keys, kids) == [kind |-> kind, text |-> t, keys |-> keys, kids |-> kids]
Fail == [ok |-> FALSE, i |-> 0, node |-> Node("null", <<>>, <<>>, <<>>)]
Parsed(i, node) == [ok |-> TRUE, i |-> i, node |-> node]

Spaces == {" ", "TAB", "NL", "CR"}
SkipWs(s, i) == CHOOSE j \in i .. Len(s) + 1 : /\ At(s, j) \notin Spaces
                                               /\ \A k \in i .. j - 1 : s[k] \in Spaces
Eof(s, i) == i > Len(s)

(* \f and \/ are accepted too; the exporter writes neither.                *)
Unescape == [c \in {"n", "t", "r", "b", "\\", "\""} |->
               CASE c = "n" -> "NL" [] c = "t" -> "TAB" [] c = "r" -> "CR" [] c = "b" -> "BS" [] OTHER -> c]

CharOf(v) == CHOOSE c \in DOMAIN Control : Control[c] = v

JsonStringAt(s, i) ==
  LET with(c, r) == [r EXCEPT !.node.text = <<c>> \o @]
      digits(j) == {k \in 2 .. 5 : ~Eof(s, j + k) /\ s[j + k] \in Range(DigitOf)}
      code(j) == 16 * ValueOf(s[j + 4]) + ValueOf(s[j + 5])
      from[j \in Nat] ==
        IF Eof(s, j) \/ (s[j] = "\\" /\ Eof(s, j + 1)) THEN Fail
        ELSE CASE s[j] = "\"" -> Parsed(j + 1, Node("str", <<>>, <<>>, <<>>))
               [] s[j] \notin {"\"", "\\"} -> with(s[j], from[j + 1])
               [] s[j] = "\\" /\ s[j + 1] \in DOMAIN Unescape -> with(Unescape[s[j + 1]], from[j + 2])
               [] s[j] = "\\" /\ s[j + 1] = "u" /\ Cardinality(digits(j)) = 4
                  /\ s[j + 2] = "0" /\ s[j + 3] = "0" /\ code(j) <= 127 -> with(CharOf(code(j)), from[j + 6])
               [] OTHER -> Fail
  IN  from[i + 1]

(* Digits, or the rendering of a float.                                    *)
JsonNumberAt(s, i) ==
  LET first == IF s[i] = "-" THEN i + 1 ELSE i
      to == CHOOSE j \in first .. Len(s) + 1 : /\ At(s, j) \notin Decimals \cup Finite
                                               /\ \A k \in first .. j - 1 : s[k] \in Decimals \cup Finite
  IN  IF to = first THEN Fail ELSE Parsed(to, Node("num", SubSeq(s, i, to - 1), <<>>, <<>>))

RECURSIVE JsonValue(_, _, _), JsonItems(_, _, _, _), JsonMembers(_, _, _, _)


(* After an element: a comma and one more, or the bracket that closes.     *)
JsonItems(s, i, depth, node) ==
  LET v == JsonValue(s, i, depth)
      more == [node EXCEPT !.kids = Append(@, v.node)]
      j == SkipWs(s, v.i)
  IN  CASE ~v.ok -> Fail
        [] v.ok /\ At(s, j) = "," -> JsonItems(s, j + 1, depth, more)
        [] v.ok /\ At(s, j) = "]" -> Parsed(j + 1, more)
        [] OTHER -> Fail

JsonArrayAt(s, i, depth) ==
  LET j == SkipWs(s, i + 1)
      empty == Node("arr", <<>>, <<>>, <<>>)
  IN  IF At(s, j) = "]" THEN Parsed(j + 1, empty) ELSE JsonItems(s, j, depth, empty)

JsonMembers(s, i, depth, node) ==
  LET k == SkipWs(s, i)
      key == JsonStringAt(s, k)
      colon == SkipWs(s, key.i)
      v == JsonValue(s, colon + 1, depth)
      more == [node EXCEPT !.keys = Append(@, key.node.text), !.kids = Append(@, v.node)]
      j == SkipWs(s, v.i)
  IN  IF At(s, k) # "\"" \/ ~key.ok \/ At(s, colon) # ":" \/ ~v.ok THEN Fail
      ELSE CASE At(s, j) = "," -> JsonMembers(s, j + 1, depth, more)
             [] At(s, j) = "}" -> Parsed(j + 1, more)
             [] OTHER -> Fail

JsonObjectAt(s, i, depth) ==
  LET j == SkipWs(s, i + 1)
      empty == Node("obj", <<>>, <<>>, <<>>)
  IN  IF At(s, j) = "}" THEN Parsed(j + 1, empty) ELSE JsonMembers(s, j, depth, empty)

(* depth counts the values being parsed around this one.                   *)
JsonValue(s, i0, depth) ==
  LET i == SkipWs(s, i0) IN
    IF depth + 1 > JsonMaxDepth \/ Eof(s, i) THEN Fail
    ELSE CASE s[i] = "{" -> JsonObjectAt(s, i, depth + 1)
           [] s[i] = "[" -> JsonArrayAt(s, i, depth + 1)
           [] s[i] = "\"" -> JsonStringAt(s, i)
           [] s[i] \in {"true", "false"} -> Parsed(i + 1, Node("bool", <<s[i]>>, <<>>, <<>>))
           [] s[i] = "null" -> Parsed(i + 1, Node("null", <<>>, <<>>, <<>>))
           [] OTHER -> JsonNumberAt(s, i)

-----------------------------------------------------------------------------
(* The members of obj under key: the accessors take the first.             *)
Under(obj, key) == {k \in DOMAIN obj.keys : ToNul(obj.keys[k]) = <<key>>}
Get(obj, key) == obj.kids[Min(Under(obj, key))]
Has(obj, key, kind) == obj.kind = "obj" /\ Under(obj, key) # {} /\ Get(obj, key).kind = kind
HasInt(obj, key, w) == Has(obj, key, "num") /\ Reads(Get(obj, key).text, w)
Str(obj, key) == ToNul(Get(obj, key).text)
HexOf(obj, key) == UnHex(Str(obj, key))
HasHex(obj, key) == Has(obj, key, "str") /\ IsHex(Str(obj, key)) /\ Len(HexOf(obj, key)) <= U16Max
IsTrue(obj, key) == Get(obj, key).text = <<"true">>

(* A count as the record's byte holds it.                                  *)
Byte(n) == n % (U8Max + 1)

(* sscanf of "%u.%u.%u".                                                   *)
Version(t) ==
  LET dots == SetToSortSeq({i \in DOMAIN t : t[i] = "."}, <) IN
    IF Len(dots) # 2 THEN <<>>
    ELSE <<SubSeq(t, 1, dots[1] - 1), SubSeq(t, dots[1] + 1, dots[2] - 1), SubSeq(t, dots[2] + 1, Len(t))>>

(* dtl_jimport_record on the node of one array element.                    *)
JImportRecord(obj) ==
  LET tag == CHOOSE t \in Tags : TagOf[t] = NaturalOf(Get(obj, "tag").text)
      ints == [k \in DOMAIN Keys[tag] |-> ReadAs(Get(obj, Keys[tag][k]).text, Widths[tag][k])]
      samples == Get(obj, "samples").kids
      pairs == Get(obj, "pairs")
      version == Version(Str(obj, "version"))
  IN  IF \/ ~HasInt(obj, "tag", "u8") \/ NaturalOf(Get(obj, "tag").text) \notin Range(TagOf)
         \/ \E k \in DOMAIN Keys[tag] : ~HasInt(obj, Keys[tag][k], Widths[tag][k])
      THEN Bad
      ELSE CASE tag \in {"HEARTBEAT", "GEO", "BATTERY", "NET"} -> Good(tag, ints, <<>>, <<>>, <<>>)
             [] tag = "SENSOR" ->
                  IF ~Has(obj, "samples", "arr") \/ Len(samples) > U16Max
                     \/ \E i \in DOMAIN samples : samples[i].kind # "num" THEN Bad
                  ELSE Good(tag, ints, <<>>, <<>>, [i \in 1 .. Byte(Len(samples)) |-> samples[i].text[1]])
             [] tag = "EVENT" ->
                  IF ~HasHex(obj, "payload_hex") THEN Bad
                  ELSE Good(tag, ints, <<>>, HexOf(obj, "payload_hex"), <<>>)
             [] tag = "DIAG" ->
                  IF ~Has(obj, "redacted", "bool") \/ (~IsTrue(obj, "redacted") /\ ~HasHex(obj, "blob_hex")) THEN Bad
                  ELSE Good(tag, ints, <<>>, IF IsTrue(obj, "redacted") THEN <<>> ELSE HexOf(obj, "blob_hex"), <<>>)
             [] tag = "LOG" ->
                  IF ~Has(obj, "msg", "str") \/ Len(Str(obj, "msg")) > U16Max THEN Bad
                  ELSE Good(tag, ints, <<Str(obj, "msg")>>, <<>>, <<>>)
             [] tag = "CONFIG" ->
                  IF ~Has(obj, "pairs", "obj") \/ Len(pairs.keys) > U16Max
                     \/ \E i \in DOMAIN pairs.kids : pairs.kids[i].kind # "str" THEN Bad
                  ELSE Good(tag, ints, [i \in 1 .. 2 * Byte(Len(pairs.keys)) |->
                                          ToNul(IF i % 2 = 1 THEN pairs.keys[(i + 1) \div 2]
                                                ELSE pairs.kids[i \div 2].text)], <<>>, <<>>)
             [] tag = "KEYREF" ->
                  LET label == IF ~Has(obj, "label", "str") \/ IsTrue(obj, "redacted") THEN <<>>
                               ELSE Str(obj, "label")
                  IN  IF ~Has(obj, "redacted", "bool") \/ Len(label) > U8Max THEN Bad
                      ELSE Good(tag, ints, <<label>>, <<>>, <<>>)
             [] tag = "FIRMWARE" ->
                  IF \/ ~Has(obj, "version", "str") \/ Len(version) # 3
                     \/ \E k \in DOMAIN version : ~Reads(version[k], "u16")
                     \/ ~HasHex(obj, "hash_hex") \/ Len(HexOf(obj, "hash_hex")) # HashLen THEN Bad
                  ELSE Good(tag, [k \in 1 .. 3 |-> NaturalOf(version[k])], <<>>, HexOf(obj, "hash_hex"), <<>>)

(* dtl_import_json_memory: an array with nothing behind it.                *)
ImportRoot(t, root) ==
  IF ~root.ok \/ ~Eof(t, SkipWs(t, root.i)) THEN Rejected
  ELSE Built([k \in DOMAIN root.node.kids |-> JImportRecord(root.node.kids[k])])

ImportJson(t) ==
  LET i == SkipWs(t, 1) IN
    IF At(t, i) # "[" THEN Rejected ELSE ImportRoot(t, JsonArrayAt(t, i, 0))

ImportAs(f, t) == IF f = "csv" THEN ImportCsv(t) ELSE ImportJson(t)

-----------------------------------------------------------------------------
(***************************************************************************)
(* `dtl export`, something that happens to the text, and `dtl import`.     *)
(***************************************************************************)
Init ==
  /\ phase = "container" /\ recs \in Tables /\ fmt \in {"csv", "json"}
  /\ text = <<>> /\ cut = 0 /\ crlf = FALSE /\ got = <<>> /\ rc = "NONE" /\ count = 0
  /\ outfile = [state |-> "old", recs |-> <<>>]

(***************************************************************************)
(* dtl_export_file: the opening, a row or object for each record the walk  *)
(* delivers, and the closing, which is written however the walk ended.     *)
(***************************************************************************)
Export ==
  /\ phase = "container"
  /\ text' = ExportAs(fmt, recs) /\ phase' = "text"
  /\ UNCHANGED <<recs, fmt, cut, crlf, got, rc, count, outfile>>

(***************************************************************************)
(* The text loses its end: a full disk, an interrupted copy.  What is left *)
(* of a number that was cut in its middle reads as any other number.       *)
(***************************************************************************)
Truncate ==
  /\ phase = "text" /\ cut = 0 /\ ~crlf /\ recs \in Truncated
  /\ \E n \in 1 .. Len(text) :
       LET left == SubSeq(text, 1, Len(text) - n) IN
         /\ cut' = n
         /\ \/ text' = left
            \/ text[Len(left) + 1] \in Finite /\ \E v \in Finite : text' = Append(left, v)
  /\ UNCHANGED <<phase, recs, fmt, crlf, got, rc, count, outfile>>

(***************************************************************************)
(* The text goes through a system that ends its lines in CR LF.            *)
(***************************************************************************)
Recode ==
  /\ phase = "text" /\ cut = 0 /\ ~crlf
  /\ crlf' = TRUE
  /\ text' = FlattenSeq([i \in DOMAIN text |-> IF text[i] = "NL" THEN <<"CR", "NL">> ELSE <<text[i]>>])
  /\ UNCHANGED <<phase, recs, fmt, cut, got, rc, count, outfile>>

Ends(code) == rc' = code /\ phase' = "done" /\ UNCHANGED <<recs, fmt, text, cut, crlf, got, count>>

(***************************************************************************)
(* The importer cannot open, size, hold or read the text.                  *)
(***************************************************************************)
AbsorbFails ==
  /\ phase = "text"
  /\ \E code \in {"IO", "RANGE", "OOM"} : Ends(code)
  /\ UNCHANGED outfile

(***************************************************************************)
(* An allocation fails.  The JSON parser returns NULL for that as for a    *)
(* syntax error.                                                           *)
(***************************************************************************)
ImportOom ==
  /\ phase = "text"
  /\ \E code \in IF fmt = "json" THEN {"OOM", "BADRECORD"} ELSE {"OOM"} : Ends(code)
  /\ UNCHANGED outfile

(***************************************************************************)
(* The text is read and a container built in memory.                       *)
(***************************************************************************)
Import ==
  /\ phase = "text"
  /\ LET r == ImportAs(fmt, text) IN
       /\ rc' = r.rc /\ got' = r.recs /\ count' = r.count
       /\ phase' = IF r.rc = "OK" THEN "imported" ELSE "done"
  /\ UNCHANGED <<recs, fmt, text, cut, crlf, outfile>>

MutPublish ==
  /\ phase = "imported"
  /\ \/ Ends("IO") /\ UNCHANGED outfile
     \/ Ends("OK") /\ outfile' = [state |-> "partial", recs |-> <<>>]
     \/ Ends("OK") /\ outfile' = [state |-> "new", recs |-> got]

(***************************************************************************)
(* fopen(out_path, "wb") fails, or it empties the file and the fwrite that *)
(* follows is short or complete.  What fclose loses is not noticed.        *)
(***************************************************************************)
Publish ==
  /\ phase = "imported"
  /\ \/ Ends("IO") /\ UNCHANGED outfile
     \/ Ends("IO") /\ outfile' = [state |-> "partial", recs |-> <<>>]
     \/ Ends("OK") /\ outfile' = [state |-> "lost", recs |-> <<>>]
     \/ Ends("OK") /\ outfile' = [state |-> "new", recs |-> got]

Next == Export \/ Truncate \/ Recode \/ AbsorbFails \/ ImportOom \/ Import \/ Publish

Spec == Init /\ [][Next]_vars

-----------------------------------------------------------------------------
(* What CSV cannot carry: a fifth sample, a third pair, a line break or a  *)
(* zero byte in a string, a field or a row longer than its buffer.         *)
CsvCarries(r) ==
  LET strs == IF r.tag = "CONFIG" THEN [i \in DOMAIN r.strs |-> ToNul(r.strs[i])] ELSE r.strs IN
    /\ Len(r.samples) <= 4 /\ (r.tag = "CONFIG" => Len(strs) <= 4)
    /\ \A i \in DOMAIN strs : /\ {"NL", "NUL"} \cap Range(strs[i]) = {}
                               /\ Len(strs[i]) < FieldCap
    /\ 2 * Len(r.bytes) < FieldCap
    /\ Len(CsvRow(r, 0)) + (IF crlf THEN 1 ELSE 0) < LineCap

(* What comes back of a record that is carried.                            *)
FromCsv(r) ==
  [r EXCEPT !.samples = [i \in DOMAIN r.samples |-> Six(r.samples[i])],
            !.strs = [i \in DOMAIN r.strs |-> ToNul(r.strs[i])]]
FromJson(r) == [r EXCEPT !.strs = [i \in DOMAIN r.strs |-> ToNul(r.strs[i])]]
Map(Op(_), s) == [i \in DOMAIN s |-> Op(s[i])]

(***************************************************************************)
(* Import is the inverse of export (import.h: "exactly what `dtl export    *)
(* <file> csv` emits").  CSV: one record beyond the layout refuses the     *)
(* whole text, else every record comes back, in order, its strings         *)
(* whatever quotes and commas they hold, its samples rounded to six        *)
(* digits; CR LF at the ends of the lines changes nothing.  JSON: every    *)
(* record comes back exactly but for what follows a zero byte in a string, *)
(* unless a sample is not a number, which refuses the whole text.          *)
(***************************************************************************)
ImportInvertsExport ==
  phase = "text" /\ cut = 0 =>
    ImportAs(fmt, text) =
      IF \A i \in DOMAIN recs : IF fmt = "csv" THEN CsvCarries(recs[i])
                                ELSE Range(recs[i].samples) \subseteq Finite
      THEN [rc |-> "OK", count |-> Len(recs),
            recs |-> IF fmt = "csv" THEN Map(FromCsv, recs) ELSE Map(FromJson, recs)]
      ELSE Rejected

(* The columns of a row but for the blank ones at its end.                 *)
Filled(r, index) ==
  LET c == Columns(r, index) IN SubSeq(c, 1, SelectLastInSeq(c, LAMBDA t : t # <<>>))

(* q is record r, read from a row that was cut in the last column that is  *)
(* filled.  An integer loses digits, a sample becomes another number and a   *)
(* string whose quotes are gone becomes empty.  DIAG keeps the length its  *)
(* row declares and takes what the hex column lacks from the memory behind *)
(* it.  EVENT and FIRMWARE are refused.                                    *)
LastColumnCut(q, r) ==
  CASE r.tag \in {"HEARTBEAT", "GEO", "BATTERY", "NET"} ->
         /\ q = [r EXCEPT !.ints[Len(r.ints)] = Last(q.ints)]
         /\ IsStrictPrefix(Dec(Last(q.ints)), Dec(Last(r.ints)))
    [] r.tag = "SENSOR" -> q = [r EXCEPT !.samples[Len(r.samples)] = Last(q.samples)]
    [] r.tag \in {"LOG", "CONFIG", "KEYREF"} -> q = [r EXCEPT !.strs[Len(r.strs)] = <<>>]
    [] r.tag = "DIAG" ->
         \E k \in 1 .. Len(r.bytes) - 1 :
           q = [r EXCEPT !.bytes = [i \in DOMAIN r.bytes |-> IF i <= k THEN r.bytes[i] ELSE Junk]]
    [] OTHER -> FALSE


(***************************************************************************)
(* An import that fails leaves the output as it was, unless the file could *)
(* not be written, and one that succeeds handed every record to fwrite and *)
(* counted it; only fclose can then still lose the file.                   *)
(***************************************************************************)
AllOrNothing ==
  phase = "done" =>
    /\ rc = "OK" <=> outfile.state \in {"new", "lost"}
    /\ rc = "OK" => count = Len(got) /\ (outfile.state = "new" => outfile.recs = got)
    /\ rc \notin {"OK", "IO"} => outfile.state = "old"
=============================================================================
