------------------------------ MODULE Commands ------------------------------
(***************************************************************************)
(* Two readers of containers besides the tools built on a single walk:     *)
(*                                                                         *)
(*   dtl_cli_emit    behind the decode and query commands, reads strictly  *)
(*                   and stops at the first defect: decode a section,      *)
(*                   parse a TLV, redact the record, filter it, print it;  *)
(*   dtl_diff_files  walks two containers one after the other, keeps a     *)
(*                   shallow copy of every record, and compares the copies *)
(*                   only when both walks are over.                        *)
(*                                                                         *)
(* Both use the process-wide pools of RecordPools, after whatever an       *)
(* earlier reading of the same process left in them.                       *)
(*                                                                         *)
(* To the TLVs of RecordPools this module adds id, the field the decisions *)
(* here look at (slot_id of a KEYREF, subsystem of a DIAG, the fixed       *)
(* fields of another record), and val, the parts of the payload, each a    *)
(* sequence of bytes (keys and values of a CONFIG; one part for another    *)
(* record, whose elements are the samples if it is a SENSOR); to the       *)
(* sections of Walk it adds raw: "zero" when raw_len is 0, "short" when the decoder    *)
(* produces fewer bytes than raw_len declares, "exact" otherwise.          *)
(***************************************************************************)
EXTENDS Walk, FiniteSets

CONSTANTS Slots,          \* DTL_KEYSTORE_SLOTS
          SensitiveMin,   \* DTL_REDACT_SENSITIVE_SUBSYS_MIN
          EmitInputs,     \* pairs <<container, filter>> given to emit
          DiffInputs,     \* [a, b, ignore]: two containers, ignore_redaction
          Matches(_, _)   \* dtl_query_match on a filter and a redacted record

(***************************************************************************)
(* What a section's header and its decoding can say of it.                 *)
(***************************************************************************)
IsSection(s) == /\ s.fate \in {"codec", "big", "corrupt", "ok"}
                /\ s.raw \in {"zero", "short", "exact"} /\ s.tail \in {"cut", "clean"}

MaxU16 == 65535

ASSUME CommandAssumption ==
  /\ Slots \in Nat /\ Slots > 2 /\ SensitiveMin \in 0 .. MaxU16
  /\ \A w \in Tlvs : w.id \in 0 .. MaxU16   \* a field of 8 or 16 bits
  /\ \A e \in EmitInputs : /\ IsContainer(e[1])
                           /\ \A i \in DOMAIN e[1].sections : IsSection(e[1].sections[i])
  /\ \A d \in DiffInputs : IsContainer(d.a) /\ IsContainer(d.b)

VARIABLES cmd,      \* "none", "walk", "emit", or the stage of a diff: "diff_a"
                    \* and "diff_b" while it walks, "diff" when it has returned
          filter,   \* the compiled query of emit, "none" for decode
          printed,  \* what emit has printed: [index, rec]
          pair,     \* the operands of the diff
          va,       \* the records collected from its first container
          diffs     \* *out_diffs

cmdVars == <<cmd, filter, printed, pair, va, diffs>>
allVars == <<vars, cmdVars>>

NoPair == [a |-> NoInput, b |-> NoInput, ignore |-> FALSE]

CmdInit ==
  /\ Init
  /\ cmd = "none" /\ filter = "none" /\ printed = <<>>
  /\ pair = NoPair /\ va = <<>> /\ diffs = 0

(***************************************************************************)
(* A command runs to its end before the next begins.                       *)
(***************************************************************************)
AtRest == pc \in {"idle", "done"} /\ cmd \notin {"diff_a", "diff_b"}

Start(c, f, p) ==
  /\ AtRest
  /\ cmd' = c /\ filter' = f /\ pair' = p
  /\ printed' = <<>> /\ va' = <<>> /\ diffs' = 0

WalkBegins == (AbsorbFails \/ Begin) /\ Start("walk", "none", NoPair)

WalkSteps == Step /\ UNCHANGED cmdVars

Returns(rc) == pc' = "done" /\ ret' = rc

-----------------------------------------------------------------------------
(***************************************************************************)
(* dtl_cli_emit                                                            *)
(***************************************************************************)

(***************************************************************************)
(* dtl_query_compile refuses the expression, before the file is opened.    *)
(***************************************************************************)
QueryRefused ==
  /\ Enter /\ Start("emit", "none", NoPair) /\ input' = NoInput
  /\ \E rc \in {"BADQUERY"} \cup (IF OomMay THEN {"OOM"} ELSE {}) : Returns(rc)

(***************************************************************************)
(* dtl_cli_read_file fails.                                                *)
(***************************************************************************)
EmitReadFails == AbsorbFails /\ Start("emit", "none", NoPair)

EmitBegins ==
  \E e \in EmitInputs :
    /\ walks + 1 < MaxWalks   \* bound: room for a walk after it
    /\ Enter /\ Start("emit", e[2], NoPair) /\ input' = e[1]
    /\ IF e[1].rc = "OK" THEN pc' = "emit_section" /\ ret' = "NONE"
       ELSE Returns(e[1].rc)

EmitFrame == UNCHANGED <<walks, input, delivered, errors, retained, cmd, filter, pair, va, diffs>>

InSection == pc = "emit_section" /\ si < Len(input.sections)

EmitReturns(rc) ==
  /\ Returns(rc)
  /\ UNCHANGED <<poolVars, si, ti, record_in_sec, record_index, printed>> /\ EmitFrame

(***************************************************************************)
(* The errors of a section before its stream is looked at.  A raw_len of 0 *)
(* is refused as out of memory: the arena hands out no empty chunk, and    *)
(* emit, unlike the walk, does not ask for one byte instead.  There is no  *)
(* cap on raw_len, so a section too big for the walk is decoded.           *)
(***************************************************************************)
SectionErrs(s) ==
  CASE s.fate = "codec" -> {"BADRECORD"}
    [] s.fate # "codec" /\ s.raw = "zero" -> {"OOM"}
    [] s.fate = "corrupt" /\ s.raw # "zero" -> FateErrs("corrupt")
    [] s.fate \in {"ok", "big"} /\ s.raw = "short" -> {"BADRECORD"}
    [] OTHER -> {}

EmitSectionFails ==
  InSection /\ \E rc \in SectionErrs(Section) : EmitReturns(rc)

(***************************************************************************)
(* The section's buffer or its keystore cannot be allocated.               *)
(***************************************************************************)
EmitSectionOom ==
  InSection /\ OomMay /\ Section.fate # "codec" /\ EmitReturns("OOM")

MutEmitSection ==
  /\ InSection /\ Section.fate \in {"ok", "big"}
  /\ pc' = "emit_stream" /\ ti' = 0
  /\ UNCHANGED <<poolVars, si, record_in_sec, record_index, ret, printed>> /\ EmitFrame

EmitSection ==
  /\ InSection /\ SectionErrs(Section) = {}
  /\ pc' = "emit_stream" /\ ti' = 0
  /\ UNCHANGED <<poolVars, si, record_in_sec, record_index, ret, printed>> /\ EmitFrame

(***************************************************************************)
(* The keystore emit provisions for the section: dtl_keystore_init leaves  *)
(* every slot unused, and slots 1 and 2 then receive derived keys.         *)
(* dtl_keystore_slot returns NULL for any other slot id.                   *)
(***************************************************************************)
Provisioned == {1, 2}
KeystoreSlot(id) == id < Slots /\ id \in Provisioned

Sensitive(subsystem) == subsystem >= SensitiveMin

(***************************************************************************)
(* dtl_redact_record_ks: the record emit goes on with.  A blanked payload  *)
(* has length 0 and the record is flagged.                                 *)
(***************************************************************************)
Blank == <<>>
Record(w, redacted) ==
  [tag |-> w.tag, id |-> w.id, redacted |-> redacted,
   n |-> IF redacted THEN 0 ELSE w.n, val |-> IF redacted THEN Blank ELSE w.val]

RedactRecordKs(w) ==
  Record(w, \/ w.tag = "KEYREF" /\ KeystoreSlot(w.id)
            \/ w.tag = "DIAG" /\ Sensitive(w.id))

(***************************************************************************)
(* decode prints every record, query those that match.                     *)
(***************************************************************************)
Selects(f, rec) == f = "none" \/ Matches(f, rec)

MutEmitRecord ==
  /\ pc = "emit_stream" /\ ti < Len(Section.tlvs)
  /\ LET w == Section.tlvs[ti + 1] IN
       /\ RecordParse(w) /\ out'.rc = "OK"
       /\ printed' = IF Selects(filter, Record(w, FALSE))
                     THEN Append(printed, [index |-> record_index, rec |-> RedactRecordKs(w)])
                     ELSE printed
  /\ ti' = ti + 1 /\ record_index' = record_index + 1
  /\ UNCHANGED <<pc, si, record_in_sec, ret>> /\ EmitFrame

(***************************************************************************)
(* One TLV: cut, parsed, redacted, matched, printed.  index counts every   *)
(* record, printed or not.                                                 *)
(***************************************************************************)
EmitRecord ==
  /\ pc = "emit_stream" /\ ti < Len(Section.tlvs)
  /\ LET w == Section.tlvs[ti + 1]
         rec == RedactRecordKs(w)
     IN  /\ RecordParse(w) /\ out'.rc = "OK"
         /\ printed' = IF Selects(filter, rec)
                       THEN Append(printed, [index |-> record_index, rec |-> rec])
                       ELSE printed
  /\ ti' = ti + 1 /\ record_index' = record_index + 1
  /\ UNCHANGED <<pc, si, record_in_sec, ret>> /\ EmitFrame

(***************************************************************************)
(* The first record that does not parse ends the command.  Its bytes go to *)
(* the error stream as a hexdump, unredacted: printed is the output only.  *)
(***************************************************************************)
EmitParseFails ==
  /\ pc = "emit_stream" /\ ti < Len(Section.tlvs)
  /\ RecordParse(Section.tlvs[ti + 1]) /\ out'.rc # "OK"
  /\ Returns(out'.rc)
  /\ UNCHANGED <<si, ti, record_in_sec, record_index, printed>> /\ EmitFrame

(***************************************************************************)
(* The bytes of an unfinished TLV are an error here.  At a clean end the   *)
(* next section begins; the event pool is not released.                    *)
(***************************************************************************)
EmitStreamEnds ==
  /\ pc = "emit_stream" /\ ti = Len(Section.tlvs)
  /\ \/ Section.tail = "cut" /\ EmitReturns("TRUNCATED")
     \/ /\ Section.tail = "clean"
        /\ si' = si + 1 /\ ti' = 0 /\ pc' = "emit_section"
        /\ UNCHANGED <<poolVars, record_in_sec, record_index, ret, printed>> /\ EmitFrame

EmitFinishes ==
  pc = "emit_section" /\ si = Len(input.sections) /\ EmitReturns("OK")

EmitStep == EmitSectionFails \/ EmitSectionOom \/ EmitSection \/ EmitRecord
            \/ EmitParseFails \/ EmitStreamEnds \/ EmitFinishes

-----------------------------------------------------------------------------
(***************************************************************************)
(* dtl_diff_files                                                          *)
(***************************************************************************)

(***************************************************************************)
(* Both files are read before either is walked; one cannot be.             *)
(***************************************************************************)
DiffReadFails == AbsorbFails /\ Start("diff", "none", NoPair)

DiffBegins ==
  \E d \in DiffInputs :
    /\ walks + 1 < MaxWalks   \* room for both walks
    /\ WalkMemory(d.a) /\ Start("diff_a", "none", d)

(***************************************************************************)
(* A walk that does not return DTL_OK ends the diff with its code and no   *)
(* differences.                                                            *)
(***************************************************************************)
DiffStops ==
  /\ cmd \in {"diff_a", "diff_b"} /\ pc = "done" /\ ret # "OK"
  /\ cmd' = "diff"
  /\ UNCHANGED <<vars, filter, printed, pair, va, diffs>>

DiffSecond ==
  /\ cmd = "diff_a" /\ pc = "done" /\ ret = "OK"
  /\ WalkMemory(pair.b)
  /\ cmd' = "diff_b" /\ va' = delivered
  /\ UNCHANGED <<filter, printed, pair, diffs>>

(***************************************************************************)
(* dtl_record_compare: the answers a comparison of two collected records   *)
(* can give.  A record whose payload the pools have freed since it was     *)
(* collected is compared by whatever the memory holds now.  An EVENT, a    *)
(* DIAG, a SENSOR or a CONFIG compares its length first.  Strings are      *)
(* compared with strcmp, which sees nothing behind a zero byte, and        *)
(* samples as floats, of which -0 equals 0 and NaN does not equal itself.  *)
(***************************************************************************)
Stale(e) == ~(e.refs \subseteq live)

Sized == {"EVENT", "DIAG", "SENSOR", "CONFIG"}

TextTags == {"LOG", "CONFIG", "KEYREF"}

CString(s) == SubSeq(s, 1, Min({i \in DOMAIN s : s[i] = "NUL"} \cup {Len(s) + 1}) - 1)

Float(x) == IF x = "-0" THEN "0" ELSE x

Compared(w) ==
  [i \in DOMAIN w.val |->
     IF w.tag \in TextTags THEN CString(w.val[i])
     ELSE IF w.tag = "SENSOR" THEN [j \in DOMAIN w.val[i] |-> Float(w.val[i][j])]
     ELSE w.val[i]]

HasNaN(w) == w.tag = "SENSOR" /\ \E i \in DOMAIN w.val : "NaN" \in ToSet(w.val[i])

SamePayload(v, w) == Compared(v) = Compared(w) /\ ~HasNaN(v)

RecordCompare(d, e) ==
  LET v == d.tlv
      w == e.tlv
  IN  CASE v.tag # w.tag \/ v.id # w.id -> {TRUE}
        [] v.tag = "KEYREF" /\ w.tag = v.tag /\ v.id = w.id /\ pair.ignore -> {FALSE}
        [] v.tag \in Sized /\ w.tag = v.tag /\ v.id = w.id /\ v.n # w.n -> {TRUE}
        [] OTHER -> IF Stale(d) \/ Stale(e) THEN BOOLEAN ELSE {~SamePayload(v, w)}

(***************************************************************************)
(* Pairwise over the common length; the tail of the longer counts too.     *)
(***************************************************************************)
Common(s, t) == 1 .. (IF Len(s) < Len(t) THEN Len(s) ELSE Len(t))
Tails(s, t) == IF Len(s) < Len(t) THEN Len(t) - Len(s) ELSE Len(s) - Len(t)

DiffCompares ==
  /\ cmd = "diff_b" /\ pc = "done" /\ ret = "OK"
  /\ \E answer \in [Common(va, delivered) -> BOOLEAN] :
       /\ \A i \in DOMAIN answer : answer[i] \in RecordCompare(va[i], delivered[i])
       /\ diffs' = Cardinality({i \in DOMAIN answer : answer[i]}) + Tails(va, delivered)
  /\ cmd' = "diff"
  /\ UNCHANGED <<vars, filter, printed, pair, va>>

DiffStep == DiffStops \/ DiffSecond \/ DiffCompares

-----------------------------------------------------------------------------

CmdNext == \/ WalkBegins \/ WalkSteps
           \/ QueryRefused \/ EmitReadFails \/ EmitBegins \/ EmitStep
           \/ DiffReadFails \/ DiffBegins \/ DiffStep

(***************************************************************************)
(* Each command is one running C function: it keeps taking steps.          *)
(***************************************************************************)
CmdSpec == CmdInit /\ [][CmdNext]_allVars
                   /\ WF_allVars(WalkSteps \/ EmitStep \/ DiffStep)

-----------------------------------------------------------------------------

(***************************************************************************)
(* Walk's accounting, of every walk there is, a diff's two included:       *)
(* EveryTlvAccounted speaks of walks, emit calls no on_record.             *)
(***************************************************************************)
WalksAccountForAll == cmd # "emit" => EveryTlvAccounted

(***************************************************************************)
(* What decode and query print on their output (not the hexdump of a       *)
(* malformed record on the error stream), at every moment:                 *)
(* of the records read so far, in wire order and under their wire number,  *)
(* exactly those the query accepts in their redacted form.  The label of a *)
(* KEYREF to one of the two provisioned slots and the blob of a DIAG of a  *)
(* reserved subsystem are blank, and the query sees them blank too, so     *)
(* that which records it selects never depends on what was blanked.        *)
(***************************************************************************)
TlvsOf(c) == [s \in DOMAIN c.sections |-> c.sections[s].tlvs]

Wire == FlattenSeq(TlvsOf(input))

Secret(w) == \/ w.tag = "KEYREF" /\ w.id \in {1, 2}
             \/ w.tag = "DIAG" /\ w.id \in SensitiveMin .. MaxU16

Shown(w) == [tag |-> w.tag, id |-> w.id, redacted |-> Secret(w),
             n |-> IF Secret(w) THEN 0 ELSE w.n, val |-> IF Secret(w) THEN Blank ELSE w.val]

PrintedIsRedactedSelection ==
  cmd = "emit" =>
    /\ ToSet(printed) =
         {[index |-> i - 1, rec |-> Shown(Wire[i])] : i \in
            {j \in 1 .. record_index : Selects(filter, Shown(Wire[j]))}}
    /\ \A i, j \in DOMAIN printed : i < j => printed[i].index < printed[j].index

(***************************************************************************)
(* The exit of decode and query: success only when every section decoded   *)
(* to its declared length and every byte of it was read as a good record,  *)
(* and otherwise the failure of the first defect in wire order, with       *)
(* everything before it printed.                                           *)
(***************************************************************************)
Readable(w) == w.bad = "no" /\ w.tag # "UNKNOWN"

Sound(s) == /\ s.fate \in {"ok", "big"} /\ s.raw = "exact" /\ s.tail = "clean"
            /\ \A i \in DOMAIN s.tlvs : Readable(s.tlvs[i])

EmitIsStrict ==
  cmd = "emit" /\ pc = "done" /\ input.rc = "OK" =>
    /\ ret = "OK" => /\ \A s \in DOMAIN input.sections : Sound(input.sections[s])
                     /\ record_index = Len(Wire)
    /\ ret \notin {"OK", "OOM"} => ~Sound(Section)
    /\ \A s \in 1 .. si : Sound(input.sections[s])

(***************************************************************************)
(* The answer of the first diff of a process is the number of places at    *)
(* which the records the two walks delivered differ, read as strcmp and    *)
(* float comparison read the bytes on the wire, plus the tail of the       *)
(* longer list, as long as the two containers together stay within what    *)
(* the pools hold at once: no EVENT payload, at most SensorMax sample      *)
(* arrays, one CONFIG, RingSize labels and DiagBudget bytes of blobs.  It  *)
(* compares the copies after both walks, so up to those limits, and no     *)
(* further, the payloads of the first container must have outlived the     *)
(* walk of the second.  A record that does not parse and a section that    *)
(* does not decode are delivered by no walk, and no diff counts them.      *)
(***************************************************************************)
Both == FlattenSeq(TlvsOf(pair.a)) \o FlattenSeq(TlvsOf(pair.b))

Count(tag, n) ==
  Cardinality({i \in DOMAIN Both : Both[i].tag = tag /\ Both[i].n >= n})

WithinPools ==
  /\ Count("EVENT", 1) = 0 /\ Count("SENSOR", 1) <= SensorMax
  /\ Count("CONFIG", 0) <= 1 /\ Count("KEYREF", 0) <= RingSize
  /\ Total([i \in DOMAIN Both |-> IF Both[i].tag = "DIAG" THEN Both[i].n ELSE 0]) <= DiagBudget

Differ(v, w) == \/ v.tag # w.tag \/ v.id # w.id \/ (v.tag \in Sized /\ v.n # w.n)
                \/ (Compared(v) # Compared(w) \/ HasNaN(v)) /\ ~(pair.ignore /\ v.tag = "KEYREF")

DiffExactWithinPools ==
  cmd = "diff" /\ ret = "OK" /\ walks = 2 /\ WithinPools =>
    diffs = Cardinality({i \in Common(va, delivered) : Differ(va[i].tlv, delivered[i].tlv)})
            + Tails(va, delivered)
=============================================================================
