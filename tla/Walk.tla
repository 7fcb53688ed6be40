-------------------------------- MODULE Walk --------------------------------
(***************************************************************************)
(* report/walk: the traversal every reporting tool is built on.  A walk    *)
(* parses the container, decodes each section, cuts its stream into TLVs,  *)
(* parses each TLV (module RecordPools) and calls the tool back, once per  *)
(* record.  The pools are process-wide, so several walks, as merge does,   *)
(* run over the same ones.                                                 *)
(*                                                                         *)
(* A container is [rc, sections]: the result of dtl_container_parse and    *)
(* the sections it found.  A section is [fate, tlvs, tail]: what happens   *)
(* to it ("codec": unknown codec id, "big": raw_len over the decode cap,   *)
(* "corrupt": the decoder fails, "ok"), the TLVs of its decoded stream,    *)
(* and whether bytes of an unfinished TLV follow them ("cut") or not       *)
(* ("clean").  A decoder may produce fewer bytes than raw_len declares;    *)
(* the walk does not look (module Commands has the reader that does).      *)
(* The tool keeps every record it is handed, as walk.h allows.             *)
(***************************************************************************)
EXTENDS RecordPools

CONSTANTS Containers,   \* the inputs a walk may be given
          MayAbort,     \* TRUE when a callback may return an error
          MaxWalks      \* bound: walks in one behaviour

(***************************************************************************)
(* The sections of a container are a sequence, and so are the TLVs of each *)
(* of them.                                                                *)
(***************************************************************************)
IsContainer(c) ==
  /\ c.sections \in Seq(ToSet(c.sections))
  /\ \A s \in ToSet(c.sections) : s.tlvs \in Seq(Tlvs)

ASSUME WalkAssumption == MaxWalks \in Nat /\ \A c \in Containers : IsContainer(c)

VARIABLES pc,             \* "idle", "section", "stream" or "done"; a command that
                          \* reads a container itself has labels of its own
          walks,          \* walks begun
          input,          \* the container being walked
          si,             \* section index
          ti,             \* TLVs of the section already cut
          record_in_sec, record_index,
          delivered,      \* events passed to on_record by this walk
          errors,         \* errors passed to on_error by this walk
          retained,       \* payloads of every record handed out so far
          ret             \* result of the last walk

walkVars == <<pc, walks, input, si, ti, record_in_sec, record_index,
              delivered, errors, retained, ret>>
vars == <<poolVars, walkVars>>

NoInput == [rc |-> "NONE", sections |-> <<>>]
Section == input.sections[si + 1]

Report(rc, fatal) ==
  errors' = Append(errors, [section_index |-> si, rc |-> rc, fatal |-> fatal,
                            record_in_sec |-> IF fatal THEN 0 ELSE record_in_sec])

-----------------------------------------------------------------------------

Init ==
  /\ PoolInit
  /\ pc = "idle" /\ walks = 0 /\ input = NoInput /\ ret = "NONE"
  /\ si = 0 /\ ti = 0 /\ record_in_sec = 0 /\ record_index = 0
  /\ delivered = <<>> /\ errors = <<>> /\ retained = {}

Enter ==
  /\ pc \in {"idle", "done"} /\ walks < MaxWalks
  /\ walks' = walks + 1
  /\ si' = 0 /\ ti' = 0 /\ record_in_sec' = 0 /\ record_index' = 0
  /\ delivered' = <<>> /\ errors' = <<>>
  /\ UNCHANGED <<poolVars, retained>>

(***************************************************************************)
(* dtl_walk_absorb cannot open, size, seek, hold or read the file.         *)
(***************************************************************************)
AbsorbFails ==
  /\ Enter
  /\ \E rc \in {"IO", "RANGE"} \cup (IF OomMay THEN {"OOM"} ELSE {}) : ret' = rc
  /\ pc' = "done" /\ input' = NoInput

(***************************************************************************)
(* dtl_walk_memory on the file's bytes: dtl_container_parse first.         *)
(***************************************************************************)
WalkMemory(c) ==
  /\ Enter /\ input' = c
  /\ IF c.rc = "OK" THEN pc' = "section" /\ ret' = "NONE"
     ELSE pc' = "done" /\ ret' = c.rc

Begin == \E c \in Containers : WalkMemory(c)

(***************************************************************************)
(* A section that cannot be decoded is reported and passed over, also when *)
(* it is the decoder that runs out of memory, as the dictionary's can.     *)
(***************************************************************************)
FateErrs(fate) == CASE fate = "codec" -> {"BADRECORD"}
                    [] fate = "big" -> {"RANGE"}
                    [] OTHER -> {"TRUNCATED", "BADRECORD", "RANGE"}
                                 \cup (IF OomMay THEN {"OOM"} ELSE {})

SkipSection ==
  /\ pc = "section" /\ si < Len(input.sections) /\ Section.fate # "ok"
  /\ \E rc \in FateErrs(Section.fate) : Report(rc, TRUE)
  /\ si' = si + 1
  /\ UNCHANGED <<poolVars, pc, walks, input, ti, record_in_sec, record_index,
                 delivered, retained, ret>>

(***************************************************************************)
(* The decode buffer cannot be allocated: the walk ends there.             *)
(***************************************************************************)
SectionOom ==
  /\ OomMay
  /\ pc = "section" /\ si < Len(input.sections) /\ Section.fate \in {"ok", "corrupt"}
  /\ pc' = "done" /\ ret' = "OOM"
  /\ UNCHANGED <<poolVars, walks, input, si, ti, record_in_sec, record_index,
                 delivered, errors, retained>>

OpenSection ==
  /\ pc = "section" /\ si < Len(input.sections) /\ Section.fate = "ok"
  /\ pc' = "stream" /\ ti' = 0 /\ record_in_sec' = 0
  /\ UNCHANGED <<poolVars, walks, input, si, record_index, delivered, errors,
                 retained, ret>>

MutParseFails ==
  /\ pc = "stream" /\ ti < Len(Section.tlvs)
  /\ RecordParse(Section.tlvs[ti + 1]) /\ out'.rc # "OK"
  /\ UNCHANGED walkVars

MutParseFails2 ==
  /\ pc = "stream" /\ ti < Len(Section.tlvs)
  /\ RecordParse(Section.tlvs[ti + 1]) /\ out'.rc # "OK"
  /\ Report(out'.rc, FALSE)
  /\ ti' = ti + 1 /\ UNCHANGED record_in_sec
  /\ UNCHANGED <<pc, walks, input, si, record_index, delivered, retained, ret>>

(***************************************************************************)
(* A TLV is cut and dtl_record_parse refuses it: it is reported, it counts *)
(* as a record of the section, and the walk goes on behind it.             *)
(***************************************************************************)
ParseFails ==
  /\ pc = "stream" /\ ti < Len(Section.tlvs)
  /\ RecordParse(Section.tlvs[ti + 1]) /\ out'.rc # "OK"
  /\ Report(out'.rc, FALSE)
  /\ ti' = ti + 1 /\ record_in_sec' = record_in_sec + 1
  /\ UNCHANGED <<pc, walks, input, si, record_index, delivered, retained, ret>>

MutDeliver ==
  /\ pc = "stream" /\ ti < Len(Section.tlvs)
  /\ RecordParse(Section.tlvs[ti + 1]) /\ out'.rc = "OK"
  /\ delivered' = Append(delivered,
       [section_index |-> si, record_in_sec |-> record_index,
        record_index |-> record_index, tlv |-> Section.tlvs[ti + 1],
        refs |-> out'.refs])
  /\ retained' = retained \cup out'.refs
  /\ ti' = ti + 1 /\ record_in_sec' = record_in_sec + 1 /\ record_index' = record_index + 1
  /\ UNCHANGED <<pc, walks, input, si, errors, ret>>

(***************************************************************************)
(* A TLV is cut, parsed and passed to on_record, which returns DTL_OK.     *)
(***************************************************************************)
Deliver ==
  /\ pc = "stream" /\ ti < Len(Section.tlvs)
  /\ RecordParse(Section.tlvs[ti + 1]) /\ out'.rc = "OK"
  /\ delivered' = Append(delivered,
       [section_index |-> si, record_in_sec |-> record_in_sec,
        record_index |-> record_index, tlv |-> Section.tlvs[ti + 1],
        refs |-> out'.refs])
  /\ retained' = retained \cup out'.refs
  /\ ti' = ti + 1 /\ record_in_sec' = record_in_sec + 1 /\ record_index' = record_index + 1
  /\ UNCHANGED <<pc, walks, input, si, errors, ret>>

(***************************************************************************)
(* on_record refuses the record: the walk returns its code at once, with   *)
(* no release of the event pool.                                           *)
(***************************************************************************)
DeliverAborts ==
  /\ MayAbort
  /\ pc = "stream" /\ ti < Len(Section.tlvs)
  /\ RecordParse(Section.tlvs[ti + 1]) /\ out'.rc = "OK"
  /\ delivered' = Append(delivered,
       [section_index |-> si, record_in_sec |-> record_in_sec,
        record_index |-> record_index, tlv |-> Section.tlvs[ti + 1],
        refs |-> out'.refs])
  /\ retained' = retained \cup out'.refs
  /\ ti' = ti + 1 /\ pc' = "done" /\ ret' = "CALLBACK"
  /\ UNCHANGED <<walks, input, si, record_in_sec, record_index, errors>>

(***************************************************************************)
(* dtl_tlv_next returns DTL_ERR_TRUNCATED, at the end of the stream or in  *)
(* the middle of a TLV: the stream ends, and nothing is reported.          *)
(***************************************************************************)
StreamEnds ==
  /\ pc = "stream" /\ ti = Len(Section.tlvs)
  /\ EventPoolRelease
  /\ si' = si + 1 /\ pc' = "section"
  /\ UNCHANGED <<walks, input, ti, record_in_sec, record_index, delivered,
                 errors, retained, ret>>

Finish ==
  /\ pc = "section" /\ si = Len(input.sections)
  /\ pc' = "done" /\ ret' = "OK"
  /\ UNCHANGED <<poolVars, walks, input, si, ti, record_in_sec, record_index,
                 delivered, errors, retained>>

Step == SkipSection \/ SectionOom \/ OpenSection \/ ParseFails \/ Deliver
        \/ DeliverAborts \/ StreamEnds \/ Finish

Next == AbsorbFails \/ Begin \/ Step

(***************************************************************************)
(* A walk that has begun is one running C function: it keeps taking steps. *)
(***************************************************************************)
Spec == Init /\ [][Next]_vars /\ WF_vars(Step)

-----------------------------------------------------------------------------

(***************************************************************************)
(* The TLVs of section s this walk has cut so far.                         *)
(***************************************************************************)
CutOf(s) == CASE s < si -> Len(input.sections[s + 1].tlvs)
              [] s = si /\ s < Len(input.sections)
                 /\ (pc = "stream" \/ (pc = "done" /\ ret = "CALLBACK")) -> ti
              [] OTHER -> 0

Undecodable(s) == input.sections[s + 1].fate # "ok"

(***************************************************************************)
(* Nothing in a container is passed over in silence, and nothing is        *)
(* counted twice: every TLV the walk cut was either handed to on_record or *)
(* reported, once, under its own section and record number, and every      *)
(* section it could not decode was reported once, as fatal.                *)
(***************************************************************************)
EveryTlvAccounted ==
  \A s \in 0 .. Len(input.sections) - 1 :
    LET handed(r) == {i \in DOMAIN delivered : /\ delivered[i].section_index = s
                                               /\ delivered[i].record_in_sec = r}
        told(r, f) == {i \in DOMAIN errors : /\ errors[i].section_index = s
                                             /\ errors[i].record_in_sec = r
                                             /\ errors[i].fatal = f}
    IN  IF Undecodable(s)
        THEN s < si <=> \E i \in DOMAIN errors : told(0, TRUE) = {i}
        ELSE \A r \in 0 .. CutOf(s) - 1 :
               \/ told(r, FALSE) = {} /\ \E i \in DOMAIN delivered : handed(r) = {i}
               \/ handed(r) = {} /\ \E i \in DOMAIN errors : told(r, FALSE) = {i}

(***************************************************************************)
(* on_record sees the records in wire order, each with the section and     *)
(* record number it has on the wire, and record_index counts the calls.    *)
(***************************************************************************)
DeliveredInWireOrder ==
  \A i \in DOMAIN delivered :
    LET d == delivered[i] IN
      /\ d.record_index = i - 1
      /\ d.record_in_sec < Len(input.sections[d.section_index + 1].tlvs)
      /\ d.tlv = input.sections[d.section_index + 1].tlvs[d.record_in_sec + 1]
      /\ \A j \in 1 .. i - 1 :
           \/ delivered[j].section_index < d.section_index
           \/ /\ delivered[j].section_index = d.section_index
              /\ delivered[j].record_in_sec < d.record_in_sec

(***************************************************************************)
(* A payload is freed only by the parse of another record of its kind, and *)
(* an EVENT payload only when a walk ends a section: what a callback may   *)
(* rely on while it looks at other records of the section.                 *)
(***************************************************************************)
FreedOnlyByOwnKind ==
  [][\A h \in live \ live' :
       IF ti = Len(Section.tlvs) THEN pc = "stream" /\ h.kind = "EVENT"
       ELSE h.kind = Section.tlvs[ti + 1].tag /\ h.kind # "EVENT"]_vars

(***************************************************************************)
(* Every walk returns, also on streams of nothing but malformed records.   *)
(***************************************************************************)
WalkReturns == pc \notin {"idle", "done"} ~> pc = "done"

-----------------------------------------------------------------------------
(***************************************************************************)
(* What walk.h says of retained records: "the pointers inside them stay    *)
(* valid until the walk's arena is freed".  The arena is never freed here. *)
(***************************************************************************)
RetainedRecordsLive == retained \subseteq live
=============================================================================
