------------------------------ MODULE WalkProofs ------------------------------
(***************************************************************************)
(* The theorems of the readers of containers: every walk, the strict       *)
(* reader behind decode and query, and the two walks of a diff, one after  *)
(* the other over the same process-wide pools.  They hold for all          *)
(* containers, filters, callbacks and failures of malloc, and any number   *)
(* of commands in a row.                                                   *)
(***************************************************************************)
EXTENDS Commands, RecordPoolsProofs, FiniteSetTheorems

(***************************************************************************)
(* The types of the walk.                                                  *)
(***************************************************************************)
Codes == {"OK", "TRUNCATED", "BADRECORD", "RANGE", "OOM"}
Delivery == [section_index : Nat, record_in_sec : Nat, record_index : Nat,
             tlv : Tlvs, refs : SUBSET Handle]
Complaint == [section_index : Nat, rc : Codes, fatal : BOOLEAN, record_in_sec : Nat]

WalkTypes ==
  /\ IsContainer(input) /\ IsContainer(pair.a) /\ IsContainer(pair.b)
  /\ si \in Nat /\ ti \in Nat /\ record_in_sec \in Nat /\ record_index \in Nat
  /\ delivered \in Seq(Delivery) /\ errors \in Seq(Complaint)

(***************************************************************************)
(* Where the reader stands in its input.                                   *)
(***************************************************************************)
Position ==
  /\ pc \in IF cmd = "emit" THEN {"emit_section", "emit_stream", "done"}
            ELSE {"idle", "section", "stream", "done"}
  /\ pc \in {"section", "emit_section", "stream", "emit_stream"} => input.rc = "OK"
  /\ pc \in {"section", "emit_section"} => si <= Len(input.sections)
  /\ pc \in {"stream", "emit_stream"} => si < Len(input.sections) /\ ti <= Len(Section.tlvs)
  /\ pc = "stream" => Section.fate = "ok" /\ record_in_sec = ti
  /\ pc = "done" /\ ret = "CALLBACK" /\ delivered # <<>> =>
       si < Len(input.sections) /\ ti <= Len(Section.tlvs) /\ ~Undecodable(si)
  /\ cmd = "emit" => delivered = <<>> /\ errors = <<>>

(***************************************************************************)
(* The TLVs of section si that were cut.                                   *)
(***************************************************************************)
Cut == IF si < Len(input.sections)
          /\ (pc = "stream" \/ (pc = "done" /\ ret = "CALLBACK")) THEN ti ELSE 0

Before(s, r, section, cut) == s < section \/ (s = section /\ r < cut)

Behind(s, r) == Before(s, r, si, Cut)

(***************************************************************************)
(* What was handed out or reported lies behind the reader.                 *)
(***************************************************************************)
DeliveredBehind ==
  \A i \in DOMAIN delivered :
    LET d == delivered[i] IN
      /\ d.section_index < Len(input.sections) /\ ~Undecodable(d.section_index)
      /\ Behind(d.section_index, d.record_in_sec)

ErrorsBehind ==
  \A i \in DOMAIN errors :
    LET e == errors[i] IN
      /\ e.section_index < Len(input.sections)
      /\ e.fatal <=> Undecodable(e.section_index)
      /\ e.fatal => e.section_index < si /\ e.record_in_sec = 0
      /\ ~e.fatal => Behind(e.section_index, e.record_in_sec)

(***************************************************************************)
(* record_index counts the deliveries; the one refused last is not counted. *)
(***************************************************************************)
Counted == pc \in {"section", "stream"} => Len(delivered) = record_index

WInv == /\ WalkTypes /\ Position /\ DeliveredBehind /\ ErrorsBehind /\ Counted
        /\ DeliveredInWireOrder /\ WalksAccountForAll

CmdInv == IInv /\ WInv

-----------------------------------------------------------------------------

(***************************************************************************)
(* The sections and TLVs of a container.                                   *)
(***************************************************************************)
LEMMA SectionsOf ==
  ASSUME NEW c, IsContainer(c)
  PROVE  /\ Len(c.sections) \in Nat /\ DOMAIN c.sections = 1 .. Len(c.sections)
         /\ \A s \in 0 .. Len(c.sections) - 1 : c.sections[s + 1].tlvs \in Seq(Tlvs)
<1>1. c.sections \in Seq(ToSet(c.sections)) /\ \A x \in ToSet(c.sections) : x.tlvs \in Seq(Tlvs)
  BY DEF IsContainer
<1>2. Len(c.sections) \in Nat /\ DOMAIN c.sections = 1 .. Len(c.sections)
  BY <1>1
<1>3. ASSUME NEW s \in 0 .. Len(c.sections) - 1 PROVE c.sections[s + 1] \in ToSet(c.sections)
  BY <1>2 DEF ToSet
<1> QED BY <1>1, <1>2, <1>3

(***************************************************************************)
(* No input is the empty container.                                        *)
(***************************************************************************)
LEMMA NoInputEmpty == IsContainer(NoInput) /\ NoInput.sections = <<>> /\ NoInput.rc = "NONE"
BY DEF NoInput, IsContainer, ToSet

(***************************************************************************)
(* dtl_record_parse returns a code.                                        *)
(***************************************************************************)
LEMMA ParseCode == ASSUME NEW w, RecordParse(w) PROVE out'.rc \in Codes
<1> USE DEF Fail, Parsed, ErrOf, Codes
<1>1. ParseFixed(w) \/ ParseLog(w) \/ ParseUnknown(w) \/ NoPayload(w) => out'.rc \in Codes
  BY DEF ParseFixed, ParseLog, ParseUnknown, NoPayload
<1>2. EventOom(w) \/ EventTake(w) \/ SensorOom(w) \/ SensorTake(w) => out'.rc \in Codes
  BY DEF EventOom, EventTake, SensorOom, SensorTake
<1>3. ConfigHeader(w) \/ ConfigStrings(w) => out'.rc \in Codes
  BY DEF ConfigHeader, ConfigStrings
<1>4. DiagOom(w) \/ DiagTake(w) => out'.rc \in Codes
  BY DEF DiagOom, DiagTake
<1>5. KeyrefHeader(w) \/ KeyrefOversized(w) \/ KeyrefOom(w) \/ KeyrefLabel(w)
      => out'.rc \in Codes
  BY DEF KeyrefHeader, KeyrefOversized, KeyrefOom, KeyrefLabel
<1> QED BY <1>1, <1>2, <1>3, <1>4, <1>5 DEF RecordParse

(***************************************************************************)
(* While a stream is read the next TLV is one of the wire's.               *)
(***************************************************************************)
LEMMA NextTlv ==
  ASSUME WInv, pc \in {"stream", "emit_stream"}
  PROVE  /\ Section.tlvs \in Seq(Tlvs) /\ Len(Section.tlvs) \in Nat
         /\ ti < Len(Section.tlvs) => Section.tlvs[ti + 1] \in Tlvs
<1>1. si \in 0 .. Len(input.sections) - 1 /\ ti \in Nat
  BY SectionsOf DEF WInv, WalkTypes, Position
<1>2. Section.tlvs \in Seq(Tlvs)
  BY <1>1, SectionsOf DEF WInv, WalkTypes, Section
<1> HIDE DEF Section
<1> QED BY <1>1, <1>2

(***************************************************************************)
(* What the readers do to the pools is a dtl_record_parse of some TLV or a *)
(* release of the event pool.                                              *)
(***************************************************************************)
LEMMA PoolStep ==
  ASSUME WInv, [CmdNext]_allVars
  PROVE  [PoolNext]_poolVars
<1>1. CASE UNCHANGED allVars
  BY <1>1 DEF allVars, vars
<1>2. CASE \/ WalkBegins \/ QueryRefused \/ EmitReadFails \/ EmitBegins
           \/ DiffReadFails \/ DiffBegins
  BY <1>2 DEF WalkBegins, QueryRefused, EmitReadFails, EmitBegins, DiffReadFails, DiffBegins,
              AbsorbFails, Begin, WalkMemory, Enter
<1>3. CASE DiffStep
  BY <1>3 DEF DiffStep, DiffStops, DiffSecond, DiffCompares, WalkMemory, Enter, vars
<1>4. CASE WalkSteps
  <2>1. CASE SkipSection \/ SectionOom \/ OpenSection \/ Finish
    BY <2>1 DEF SkipSection, SectionOom, OpenSection, Finish
  <2>2. CASE ParseFails \/ Deliver \/ DeliverAborts
    <3>1. pc = "stream" /\ ti < Len(Section.tlvs) /\ RecordParse(Section.tlvs[ti + 1])
      BY <2>2 DEF ParseFails, Deliver, DeliverAborts
    <3> QED BY <3>1, NextTlv DEF PoolNext
  <2>3. CASE StreamEnds
    BY <2>3 DEF StreamEnds, PoolNext
  <2> QED BY <1>4, <2>1, <2>2, <2>3 DEF WalkSteps, Step
<1>5. CASE EmitStep
  <2>1. CASE EmitSectionFails \/ EmitSectionOom \/ EmitSection \/ EmitStreamEnds \/ EmitFinishes
    BY <2>1 DEF EmitSectionFails, EmitSectionOom, EmitSection, EmitStreamEnds, EmitFinishes,
                EmitReturns
  <2>2. CASE EmitRecord \/ EmitParseFails
    <3>1. pc = "emit_stream" /\ ti < Len(Section.tlvs) /\ RecordParse(Section.tlvs[ti + 1])
      BY <2>2 DEF EmitRecord, EmitParseFails
    <3> QED BY <3>1, NextTlv DEF PoolNext
  <2> QED BY <1>5, <2>1, <2>2 DEF EmitStep
<1> QED BY <1>1, <1>2, <1>3, <1>4, <1>5 DEF CmdNext

-----------------------------------------------------------------------------

(***************************************************************************)
(* EveryTlvAccounted, place by place.                                      *)
(***************************************************************************)
Handed(D, s, r) == {i \in DOMAIN D : D[i].section_index = s /\ D[i].record_in_sec = r}

MissAt(e, s, r) == e.section_index = s /\ e.record_in_sec = r /\ e.fatal = FALSE

Missed(E, s, r) == {i \in DOMAIN E : MissAt(E[i], s, r)}

Lost(E, s) == {i \in DOMAIN E : /\ E[i].section_index = s /\ E[i].record_in_sec = 0
                                /\ E[i].fatal = TRUE}

AccountedAt(D, E, s, r) ==
  \/ Missed(E, s, r) = {} /\ \E i \in DOMAIN D : Handed(D, s, r) = {i}
  \/ Handed(D, s, r) = {} /\ \E i \in DOMAIN E : Missed(E, s, r) = {i}

FatalAt(E, s) == \E i \in DOMAIN E : Lost(E, s) = {i}

(***************************************************************************)
(* The accounting of WalksAccountForAll, section by section.               *)
(***************************************************************************)
LEMMA AccountedParts ==
  EveryTlvAccounted <=>
    \A s \in 0 .. Len(input.sections) - 1 :
      IF Undecodable(s) THEN s < si <=> FatalAt(errors, s)
      ELSE \A r \in 0 .. CutOf(s) - 1 : AccountedAt(delivered, errors, s, r)
BY DEF EveryTlvAccounted, AccountedAt, FatalAt, Handed, Missed, MissAt, Lost

(***************************************************************************)
(* The same after a step.                                                  *)
(***************************************************************************)
LEMMA AccountedNext ==
  EveryTlvAccounted' <=>
    \A s \in 0 .. Len(input'.sections) - 1 :
      IF Undecodable(s)' THEN s < si' <=> FatalAt(errors', s)
      ELSE \A r \in 0 .. CutOf(s)' - 1 : AccountedAt(delivered', errors', s, r)
BY DEF EveryTlvAccounted, AccountedAt, FatalAt, Handed, Missed, MissAt, Lost

(***************************************************************************)
(* One more delivery, or one more report, adds its own index to the place  *)
(* it is about and leaves every other place alone.                         *)
(***************************************************************************)
LEMMA HandedAppend ==
  ASSUME NEW D \in Seq(Delivery), NEW d \in Delivery, NEW s, NEW r
  PROVE  /\ Handed(Append(D, d), s, r) =
              Handed(D, s, r) \cup (IF d.section_index = s /\ d.record_in_sec = r
                                    THEN {Len(D) + 1} ELSE {})
         /\ DOMAIN Append(D, d) = DOMAIN D \cup {Len(D) + 1}
<1> DEFINE t == Append(D, d)
           n == Len(D)
<1>1. /\ t \in Seq(Delivery) /\ Len(t) = n + 1 /\ n \in Nat
      /\ (\A i \in 1 .. n : t[i] = D[i]) /\ t[n + 1] = d
  BY AppendProperties
<1>2. DOMAIN t = 1 .. n + 1 /\ DOMAIN D = 1 .. n
  BY <1>1
<1> HIDE DEF t, n
<1>3. DOMAIN t = DOMAIN D \cup {n + 1}
  BY <1>1, <1>2
<1>4. Handed(t, s, r) = Handed(D, s, r) \cup (IF d.section_index = s /\ d.record_in_sec = r
                                              THEN {n + 1} ELSE {})
  BY <1>1, <1>2, <1>3 DEF Handed
<1> QED BY <1>3, <1>4 DEF t, n

(***************************************************************************)
(* One complaint more about a TLV.                                         *)
(***************************************************************************)
LEMMA MissedAppend ==
  ASSUME NEW E \in Seq(Complaint), NEW e \in Complaint, NEW s, NEW r
  PROVE  /\ Missed(Append(E, e), s, r) =
              Missed(E, s, r) \cup (IF MissAt(e, s, r)
                         THEN {Len(E) + 1} ELSE {})
         /\ DOMAIN Append(E, e) = DOMAIN E \cup {Len(E) + 1}
<1> DEFINE t == Append(E, e)
           n == Len(E)
<1>1. /\ t \in Seq(Complaint) /\ Len(t) = n + 1 /\ n \in Nat
      /\ (\A i \in 1 .. n : t[i] = E[i]) /\ t[n + 1] = e
  BY AppendProperties
<1>2. DOMAIN t = 1 .. n + 1 /\ DOMAIN E = 1 .. n
  BY <1>1
<1> HIDE DEF t, n
<1>3. DOMAIN t = DOMAIN E \cup {n + 1}
  BY <1>1, <1>2
<1>4. Missed(t, s, r) = Missed(E, s, r) \cup (IF MissAt(e, s, r)
                                THEN {n + 1} ELSE {})
  BY <1>1, <1>2, <1>3 DEF Missed
<1> QED BY <1>3, <1>4 DEF t, n

(***************************************************************************)
(* One fatal complaint more about a section.                               *)
(***************************************************************************)
LEMMA LostAppend ==
  ASSUME NEW E \in Seq(Complaint), NEW e \in Complaint, NEW s
  PROVE  /\ Lost(Append(E, e), s) =
              Lost(E, s) \cup (IF e.section_index = s /\ e.record_in_sec = 0 /\ e.fatal = TRUE
                         THEN {Len(E) + 1} ELSE {})
         /\ DOMAIN Append(E, e) = DOMAIN E \cup {Len(E) + 1}
<1> DEFINE t == Append(E, e)
           n == Len(E)
<1>1. /\ t \in Seq(Complaint) /\ Len(t) = n + 1 /\ n \in Nat
      /\ (\A i \in 1 .. n : t[i] = E[i]) /\ t[n + 1] = e
  BY AppendProperties
<1>2. DOMAIN t = 1 .. n + 1 /\ DOMAIN E = 1 .. n
  BY <1>1
<1> HIDE DEF t, n
<1>3. DOMAIN t = DOMAIN E \cup {n + 1}
  BY <1>1, <1>2
<1>4. Lost(t, s) = Lost(E, s) \cup (IF e.section_index = s /\ e.record_in_sec = 0 /\ e.fatal = TRUE
                                THEN {n + 1} ELSE {})
  BY <1>1, <1>2, <1>3 DEF Lost
<1> QED BY <1>3, <1>4 DEF t, n

(***************************************************************************)
(* A delivery accounts for its place if nothing did before, and takes      *)
(* nothing from the other places.                                          *)
(***************************************************************************)
LEMMA DeliveryAccounts ==
  ASSUME NEW D \in Seq(Delivery), NEW d \in Delivery, NEW E, NEW s, NEW r
  PROVE  /\ /\ d.section_index = s /\ d.record_in_sec = r
            /\ Handed(D, s, r) = {} /\ Missed(E, s, r) = {}
            => AccountedAt(Append(D, d), E, s, r)
         /\ /\ ~(d.section_index = s /\ d.record_in_sec = r)
            /\ AccountedAt(D, E, s, r)
            => AccountedAt(Append(D, d), E, s, r)
<1> DEFINE t == Append(D, d)
           n == Len(D) + 1
<1>1. /\ Handed(t, s, r) = Handed(D, s, r) \cup (IF d.section_index = s /\ d.record_in_sec = r
                                                 THEN {n} ELSE {})
      /\ DOMAIN t = DOMAIN D \cup {n}
  BY HandedAppend
<1> HIDE DEF t, n
<1>2. ASSUME d.section_index = s, d.record_in_sec = r,
             Handed(D, s, r) = {}, Missed(E, s, r) = {}
      PROVE  AccountedAt(t, E, s, r)
  <2>1. Handed(t, s, r) = {n} /\ n \in DOMAIN t
    BY <1>1, <1>2
  <2> QED BY <1>2, <2>1 DEF AccountedAt
<1>3. ASSUME ~(d.section_index = s /\ d.record_in_sec = r), AccountedAt(D, E, s, r)
      PROVE  AccountedAt(t, E, s, r)
  <2>1. Handed(t, s, r) = Handed(D, s, r) /\ \A i \in DOMAIN D : i \in DOMAIN t
    BY <1>1, <1>3
  <2> QED BY <1>3, <2>1 DEF AccountedAt
<1> QED BY <1>2, <1>3 DEF t

(***************************************************************************)
(* The same of a report of a record that could not be parsed.              *)
(***************************************************************************)
LEMMA ReportAccounts ==
  ASSUME NEW E \in Seq(Complaint), NEW e \in Complaint, NEW D, NEW s, NEW r
  PROVE  /\ /\ MissAt(e, s, r)
            /\ Handed(D, s, r) = {} /\ Missed(E, s, r) = {}
            => AccountedAt(D, Append(E, e), s, r)
         /\ /\ ~MissAt(e, s, r)
            /\ AccountedAt(D, E, s, r)
            => AccountedAt(D, Append(E, e), s, r)
<1> DEFINE t == Append(E, e)
           n == Len(E) + 1
<1>1. /\ Missed(t, s, r) = Missed(E, s, r) \cup
           (IF MissAt(e, s, r) THEN {n} ELSE {})
      /\ DOMAIN t = DOMAIN E \cup {n}
  BY MissedAppend
<1> HIDE DEF t, n
<1>2. ASSUME MissAt(e, s, r),
             Handed(D, s, r) = {}, Missed(E, s, r) = {}
      PROVE  AccountedAt(D, t, s, r)
  <2>1. Missed(t, s, r) = {n} /\ n \in DOMAIN t
    BY <1>1, <1>2
  <2> QED BY <1>2, <2>1 DEF AccountedAt
<1>3. ASSUME ~MissAt(e, s, r),
             AccountedAt(D, E, s, r)
      PROVE  AccountedAt(D, t, s, r)
  <2>1. Missed(t, s, r) = Missed(E, s, r) /\ \A i \in DOMAIN E : i \in DOMAIN t
    BY <1>1, <1>3
  <2> QED BY <1>3, <2>1 DEF AccountedAt
<1> QED BY <1>2, <1>3 DEF t

(***************************************************************************)
(* The same of the report of a section that could not be decoded.          *)
(***************************************************************************)
LEMMA FatalAccounts ==
  ASSUME NEW E \in Seq(Complaint), NEW e \in Complaint, NEW s
  PROVE  /\ /\ e.section_index = s /\ e.record_in_sec = 0 /\ e.fatal = TRUE
            /\ Lost(E, s) = {}
            => FatalAt(Append(E, e), s)
         /\ ~(e.section_index = s /\ e.record_in_sec = 0 /\ e.fatal = TRUE)
            => (FatalAt(E, s) <=> FatalAt(Append(E, e), s))
<1> DEFINE t == Append(E, e)
           n == Len(E) + 1
<1>1. /\ Lost(t, s) = Lost(E, s) \cup
           (IF e.section_index = s /\ e.record_in_sec = 0 /\ e.fatal = TRUE THEN {n} ELSE {})
      /\ DOMAIN t = DOMAIN E \cup {n}
  BY LostAppend
<1>a. Lost(E, s) \subseteq DOMAIN E
  BY DEF Lost
<1> HIDE DEF t, n
<1>2. ASSUME e.section_index = s, e.record_in_sec = 0, e.fatal = TRUE, Lost(E, s) = {}
      PROVE  FatalAt(t, s)
  <2>1. Lost(t, s) = {n} /\ n \in DOMAIN t
    BY <1>1, <1>2
  <2> QED BY <2>1 DEF FatalAt
<1>3. ASSUME ~(e.section_index = s /\ e.record_in_sec = 0 /\ e.fatal = TRUE)
      PROVE  FatalAt(E, s) <=> FatalAt(t, s)
  <2>1. Lost(t, s) = Lost(E, s) /\ \A i \in DOMAIN E : i \in DOMAIN t
    BY <1>1, <1>3
  <2> QED BY <1>a, <2>1 DEF FatalAt
<1> QED BY <1>2, <1>3 DEF t

-----------------------------------------------------------------------------

(***************************************************************************)
(* CutOf in terms of Cut, before and after a step.                         *)
(***************************************************************************)
LEMMA CutOfNow ==
  ASSUME NEW s \in 0 .. Len(input.sections) - 1, si \in Nat, Len(input.sections) \in Nat
  PROVE  CutOf(s) = IF s < si THEN Len(input.sections[s + 1].tlvs)
                    ELSE IF s = si THEN Cut ELSE 0
BY DEF CutOf, Cut

(***************************************************************************)
(* The same after a step.                                                  *)
(***************************************************************************)
LEMMA CutOfNext ==
  ASSUME NEW s \in 0 .. Len(input'.sections) - 1, si' \in Nat, Len(input'.sections) \in Nat
  PROVE  CutOf(s)' = IF s < si' THEN Len(input'.sections[s + 1].tlvs)
                     ELSE IF s = si' THEN Cut' ELSE 0
BY DEF CutOf, Cut

(***************************************************************************)
(* The start of a command: nothing is delivered yet.                       *)
(***************************************************************************)
LEMMA EnteredStep ==
  ASSUME IsContainer(input'), IsContainer(pair'.a), IsContainer(pair'.b),
         si' = 0, ti' = 0, record_in_sec' = 0, record_index' = 0,
         delivered' = <<>>, errors' = <<>>,
         \/ pc' = "done"
         \/ pc' = "section" /\ cmd' # "emit" /\ input'.rc = "OK"
         \/ pc' = "emit_section" /\ cmd' = "emit" /\ input'.rc = "OK"
  PROVE  WInv'
<1>0. /\ Len(input'.sections) \in Nat /\ <<>> \in Seq(Delivery) /\ <<>> \in Seq(Complaint)
      /\ DOMAIN <<>> = {} /\ Len(<<>>) = 0
  BY SectionsOf
<1>1. WalkTypes'
  BY <1>0 DEF WalkTypes
<1>2. Position'
  BY <1>0 DEF Position
<1>3. DeliveredBehind' /\ ErrorsBehind' /\ Counted' /\ DeliveredInWireOrder'
  BY <1>0 DEF DeliveredBehind, ErrorsBehind, Counted, DeliveredInWireOrder
<1>4. EveryTlvAccounted'
  <2>1. ASSUME NEW s \in 0 .. Len(input'.sections) - 1 PROVE CutOf(s)' = 0
    <3>1. Cut' = 0
      BY DEF Cut
    <3> QED BY <1>0, <3>1, CutOfNext
  <2> QED BY <1>0, <2>1 DEF EveryTlvAccounted
<1> QED BY <1>1, <1>2, <1>3, <1>4 DEF WInv, WalksAccountForAll

(***************************************************************************)
(* The commands that begin with Enter.                                     *)
(***************************************************************************)
LEMMA BeginSteps ==
  ASSUME CmdInv,
         \/ WalkBegins \/ QueryRefused \/ EmitReadFails \/ EmitBegins
         \/ DiffReadFails \/ DiffBegins \/ DiffSecond
  PROVE  WInv'
<1>1. IsContainer(NoInput) /\ IsContainer(NoPair.a) /\ IsContainer(NoPair.b)
  BY NoInputEmpty DEF NoPair
<1>2. Enter
  BY DEF WalkBegins, QueryRefused, EmitReadFails, EmitBegins, DiffReadFails, DiffBegins,
         DiffSecond, AbsorbFails, Begin, WalkMemory
<1>3. /\ si' = 0 /\ ti' = 0 /\ record_in_sec' = 0 /\ record_index' = 0
      /\ delivered' = <<>> /\ errors' = <<>>
  BY <1>2 DEF Enter
<1>4. /\ IsContainer(input') /\ IsContainer(pair'.a) /\ IsContainer(pair'.b)
      /\ \/ pc' = "done"
         \/ pc' = "section" /\ cmd' # "emit" /\ input'.rc = "OK"
         \/ pc' = "emit_section" /\ cmd' = "emit" /\ input'.rc = "OK"
  <2>1. CASE WalkBegins
    BY <1>1, <2>1, WalkAssumption DEF WalkBegins, AbsorbFails, Begin, WalkMemory, Start
  <2>2. CASE QueryRefused \/ EmitReadFails \/ DiffReadFails
    BY <1>1, <2>2 DEF QueryRefused, EmitReadFails, DiffReadFails, AbsorbFails, Start, Returns
  <2>3. CASE EmitBegins
    <3>1. PICK e \in EmitInputs :
            /\ Start("emit", e[2], NoPair) /\ input' = e[1]
            /\ IF e[1].rc = "OK" THEN pc' = "emit_section" /\ ret' = "NONE" ELSE Returns(e[1].rc)
      BY <2>3 DEF EmitBegins
    <3>2. IsContainer(e[1])
      BY CommandAssumption
    <3> QED BY <1>1, <3>1, <3>2 DEF Start, Returns
  <2>4. CASE DiffBegins
    <3>1. PICK d \in DiffInputs : WalkMemory(d.a) /\ Start("diff_a", "none", d)
      BY <2>4 DEF DiffBegins
    <3>2. IsContainer(d.a) /\ IsContainer(d.b)
      BY CommandAssumption
    <3> QED BY <3>1, <3>2 DEF WalkMemory, Start
  <2>5. CASE DiffSecond
    BY <2>5 DEF DiffSecond, WalkMemory, CmdInv, WInv, WalkTypes
  <2> QED BY <2>1, <2>2, <2>3, <2>4, <2>5
<1> QED BY <1>3, <1>4, EnteredStep

(***************************************************************************)
(* The strict reader delivers nothing.                                     *)
(***************************************************************************)
LEMMA EmitSteps ==
  ASSUME CmdInv, EmitStep
  PROVE  WInv'
<1>1. /\ pc \in {"emit_section", "emit_stream"} /\ EmitFrame
      /\ record_in_sec' = record_in_sec
  BY DEF EmitStep, EmitSectionFails, EmitSectionOom, EmitSection, EmitRecord, EmitParseFails,
         EmitStreamEnds, EmitFinishes, EmitReturns, InSection
<1>2. cmd = "emit" /\ cmd' = "emit" /\ input' = input /\ pair' = pair
      /\ delivered' = <<>> /\ errors' = <<>>
  BY <1>1 DEF CmdInv, WInv, Position, EmitFrame
<1>3. /\ Len(input.sections) \in Nat /\ <<>> \in Seq(Delivery) /\ <<>> \in Seq(Complaint)
      /\ DOMAIN <<>> = {} /\ Len(<<>>) = 0
      /\ si \in Nat /\ ti \in Nat /\ record_in_sec \in Nat /\ record_index \in Nat
  BY SectionsOf DEF CmdInv, WInv, WalkTypes
<1>4. /\ si' \in Nat /\ ti' \in Nat /\ record_index' \in Nat
      /\ pc' \in {"emit_section", "emit_stream", "done"}
      /\ pc' # "done" => input.rc = "OK"
      /\ pc' = "emit_section" => si' <= Len(input.sections)
      /\ pc' = "emit_stream" => si' < Len(input.sections) /\ ti' <= Len(Section'.tlvs)
  <2>1. CASE EmitSectionFails \/ EmitSectionOom \/ EmitFinishes \/ EmitParseFails
    BY <1>3, <2>1 DEF EmitSectionFails, EmitSectionOom, EmitFinishes, EmitParseFails, EmitReturns,
                      Returns
  <2>2. CASE EmitSection
    <3>1. si < Len(input.sections) /\ Section' = Section /\ input.rc = "OK"
          /\ pc' = "emit_stream" /\ ti' = 0 /\ si' = si /\ record_index' = record_index
      BY <1>2, <2>2 DEF EmitSection, InSection, Section, CmdInv, WInv, Position
    <3>2. Section.tlvs \in Seq(Tlvs)
      <4>1. si \in 0 .. Len(input.sections) - 1
        BY <1>3, <3>1
      <4> QED BY <4>1, SectionsOf DEF Section, CmdInv, WInv, WalkTypes
    <3>3. Len(Section.tlvs) \in Nat
      BY <3>2
    <3> QED BY <1>3, <3>1, <3>3
  <2>3. CASE EmitRecord
    <3>1. /\ pc = "emit_stream" /\ pc' = pc /\ ti < Len(Section.tlvs) /\ Section' = Section
          /\ ti' = ti + 1 /\ si' = si /\ record_index' = record_index + 1
          /\ si < Len(input.sections) /\ input.rc = "OK"
      BY <1>2, <2>3 DEF EmitRecord, Section, CmdInv, WInv, Position
    <3>2. Len(Section.tlvs) \in Nat
      BY <3>1, NextTlv DEF CmdInv
    <3> QED BY <1>3, <3>1, <3>2
  <2>4. CASE EmitStreamEnds
    BY <1>3, <2>4 DEF EmitStreamEnds, EmitReturns, Returns, CmdInv, WInv, Position
  <2> QED BY <2>1, <2>2, <2>3, <2>4 DEF EmitStep
<1>5. WalkTypes'
  BY <1>1, <1>2, <1>3, <1>4 DEF WalkTypes, CmdInv, WInv
<1>6. Position'
  BY <1>2, <1>4 DEF Position
<1>7. /\ DeliveredBehind' /\ ErrorsBehind' /\ Counted' /\ DeliveredInWireOrder'
      /\ WalksAccountForAll'
  BY <1>2, <1>3, <1>4 DEF DeliveredBehind, ErrorsBehind, Counted, DeliveredInWireOrder,
                     WalksAccountForAll
<1> QED BY <1>5, <1>6, <1>7 DEF WInv

(***************************************************************************)
(* A command that only compares or returns leaves the walk alone.          *)
(***************************************************************************)
LEMMA RestSteps ==
  ASSUME CmdInv, DiffStops \/ DiffCompares \/ UNCHANGED allVars
  PROVE  WInv'
<1>1. /\ UNCHANGED vars /\ pair' = pair
      /\ cmd' = cmd \/ (cmd \in {"diff_a", "diff_b"} /\ cmd' = "diff")
  BY DEF DiffStops, DiffCompares, allVars, cmdVars
<1>2. WalkTypes' /\ Position'
  BY <1>1 DEF CmdInv, WInv, WalkTypes, Position, vars, walkVars, Section, Undecodable
<1>3. DeliveredBehind' /\ ErrorsBehind' /\ Counted' /\ DeliveredInWireOrder'
  BY <1>1 DEF CmdInv, WInv, vars, walkVars, DeliveredBehind, ErrorsBehind, Counted,
              DeliveredInWireOrder, Behind, Before, Cut, Undecodable
<1>4. EveryTlvAccounted' <=> EveryTlvAccounted
  BY <1>1 DEF EveryTlvAccounted, vars, walkVars, CutOf, Undecodable
<1> QED BY <1>1, <1>2, <1>3, <1>4 DEF CmdInv, WInv, WalksAccountForAll

(***************************************************************************)
(* What holds before every step of a walk.                                 *)
(***************************************************************************)
LEMMA Walking ==
  ASSUME CmdInv, pc \in {"section", "stream"}
  PROVE  /\ cmd # "emit" /\ EveryTlvAccounted
         /\ si \in Nat /\ ti \in Nat /\ record_in_sec \in Nat /\ record_index \in Nat
         /\ Len(input.sections) \in Nat /\ input.rc = "OK"
         /\ delivered \in Seq(Delivery) /\ errors \in Seq(Complaint)
         /\ Len(delivered) = record_index
         /\ pc = "section" => Cut = 0 /\ si <= Len(input.sections)
         /\ pc = "stream" => /\ Cut = ti /\ record_in_sec = ti /\ si < Len(input.sections)
                             /\ ti <= Len(Section.tlvs) /\ ~Undecodable(si)
                             /\ Len(Section.tlvs) \in Nat
<1>1. /\ cmd # "emit" /\ EveryTlvAccounted /\ input.rc = "OK"
  BY DEF CmdInv, WInv, Position, WalksAccountForAll
<1>2. /\ si \in Nat /\ ti \in Nat /\ record_in_sec \in Nat /\ record_index \in Nat
      /\ Len(input.sections) \in Nat
      /\ delivered \in Seq(Delivery) /\ errors \in Seq(Complaint)
      /\ Len(delivered) = record_index
  BY SectionsOf DEF CmdInv, WInv, WalkTypes, Counted
<1>3. pc = "section" => Cut = 0 /\ si <= Len(input.sections)
  BY DEF CmdInv, WInv, Position, Cut
<1>4. pc = "stream" => /\ Cut = ti /\ record_in_sec = ti /\ si < Len(input.sections)
                       /\ ti <= Len(Section.tlvs) /\ ~Undecodable(si)
  BY DEF CmdInv, WInv, Position, Cut, Undecodable, Section
<1>5. pc = "stream" => Len(Section.tlvs) \in Nat
  BY NextTlv DEF CmdInv
<1> QED BY <1>1, <1>2, <1>3, <1>4, <1>5

(***************************************************************************)
(* The reader moves on without handing out or reporting anything: it stays *)
(* at its place, or leaves a section it has cut to the end.                *)
(***************************************************************************)
LEMMA MovesOn ==
  ASSUME CmdInv, pc \in {"section", "stream"}, cmd' = cmd,
         input' = input, delivered' = delivered, errors' = errors,
         \/ si' = si /\ Cut' = Cut
         \/ si' = si + 1 /\ Cut' = 0 /\ pc = "stream" /\ ti = Len(Section.tlvs)
  PROVE  /\ DeliveredBehind' /\ ErrorsBehind' /\ DeliveredInWireOrder' /\ WalksAccountForAll'
<1>1. si \in Nat /\ Len(input.sections) \in Nat /\ EveryTlvAccounted /\ si' \in Nat
      /\ delivered \in Seq(Delivery) /\ errors \in Seq(Complaint) /\ ti \in Nat
  BY Walking
<1>2. ASSUME NEW s \in Nat, NEW r \in Nat, Behind(s, r) PROVE Behind(s, r)'
  <2>1. CASE si' = si /\ Cut' = Cut
    BY <1>2, <2>1 DEF Behind, Before
  <2>2. CASE si' = si + 1
    BY <1>1, <1>2, <2>2 DEF Behind, Before
  <2> QED BY <2>1, <2>2
<1>3. \A s : Undecodable(s)' <=> Undecodable(s)
  BY DEF Undecodable
<1>4. DeliveredBehind'
  <2>1. \A i \in DOMAIN delivered : delivered[i].section_index \in Nat
                                    /\ delivered[i].record_in_sec \in Nat
    <3>1. \A i \in DOMAIN delivered : delivered[i] \in Delivery
      BY <1>1
    <3> QED BY <3>1 DEF Delivery
  <2> QED BY <1>2, <1>3, <2>1 DEF DeliveredBehind, CmdInv, WInv
<1>5. ErrorsBehind'
  <2>1. \A i \in DOMAIN errors : errors[i].section_index \in Nat
                                 /\ errors[i].record_in_sec \in Nat
    <3>1. \A i \in DOMAIN errors : errors[i] \in Complaint
      BY <1>1
    <3> QED BY <3>1 DEF Complaint
  <2>2. \A s \in Nat : s < si => s < si'
    BY <1>1
  <2> QED BY <1>2, <1>3, <2>1, <2>2 DEF ErrorsBehind, Behind, CmdInv, WInv
<1>6. DeliveredInWireOrder'
  BY DEF DeliveredInWireOrder, CmdInv, WInv
<1>7. EveryTlvAccounted'
  <2> SUFFICES ASSUME NEW s \in 0 .. Len(input.sections) - 1
               PROVE  IF Undecodable(s) THEN s < si' <=> FatalAt(errors, s)
                      ELSE \A r \in 0 .. CutOf(s)' - 1 : AccountedAt(delivered, errors, s, r)
    BY <1>3, AccountedNext
  <2>1. IF Undecodable(s) THEN s < si <=> FatalAt(errors, s)
        ELSE \A r \in 0 .. CutOf(s) - 1 : AccountedAt(delivered, errors, s, r)
    BY <1>1, AccountedParts
  <2>2. CASE si' = si /\ Cut' = Cut
    <3>1. CutOf(s)' = CutOf(s)
      BY <1>1, <2>2, CutOfNow, CutOfNext
    <3> QED BY <2>1, <2>2, <3>1
  <2>3. CASE si' = si + 1 /\ Cut' = 0 /\ pc = "stream" /\ ti = Len(Section.tlvs)
    <3>1. Cut = ti /\ ~Undecodable(si)
      BY <2>3, Walking
    <3>2. CASE Undecodable(s)
      <4>1. s # si /\ (s < si' <=> s < si)
        BY <1>1, <2>3, <3>1, <3>2
      <4> QED BY <2>1, <3>2, <4>1
    <3>3. CASE ~Undecodable(s)
      <4>1. CutOf(s)' = CutOf(s)
        BY <1>1, <2>3, <3>1, CutOfNow, CutOfNext DEF Section
      <4> QED BY <2>1, <3>3, <4>1
    <3> QED BY <3>2, <3>3
  <2> QED BY <2>2, <2>3
<1> QED BY <1>4, <1>5, <1>6, <1>7 DEF WalksAccountForAll

(***************************************************************************)
(* The steps that move on: the decode buffer cannot be had, a section is   *)
(* opened, a stream ends, the last section was read.                       *)
(***************************************************************************)
LEMMA MovingSteps ==
  ASSUME CmdInv, SectionOom \/ OpenSection \/ StreamEnds \/ Finish, UNCHANGED cmdVars
  PROVE  WInv'
<1>1. /\ pc \in {"section", "stream"} /\ cmd' = cmd /\ pair' = pair /\ input' = input
      /\ delivered' = delivered /\ errors' = errors /\ record_index' = record_index
  BY DEF SectionOom, OpenSection, StreamEnds, Finish, cmdVars
<1>2. /\ cmd # "emit" /\ si \in Nat /\ ti \in Nat /\ record_in_sec \in Nat
      /\ Len(input.sections) \in Nat /\ input.rc = "OK"
      /\ pc = "section" => Cut = 0 /\ si <= Len(input.sections)
      /\ pc = "stream" => Cut = ti /\ si < Len(input.sections)
      /\ Len(delivered) = record_index
  BY <1>1, Walking
<1>3. \/ si' = si /\ Cut' = Cut
      \/ si' = si + 1 /\ Cut' = 0 /\ pc = "stream" /\ ti = Len(Section.tlvs)
  BY <1>2 DEF SectionOom, OpenSection, StreamEnds, Finish, Cut
<1>4. DeliveredBehind' /\ ErrorsBehind' /\ DeliveredInWireOrder' /\ WalksAccountForAll'
  BY <1>1, <1>3, MovesOn
<1>5. WalkTypes' /\ Counted'
  BY <1>1, <1>2 DEF SectionOom, OpenSection, StreamEnds, Finish, CmdInv, WInv, WalkTypes, Counted
<1>6. Position'
  <2>1. CASE SectionOom \/ Finish
    BY <1>1, <1>2, <2>1 DEF SectionOom, Finish, Position
  <2>2. CASE OpenSection
    <3>1. si \in 0 .. Len(input.sections) - 1 /\ Section' = Section
      BY <1>1, <1>2, <2>2 DEF OpenSection, Section
    <3>2. Section.tlvs \in Seq(Tlvs)
      BY <3>1, SectionsOf DEF Section, CmdInv, WInv, WalkTypes
    <3>3. 0 <= Len(Section.tlvs)
      BY <3>2
    <3> QED BY <1>1, <1>2, <2>2, <3>1, <3>3 DEF OpenSection, Position
  <2>3. CASE StreamEnds
    BY <1>1, <1>2, <2>3 DEF StreamEnds, Position
  <2> QED BY <2>1, <2>2, <2>3
<1> QED BY <1>4, <1>5, <1>6 DEF WInv

(***************************************************************************)
(* Nothing was handed out or reported at the place of the reader.          *)
(***************************************************************************)
LEMMA NothingAhead ==
  ASSUME CmdInv, pc \in {"section", "stream"}
  PROVE  /\ pc = "stream" => Handed(delivered, si, ti) = {} /\ Missed(errors, si, ti) = {}
         /\ Lost(errors, si) = {}
<1>1. /\ si \in Nat /\ ti \in Nat /\ (pc = "stream" => Cut = ti)
      /\ delivered \in Seq(Delivery) /\ errors \in Seq(Complaint)
  BY Walking
<1>2. pc = "stream" => ~Behind(si, ti)
  BY <1>1 DEF Behind, Before
<1>3. pc = "stream" => Handed(delivered, si, ti) = {}
  BY <1>2 DEF Handed, CmdInv, WInv, DeliveredBehind
<1>4. pc = "stream" => Missed(errors, si, ti) = {}
  BY <1>2 DEF Missed, MissAt, CmdInv, WInv, ErrorsBehind
<1>5. Lost(errors, si) = {}
  BY <1>1 DEF Lost, CmdInv, WInv, ErrorsBehind
<1> QED BY <1>3, <1>4, <1>5

(***************************************************************************)
(* What on_record is given.                                                *)
(***************************************************************************)
Handover == [section_index |-> si, record_in_sec |-> record_in_sec,
             record_index |-> record_index, tlv |-> Section.tlvs[ti + 1], refs |-> out'.refs]

(***************************************************************************)
(* A record is handed to on_record.                                        *)
(***************************************************************************)
LEMMA HandsOut ==
  ASSUME CmdInv, IInv', pc = "stream", ti < Len(Section.tlvs), cmd' = cmd,
         input' = input, si' = si, Cut' = ti + 1, errors' = errors,
         delivered' = Append(delivered, Handover)
  PROVE  /\ delivered' \in Seq(Delivery) /\ Len(delivered') = record_index + 1
         /\ DeliveredBehind' /\ ErrorsBehind' /\ DeliveredInWireOrder' /\ WalksAccountForAll'
<1> DEFINE d == Handover
           n == Len(delivered)
<1>1. /\ si \in Nat /\ ti \in Nat /\ record_in_sec = ti /\ record_index \in Nat /\ Cut = ti
      /\ Len(input.sections) \in Nat /\ si < Len(input.sections) /\ EveryTlvAccounted
      /\ delivered \in Seq(Delivery) /\ errors \in Seq(Complaint) /\ n = record_index
      /\ ~Undecodable(si) /\ Len(Section.tlvs) \in Nat
  BY Walking
<1>2. /\ d.section_index = si /\ d.record_in_sec = ti /\ d.record_index = record_index
      /\ d.tlv = Section.tlvs[ti + 1]
  BY <1>1 DEF Handover
<1>3. d \in Delivery
  <2>1. out'.refs \in SUBSET Handle
    BY DEF IInv, CurrentRecordLive, PoolTypes
  <2>2. Section.tlvs[ti + 1] \in Tlvs
    BY NextTlv DEF CmdInv
  <2> QED BY <1>1, <2>1, <2>2 DEF Handover, Delivery
<1> HIDE DEF d
<1>4. /\ delivered' \in Seq(Delivery) /\ Len(delivered') = n + 1
      /\ (\A i \in 1 .. n : delivered'[i] = delivered[i]) /\ delivered'[n + 1] = d
  BY <1>1, <1>3, AppendProperties DEF d
<1>5. DOMAIN delivered = 1 .. n /\ DOMAIN delivered' = 1 .. n + 1 /\ n \in Nat
      /\ \A i \in 1 .. n + 1 : i \in 1 .. n \/ i = n + 1
  BY <1>1, <1>4
<1>6. \A i \in 1 .. n : delivered[i].section_index \in Nat /\ delivered[i].record_in_sec \in Nat
  <2>1. \A i \in 1 .. n : delivered[i] \in Delivery
    BY <1>1
  <2> QED BY <2>1 DEF Delivery
<1> HIDE DEF n
<1>7. \A s \in Nat, r \in Nat : Behind(s, r) => Before(s, r, si', Cut')
  BY <1>1 DEF Behind, Before
<1>8. Before(si, ti, si', Cut')
  BY <1>1 DEF Before
<1>9. \A s : Undecodable(s)' <=> Undecodable(s)
  BY DEF Undecodable
<1>10. DeliveredBehind'
  <2> SUFFICES ASSUME NEW i \in 1 .. n + 1
               PROVE  /\ delivered'[i].section_index < Len(input.sections)
                      /\ ~Undecodable(delivered'[i].section_index)
                      /\ Before(delivered'[i].section_index, delivered'[i].record_in_sec,
                                si', Cut')
    BY <1>5, <1>9 DEF DeliveredBehind, Behind
  <2>1. CASE i \in 1 .. n
    BY <1>4, <1>5, <1>6, <1>7, <2>1 DEF DeliveredBehind, CmdInv, WInv
  <2>2. CASE i = n + 1
    BY <1>1, <1>2, <1>4, <1>8, <2>2
  <2> QED BY <1>5, <2>1, <2>2
<1>11. ErrorsBehind'
  <2>1. \A i \in DOMAIN errors : errors[i].section_index \in Nat
                                 /\ errors[i].record_in_sec \in Nat
    <3>1. \A i \in DOMAIN errors : errors[i] \in Complaint
      BY <1>1
    <3> QED BY <3>1 DEF Complaint
  <2> QED BY <1>7, <1>9, <2>1 DEF ErrorsBehind, Behind, CmdInv, WInv
<1>12. DeliveredInWireOrder'
  <2> SUFFICES ASSUME NEW i \in 1 .. n + 1
               PROVE  LET e == delivered'[i] IN
                        /\ e.record_index = i - 1
                        /\ e.record_in_sec < Len(input.sections[e.section_index + 1].tlvs)
                        /\ e.tlv = input.sections[e.section_index + 1].tlvs[e.record_in_sec + 1]
                        /\ \A j \in 1 .. i - 1 :
                             \/ delivered'[j].section_index < e.section_index
                             \/ /\ delivered'[j].section_index = e.section_index
                                /\ delivered'[j].record_in_sec < e.record_in_sec
    BY <1>5 DEF DeliveredInWireOrder
  <2>1. CASE i \in 1 .. n
    <3>1. \A j \in 1 .. i - 1 : j \in 1 .. n
      BY <1>5, <2>1
    <3> QED BY <1>4, <1>5, <2>1, <3>1 DEF DeliveredInWireOrder, CmdInv, WInv
  <2>2. CASE i = n + 1
    <3>1. \A j \in 1 .. n : Behind(delivered[j].section_index, delivered[j].record_in_sec)
      BY <1>5 DEF DeliveredBehind, CmdInv, WInv
    <3>2. \A j \in 1 .. n : \/ delivered[j].section_index < si
                            \/ delivered[j].section_index = si /\ delivered[j].record_in_sec < ti
      BY <1>1, <3>1 DEF Behind, Before
    <3>3. i - 1 = n /\ d.record_index = n
      BY <1>1, <1>2, <1>5, <2>2
    <3>4. /\ d.record_in_sec < Len(input.sections[d.section_index + 1].tlvs)
          /\ d.tlv = input.sections[d.section_index + 1].tlvs[d.record_in_sec + 1]
      BY <1>2 DEF Section
    <3> QED BY <1>2, <1>4, <2>2, <3>2, <3>3, <3>4
  <2> QED BY <1>5, <2>1, <2>2
<1>13. EveryTlvAccounted'
  <2> SUFFICES ASSUME NEW s \in 0 .. Len(input.sections) - 1
               PROVE  IF Undecodable(s) THEN s < si <=> FatalAt(errors, s)
                      ELSE \A r \in 0 .. CutOf(s)' - 1 :
                             AccountedAt(Append(delivered, d), errors, s, r)
    BY <1>9, AccountedNext DEF d
  <2>1. IF Undecodable(s) THEN s < si <=> FatalAt(errors, s)
        ELSE \A r \in 0 .. CutOf(s) - 1 : AccountedAt(delivered, errors, s, r)
    BY <1>1, AccountedParts
  <2>2. CASE Undecodable(s)
    BY <2>1, <2>2
  <2>3. CASE ~Undecodable(s)
    <3> SUFFICES ASSUME NEW r \in 0 .. CutOf(s)' - 1
                 PROVE  AccountedAt(Append(delivered, d), errors, s, r)
      BY <2>3
    <3>1. CASE s = si /\ r = ti
      <4>1. Handed(delivered, s, r) = {} /\ Missed(errors, s, r) = {}
        BY <3>1, NothingAhead
      <4> QED BY <1>1, <1>2, <1>3, <3>1, <4>1, DeliveryAccounts
    <3>2. CASE ~(s = si /\ r = ti)
      <4>1. CutOf(s) = (IF s < si THEN Len(input.sections[s + 1].tlvs)
                        ELSE IF s = si THEN ti ELSE 0)
            /\ CutOf(s)' = (IF s < si THEN Len(input.sections[s + 1].tlvs)
                            ELSE IF s = si THEN ti + 1 ELSE 0)
        BY <1>1, CutOfNow, CutOfNext
      <4>2. CASE s < si
        BY <1>1, <1>2, <1>3, <2>1, <2>3, <3>2, <4>1, <4>2, DeliveryAccounts
      <4>3. CASE s = si
        <5>1. r \in 0 .. CutOf(s) - 1
          BY <1>1, <3>2, <4>1, <4>3
        <5> QED BY <1>1, <1>2, <1>3, <2>1, <2>3, <3>2, <5>1, DeliveryAccounts
      <4>4. CASE s > si
        <5>1. CutOf(s)' = 0
          BY <1>1, <4>1, <4>4
        <5> QED BY <5>1
      <4> QED BY <1>1, <4>2, <4>3, <4>4
    <3> QED BY <3>1, <3>2
  <2> QED BY <2>2, <2>3
<1> QED BY <1>1, <1>4, <1>10, <1>11, <1>12, <1>13 DEF WalksAccountForAll, n

(***************************************************************************)
(* on_record returns DTL_OK, or refuses the record.                        *)
(***************************************************************************)
LEMMA DeliverStep ==
  ASSUME CmdInv, IInv', Deliver \/ DeliverAborts, UNCHANGED cmdVars
  PROVE  WInv'
<1>1. /\ pc = "stream" /\ ti < Len(Section.tlvs) /\ cmd' = cmd /\ pair' = pair
      /\ input' = input /\ si' = si /\ ti' = ti + 1 /\ errors' = errors
      /\ delivered' = Append(delivered, Handover)
      /\ \/ pc' = "stream" /\ record_in_sec' = record_in_sec + 1
            /\ record_index' = record_index + 1
         \/ pc' = "done" /\ ret' = "CALLBACK" /\ record_in_sec' = record_in_sec
            /\ record_index' = record_index
  BY DEF Deliver, DeliverAborts, Handover, cmdVars
<1>2. /\ si \in Nat /\ ti \in Nat /\ record_in_sec = ti /\ record_index \in Nat
      /\ Len(input.sections) \in Nat /\ si < Len(input.sections) /\ cmd # "emit"
      /\ ~Undecodable(si) /\ Len(Section.tlvs) \in Nat /\ input.rc = "OK"
  BY <1>1, Walking
<1>3. Cut' = ti + 1
  BY <1>1, <1>2 DEF Cut
<1>4. /\ delivered' \in Seq(Delivery) /\ Len(delivered') = record_index + 1
      /\ DeliveredBehind' /\ ErrorsBehind' /\ DeliveredInWireOrder' /\ WalksAccountForAll'
  BY <1>1, <1>3, HandsOut
<1>5. WalkTypes' /\ Counted'
  BY <1>1, <1>2, <1>4 DEF WalkTypes, Counted, CmdInv, WInv
<1>6. Position'
  <2>1. Section' = Section /\ Section.fate = "ok"
    BY <1>1, <1>2 DEF Section, Undecodable
  <2>2. Undecodable(si)' <=> Undecodable(si)
    BY <1>1 DEF Undecodable
  <2> QED BY <1>1, <1>2, <2>1, <2>2 DEF Position
<1> QED BY <1>4, <1>5, <1>6 DEF WInv

(***************************************************************************)
(* What on_error is given, and what a report does to the sequence.         *)
(***************************************************************************)
LEMMA Reports ==
  ASSUME CmdInv, pc \in {"section", "stream"}, NEW rc \in Codes, NEW fatal \in BOOLEAN,
         Report(rc, fatal)
  PROVE  \E e \in Complaint :
           /\ errors' = Append(errors, e) /\ errors' \in Seq(Complaint)
           /\ Len(errors') = Len(errors) + 1
           /\ (\A i \in 1 .. Len(errors) : errors'[i] = errors[i])
           /\ errors'[Len(errors) + 1] = e
           /\ e.section_index = si /\ (e.fatal <=> fatal)
           /\ e.record_in_sec = IF fatal THEN 0 ELSE record_in_sec
<1> DEFINE e == [section_index |-> si, rc |-> rc, fatal |-> fatal,
                 record_in_sec |-> IF fatal THEN 0 ELSE record_in_sec]
<1>1. si \in Nat /\ record_in_sec \in Nat /\ errors \in Seq(Complaint)
  BY Walking
<1>2. e \in Complaint
  BY <1>1 DEF Complaint
<1>3. errors' = Append(errors, e)
  BY DEF Report
<1>4. /\ e.section_index = si /\ (e.fatal <=> fatal)
      /\ e.record_in_sec = IF fatal THEN 0 ELSE record_in_sec
  OBVIOUS
<1> HIDE DEF e
<1>5. /\ errors' \in Seq(Complaint) /\ Len(errors') = Len(errors) + 1
      /\ (\A i \in 1 .. Len(errors) : errors'[i] = errors[i])
      /\ errors'[Len(errors) + 1] = e
  BY <1>1, <1>2, <1>3, AppendProperties
<1> QED BY <1>2, <1>3, <1>4, <1>5

(***************************************************************************)
(* dtl_record_parse refuses a TLV.                                         *)
(***************************************************************************)
LEMMA ParseFailsStep ==
  ASSUME CmdInv, ParseFails, UNCHANGED cmdVars
  PROVE  WInv'
<1>1. /\ pc = "stream" /\ ti < Len(Section.tlvs) /\ cmd' = cmd /\ pair' = pair /\ pc' = pc
      /\ input' = input /\ si' = si /\ ti' = ti + 1 /\ delivered' = delivered
      /\ record_in_sec' = record_in_sec + 1 /\ record_index' = record_index
      /\ Report(out'.rc, FALSE) /\ RecordParse(Section.tlvs[ti + 1])
  BY DEF ParseFails, cmdVars
<1>2. /\ si \in Nat /\ ti \in Nat /\ record_in_sec = ti /\ record_index \in Nat /\ Cut = ti
      /\ Len(input.sections) \in Nat /\ si < Len(input.sections) /\ cmd # "emit"
      /\ ~Undecodable(si) /\ Len(Section.tlvs) \in Nat /\ input.rc = "OK"
      /\ delivered \in Seq(Delivery) /\ errors \in Seq(Complaint) /\ EveryTlvAccounted
      /\ Len(delivered) = record_index
  BY <1>1, Walking
<1> DEFINE n == Len(errors)
<1>3. PICK e \in Complaint :
        /\ errors' = Append(errors, e) /\ errors' \in Seq(Complaint) /\ Len(errors') = n + 1
        /\ (\A i \in 1 .. n : errors'[i] = errors[i]) /\ errors'[n + 1] = e
        /\ e.section_index = si /\ e.fatal = FALSE /\ e.record_in_sec = ti
  <2>1. out'.rc \in Codes /\ FALSE \in BOOLEAN
    BY <1>1, ParseCode
  <2>2. \A rc \in Codes, fatal \in BOOLEAN : Report(rc, fatal) =>
          \E e \in Complaint :
             /\ errors' = Append(errors, e) /\ errors' \in Seq(Complaint)
             /\ Len(errors') = Len(errors) + 1
             /\ (\A i \in 1 .. Len(errors) : errors'[i] = errors[i])
             /\ errors'[Len(errors) + 1] = e
             /\ e.section_index = si /\ (e.fatal <=> fatal)
             /\ e.record_in_sec = IF fatal THEN 0 ELSE record_in_sec
    BY <1>1, Reports
  <2>3. PICK e \in Complaint :
             /\ errors' = Append(errors, e) /\ errors' \in Seq(Complaint)
             /\ Len(errors') = Len(errors) + 1
             /\ (\A i \in 1 .. Len(errors) : errors'[i] = errors[i])
             /\ errors'[Len(errors) + 1] = e
             /\ e.section_index = si /\ ~e.fatal /\ e.record_in_sec = record_in_sec
    BY <1>1, <2>1, <2>2
  <2>4. e.fatal = FALSE
    BY <2>3 DEF Complaint
  <2> QED BY <1>2, <2>3, <2>4
<1>4. DOMAIN errors = 1 .. n /\ DOMAIN errors' = 1 .. n + 1 /\ n \in Nat
      /\ \A i \in 1 .. n + 1 : i \in 1 .. n \/ i = n + 1
  BY <1>2, <1>3
<1> HIDE DEF n
<1>5. Cut' = ti + 1 /\ \A s : Undecodable(s)' <=> Undecodable(s)
  BY <1>1, <1>2 DEF Cut, Undecodable
<1>6. \A s \in Nat, r \in Nat : Behind(s, r) => Before(s, r, si', Cut')
  BY <1>1, <1>2, <1>5 DEF Behind, Before
<1>7. WalkTypes' /\ Counted'
  BY <1>1, <1>2, <1>3 DEF WalkTypes, Counted, CmdInv, WInv
<1>8. Position'
  <2>1. Section' = Section /\ Section.fate = "ok"
    BY <1>1, <1>2 DEF Section, Undecodable
  <2> QED BY <1>1, <1>2, <2>1 DEF Position
<1>9. DeliveredBehind'
  <2>1. \A i \in DOMAIN delivered : delivered[i].section_index \in Nat
                                    /\ delivered[i].record_in_sec \in Nat
    <3>1. \A i \in DOMAIN delivered : delivered[i] \in Delivery
      BY <1>2
    <3> QED BY <3>1 DEF Delivery
  <2> QED BY <1>1, <1>5, <1>6, <2>1 DEF DeliveredBehind, Behind, CmdInv, WInv
<1>10. ErrorsBehind'
  <2> DEFINE good(x) == /\ x.section_index < Len(input.sections)
                        /\ x.fatal <=> Undecodable(x.section_index)
                        /\ x.fatal => x.section_index < si /\ x.record_in_sec = 0
                        /\ ~x.fatal => Before(x.section_index, x.record_in_sec, si', Cut')
  <2>1. SUFFICES ASSUME NEW i \in 1 .. n + 1 PROVE good(errors'[i])
    BY <1>1, <1>4, <1>5 DEF ErrorsBehind, Behind
  <2>2. CASE i \in 1 .. n
    <3>1. errors[i] \in Complaint /\ errors'[i] = errors[i] /\ i \in DOMAIN errors
      BY <1>2, <1>3, <1>4, <2>2
    <3>2. errors[i].section_index \in Nat /\ errors[i].record_in_sec \in Nat
      BY <3>1 DEF Complaint
    <3> QED BY <1>6, <3>1, <3>2 DEF ErrorsBehind, CmdInv, WInv
  <2>3. CASE i = n + 1
    <3>1. Before(si, ti, si', Cut')
      BY <1>1, <1>2, <1>5 DEF Before
    <3> QED BY <1>2, <1>3, <2>3, <3>1
  <2> QED BY <1>4, <2>2, <2>3
<1>11. DeliveredInWireOrder'
  BY <1>1 DEF DeliveredInWireOrder, CmdInv, WInv
<1>12. EveryTlvAccounted'
  <2> SUFFICES ASSUME NEW s \in 0 .. Len(input.sections) - 1
               PROVE  IF Undecodable(s) THEN s < si <=> FatalAt(Append(errors, e), s)
                      ELSE \A r \in 0 .. CutOf(s)' - 1 :
                             AccountedAt(delivered, Append(errors, e), s, r)
    BY <1>1, <1>3, <1>5, AccountedNext
  <2>1. IF Undecodable(s) THEN s < si <=> FatalAt(errors, s)
        ELSE \A r \in 0 .. CutOf(s) - 1 : AccountedAt(delivered, errors, s, r)
    BY <1>2, AccountedParts
  <2>2. CASE Undecodable(s)
    <3>1. FatalAt(errors, s) <=> FatalAt(Append(errors, e), s)
      BY <1>2, <1>3, FatalAccounts
    <3> QED BY <2>1, <2>2, <3>1
  <2>3. CASE ~Undecodable(s)
    <3> SUFFICES ASSUME NEW r \in 0 .. CutOf(s)' - 1
                 PROVE  AccountedAt(delivered, Append(errors, e), s, r)
      BY <2>3
    <3>1. CASE s = si /\ r = ti
      <4>1. Handed(delivered, s, r) = {} /\ Missed(errors, s, r) = {} /\ MissAt(e, s, r)
        BY <1>1, <1>3, <3>1, NothingAhead DEF MissAt
      <4> QED BY <1>2, <1>3, <4>1, ReportAccounts
    <3>2. CASE ~(s = si /\ r = ti)
      <4>1. CutOf(s) = (IF s < si THEN Len(input.sections[s + 1].tlvs)
                        ELSE IF s = si THEN ti ELSE 0)
            /\ CutOf(s)' = (IF s < si THEN Len(input.sections[s + 1].tlvs)
                            ELSE IF s = si THEN ti + 1 ELSE 0)
        BY <1>1, <1>2, <1>5, CutOfNow, CutOfNext
      <4>2. ~MissAt(e, s, r)
        BY <1>3, <3>2 DEF MissAt
      <4>3. CASE s < si
        BY <1>2, <1>3, <2>1, <2>3, <4>1, <4>2, <4>3, ReportAccounts
      <4>4. CASE s = si
        <5>1. r \in 0 .. CutOf(s) - 1
          BY <1>2, <3>2, <4>1, <4>4
        <5> QED BY <1>2, <1>3, <2>1, <2>3, <4>2, <5>1, ReportAccounts
      <4>5. CASE s > si
        <5>1. CutOf(s)' = 0
          BY <1>2, <4>1, <4>5
        <5> QED BY <5>1
      <4> QED BY <1>2, <4>3, <4>4, <4>5
    <3> QED BY <3>1, <3>2
  <2> QED BY <2>2, <2>3
<1> QED BY <1>7, <1>8, <1>9, <1>10, <1>11, <1>12 DEF WInv, WalksAccountForAll

(***************************************************************************)
(* A section that cannot be decoded is reported and passed over.           *)
(***************************************************************************)
LEMMA SkipStep ==
  ASSUME CmdInv, SkipSection, UNCHANGED cmdVars
  PROVE  WInv'
<1>1. /\ pc = "section" /\ cmd' = cmd /\ pair' = pair /\ pc' = pc /\ si < Len(input.sections)
      /\ input' = input /\ si' = si + 1 /\ ti' = ti /\ delivered' = delivered
      /\ record_in_sec' = record_in_sec /\ record_index' = record_index
      /\ Undecodable(si) /\ \E rc \in FateErrs(Section.fate) : Report(rc, TRUE)
  BY DEF SkipSection, cmdVars, Undecodable, Section
<1>2. /\ si \in Nat /\ ti \in Nat /\ record_in_sec \in Nat /\ record_index \in Nat /\ Cut = 0
      /\ Len(input.sections) \in Nat /\ cmd # "emit" /\ input.rc = "OK"
      /\ delivered \in Seq(Delivery) /\ errors \in Seq(Complaint) /\ EveryTlvAccounted
      /\ Len(delivered) = record_index
  BY <1>1, Walking
<1> DEFINE n == Len(errors)
<1>3. PICK e \in Complaint :
        /\ errors' = Append(errors, e) /\ errors' \in Seq(Complaint) /\ Len(errors') = n + 1
        /\ (\A i \in 1 .. n : errors'[i] = errors[i]) /\ errors'[n + 1] = e
        /\ e.section_index = si /\ e.fatal = TRUE /\ e.record_in_sec = 0
  <2>1. \E rc \in Codes : Report(rc, TRUE)
    BY <1>1 DEF FateErrs, Codes
  <2> QED BY <1>1, <2>1, Reports
<1>4. DOMAIN errors = 1 .. n /\ DOMAIN errors' = 1 .. n + 1 /\ n \in Nat
      /\ \A i \in 1 .. n + 1 : i \in 1 .. n \/ i = n + 1
  BY <1>2, <1>3
<1> HIDE DEF n
<1>5. Cut' = 0 /\ \A s : Undecodable(s)' <=> Undecodable(s)
  BY <1>1, <1>2 DEF Cut, Undecodable
<1>6. \A s \in Nat, r \in Nat : Behind(s, r) => Before(s, r, si', Cut')
  BY <1>1, <1>2, <1>5 DEF Behind, Before
<1>7. WalkTypes' /\ Counted' /\ Position'
  BY <1>1, <1>2, <1>3 DEF WalkTypes, Counted, Position, CmdInv, WInv
<1>9. DeliveredBehind'
  <2>1. \A i \in DOMAIN delivered : delivered[i].section_index \in Nat
                                    /\ delivered[i].record_in_sec \in Nat
    <3>1. \A i \in DOMAIN delivered : delivered[i] \in Delivery
      BY <1>2
    <3> QED BY <3>1 DEF Delivery
  <2> QED BY <1>1, <1>5, <1>6, <2>1 DEF DeliveredBehind, Behind, CmdInv, WInv
<1>10. ErrorsBehind'
  <2> DEFINE good(x) == /\ x.section_index < Len(input.sections)
                        /\ x.fatal <=> Undecodable(x.section_index)
                        /\ x.fatal => x.section_index < si' /\ x.record_in_sec = 0
                        /\ ~x.fatal => Before(x.section_index, x.record_in_sec, si', Cut')
  <2>1. SUFFICES ASSUME NEW i \in 1 .. n + 1 PROVE good(errors'[i])
    BY <1>1, <1>4, <1>5 DEF ErrorsBehind, Behind
  <2>2. CASE i \in 1 .. n
    <3>1. errors[i] \in Complaint /\ errors'[i] = errors[i] /\ i \in DOMAIN errors
      BY <1>2, <1>3, <1>4, <2>2
    <3>2. errors[i].section_index \in Nat /\ errors[i].record_in_sec \in Nat
      BY <3>1 DEF Complaint
    <3>3. errors[i].section_index < si => errors[i].section_index < si'
      BY <1>1, <1>2, <3>2
    <3> QED BY <1>6, <3>1, <3>2, <3>3 DEF ErrorsBehind, CmdInv, WInv
  <2>3. CASE i = n + 1
    BY <1>1, <1>2, <1>3, <2>3
  <2> QED BY <1>4, <2>2, <2>3
<1>11. DeliveredInWireOrder'
  BY <1>1 DEF DeliveredInWireOrder, CmdInv, WInv
<1>12. EveryTlvAccounted'
  <2> SUFFICES ASSUME NEW s \in 0 .. Len(input.sections) - 1
               PROVE  IF Undecodable(s) THEN s < si + 1 <=> FatalAt(Append(errors, e), s)
                      ELSE \A r \in 0 .. CutOf(s)' - 1 :
                             AccountedAt(delivered, Append(errors, e), s, r)
    BY <1>1, <1>3, <1>5, AccountedNext
  <2>1. IF Undecodable(s) THEN s < si <=> FatalAt(errors, s)
        ELSE \A r \in 0 .. CutOf(s) - 1 : AccountedAt(delivered, errors, s, r)
    BY <1>2, AccountedParts
  <2>2. CASE Undecodable(s) /\ s = si
    <3>1. FatalAt(Append(errors, e), s)
      BY <1>1, <1>2, <1>3, <2>2, NothingAhead, FatalAccounts
    <3> QED BY <1>2, <2>2, <3>1
  <2>3. CASE Undecodable(s) /\ s # si
    <3>1. FatalAt(errors, s) <=> FatalAt(Append(errors, e), s)
      BY <1>2, <1>3, <2>3, FatalAccounts
    <3>2. s < si + 1 <=> s < si
      BY <1>2, <2>3
    <3> QED BY <2>1, <2>3, <3>1, <3>2
  <2>4. CASE ~Undecodable(s)
    <3> SUFFICES ASSUME NEW r \in 0 .. CutOf(s)' - 1
                 PROVE  AccountedAt(delivered, Append(errors, e), s, r)
      BY <2>4
    <3>1. s # si /\ ~MissAt(e, s, r)
      BY <1>1, <1>3, <2>4 DEF MissAt
    <3>2. CutOf(s)' = CutOf(s)
      <4>1. s \in Nat /\ (s < si + 1 <=> s < si) /\ Cut' = 0
        BY <1>2, <1>5, <3>1
      <4>2. CutOf(s) = IF s < si THEN Len(input.sections[s + 1].tlvs) ELSE 0
        BY <1>2, <3>1, CutOfNow
      <4>3. CutOf(s)' = IF s < si + 1 THEN Len(input.sections[s + 1].tlvs) ELSE 0
        <5>1. /\ s \in 0 .. Len(input'.sections) - 1
              /\ si' \in Nat /\ Len(input'.sections) \in Nat
          BY <1>1, <1>2
        <5>2. CutOf(s)' = IF s < si' THEN Len(input'.sections[s + 1].tlvs)
                          ELSE IF s = si' THEN Cut' ELSE 0
          BY <5>1, CutOfNext
        <5> QED BY <1>1, <4>1, <5>2
      <4> QED BY <4>1, <4>2, <4>3
    <3> QED BY <1>2, <1>3, <2>1, <2>4, <3>1, <3>2, ReportAccounts
  <2> QED BY <2>2, <2>3, <2>4
<1> QED BY <1>7, <1>9, <1>10, <1>11, <1>12 DEF WInv, WalksAccountForAll

-----------------------------------------------------------------------------

(***************************************************************************)
(* Nothing is read yet.                                                    *)
(***************************************************************************)
LEMMA CmdInitInv == CmdInit => CmdInv
<1> SUFFICES ASSUME CmdInit PROVE CmdInv
  OBVIOUS
<1>1. IInv
  BY InitIInv DEF CmdInit, Init
<1>2. /\ IsContainer(NoInput) /\ IsContainer(NoPair.a) /\ IsContainer(NoPair.b)
      /\ Len(NoInput.sections) = 0
  BY NoInputEmpty DEF NoPair
<1>3. WalkTypes /\ Position /\ Counted
  BY <1>2 DEF CmdInit, Init, WalkTypes, Position, Counted
<1>4. DeliveredBehind /\ ErrorsBehind /\ DeliveredInWireOrder
  BY DEF CmdInit, Init, DeliveredBehind, ErrorsBehind, DeliveredInWireOrder
<1>5. WalksAccountForAll
  BY <1>2 DEF CmdInit, Init, WalksAccountForAll, EveryTlvAccounted
<1> QED BY <1>1, <1>3, <1>4, <1>5 DEF CmdInv, WInv

(***************************************************************************)
(* Every step of every command preserves the invariant.                    *)
(***************************************************************************)
LEMMA CmdStep ==
  ASSUME CmdInv, [CmdNext]_allVars
  PROVE  CmdInv'
<1>1. IInv'
  BY PoolStep, ParseStep, EventReleaseStep, StutterStep DEF CmdInv, PoolNext
<1>2. WInv'
  <2>1. CASE \/ WalkBegins \/ QueryRefused \/ EmitReadFails \/ EmitBegins
             \/ DiffReadFails \/ DiffBegins \/ DiffSecond
    BY <2>1, BeginSteps
  <2>2. CASE DiffStops \/ DiffCompares \/ UNCHANGED allVars
    BY <2>2, RestSteps
  <2>3. CASE EmitStep
    BY <2>3, EmitSteps
  <2>4. CASE WalkSteps
    BY <1>1, <2>4, SkipStep, MovingSteps, ParseFailsStep, DeliverStep DEF WalkSteps, Step
  <2> QED BY <2>1, <2>2, <2>3, <2>4 DEF CmdNext, DiffStep
<1> QED BY <1>1, <1>2 DEF CmdInv

(***************************************************************************)
(* The invariant holds throughout.                                         *)
(***************************************************************************)
LEMMA CommandsInductive == CmdSpec => []CmdInv
BY CmdInitInv, CmdStep, PTL DEF CmdSpec

(***************************************************************************)
(* The readers use the pools as their specification allows: whatever the   *)
(* commands of a process read, the pools go through a behaviour of         *)
(* PoolSpec, so that its theorems hold of them.                            *)
(***************************************************************************)
THEOREM ReadersUsePools == CmdSpec => PoolSpec
<1>1. CmdInit => PoolInit
  BY DEF CmdInit, Init
<1>2. CmdInv /\ [CmdNext]_allVars => [PoolNext]_poolVars
  BY PoolStep DEF CmdInv
<1> QED BY <1>1, <1>2, CommandsInductive, PTL DEF CmdSpec, PoolSpec

(***************************************************************************)
(* on_record sees the records of every walk in wire order, each under its  *)
(* own section and record number.                                          *)
(***************************************************************************)
THEOREM WireOrder == CmdSpec => []DeliveredInWireOrder
<1>1. CmdInv => DeliveredInWireOrder
  BY DEF CmdInv, WInv
<1> QED BY <1>1, CommandsInductive, PTL

(***************************************************************************)
(* Every TLV a walk cut was handed out or reported, once, and every        *)
(* section it could not decode was reported once.                          *)
(***************************************************************************)
THEOREM NothingSilent == CmdSpec => []WalksAccountForAll
<1>1. CmdInv => WalksAccountForAll
  BY DEF CmdInv, WInv
<1> QED BY <1>1, CommandsInductive, PTL

-----------------------------------------------------------------------------

(***************************************************************************)
(* What a dtl_record_parse frees is of the kind of the record it parses,   *)
(* and no EVENT.                                                           *)
(***************************************************************************)
LEMMA ParseFrees ==
  ASSUME IInv, NEW w \in Tlvs, RecordParse(w)
  PROVE  \A h \in live \ live' : h.kind = w.tag /\ h.kind # "EVENT"
<1>1. CASE \/ ParseFixed(w) \/ ParseLog(w) \/ ParseUnknown(w) \/ NoPayload(w)
           \/ EventOom(w) \/ EventTake(w) \/ KeyrefHeader(w) \/ KeyrefOversized(w)
  BY <1>1 DEF ParseFixed, ParseLog, ParseUnknown, NoPayload, EventOom, EventTake, KeyrefHeader,
              KeyrefOversized
<1>2. CASE SensorOom(w) \/ SensorTake(w)
  BY <1>2, SensorReclaim DEF SensorOom, SensorTake, CarriesPayload
<1>3. CASE ConfigHeader(w) \/ ConfigStrings(w)
  <2>1. OwnedBy(config, "CONFIG", live)
    BY OwnLiveParts DEF IInv
  <2>2. \A h \in ToSet(config) : h.kind = "CONFIG"
    BY <2>1 DEF OwnedBy, ToSet
  <2> QED BY <1>3, <2>2 DEF ConfigHeader, ConfigStrings
<1>4. CASE DiagOom(w) \/ DiagTake(w)
  <2>1. \A h \in ToSet(DiagVictims(w.n)) : h.kind = "DIAG"
    BY TlvAssumption, DiagEvict
  <2> QED BY <1>4, <2>1 DEF DiagOom, DiagTake, CarriesPayload
<1>5. CASE KeyrefOom(w) \/ KeyrefLabel(w)
  <2>1. live \ live' \subseteq {ring[pos]} /\ w.tag = "KEYREF"
    BY <1>5 DEF KeyrefOom, KeyrefLabel
  <2>2. ring[pos] \in live => ring[pos].kind = "KEYREF"
    <3>1. RingOwned(ring, live) /\ pos \in DOMAIN ring /\ NULL \notin live
      BY OwnLiveParts, HandleFields DEF IInv, PoolTypes, NULL, PoolKinds
    <3> QED BY <3>1 DEF RingOwned
  <2> QED BY <2>1, <2>2
<1> QED BY <1>1, <1>2, <1>3, <1>4, <1>5 DEF RecordParse

(***************************************************************************)
(* Only three kinds of step free anything.                                 *)
(***************************************************************************)
LEMMA StepFrees ==
  ASSUME CmdInv, [CmdNext]_allVars, NEW h \in live \ live'
  PROVE  IF ti = Len(Section.tlvs) THEN pc = "stream" /\ h.kind = "EVENT"
         ELSE h.kind = Section.tlvs[ti + 1].tag /\ h.kind # "EVENT"
<1>1. ASSUME pc \in {"stream", "emit_stream"}, ti < Len(Section.tlvs),
             RecordParse(Section.tlvs[ti + 1])
      PROVE  ti # Len(Section.tlvs) /\ h.kind = Section.tlvs[ti + 1].tag /\ h.kind # "EVENT"
  <2>1. Len(Section.tlvs) \in Nat /\ Section.tlvs[ti + 1] \in Tlvs /\ ti \in Nat
    BY <1>1, NextTlv DEF CmdInv, WInv, WalkTypes
  <2>2. ti # Len(Section.tlvs)
    BY <1>1, <2>1
  <2>3. h.kind = Section.tlvs[ti + 1].tag /\ h.kind # "EVENT"
    BY <1>1, <2>1, ParseFrees DEF CmdInv
  <2> QED BY <2>2, <2>3
<1>2. CASE UNCHANGED poolVars
  BY <1>2 DEF poolVars
<1>3. CASE ParseFails \/ Deliver \/ DeliverAborts \/ EmitRecord \/ EmitParseFails
  <2>1. /\ pc \in {"stream", "emit_stream"} /\ ti < Len(Section.tlvs)
        /\ RecordParse(Section.tlvs[ti + 1])
    BY <1>3 DEF ParseFails, Deliver, DeliverAborts, EmitRecord, EmitParseFails
  <2> QED BY <1>1, <2>1
<1>4. CASE StreamEnds
  <2>1. pc = "stream" /\ ti = Len(Section.tlvs) /\ h \in ToSet(event)
    BY <1>4 DEF StreamEnds, EventPoolRelease
  <2>2. OwnedBy(event, "EVENT", live)
    BY OwnLiveParts DEF CmdInv, IInv
  <2> QED BY <2>1, <2>2 DEF OwnedBy, ToSet
<1>5. \/ UNCHANGED poolVars \/ StreamEnds
      \/ ParseFails \/ Deliver \/ DeliverAborts \/ EmitRecord \/ EmitParseFails
  <2>1. CASE UNCHANGED allVars
    BY <2>1 DEF allVars, vars
  <2>2. CASE \/ WalkBegins \/ QueryRefused \/ EmitReadFails \/ EmitBegins
             \/ DiffReadFails \/ DiffBegins
    BY <2>2 DEF WalkBegins, QueryRefused, EmitReadFails, EmitBegins, DiffReadFails, DiffBegins,
                AbsorbFails, Begin, WalkMemory, Enter
  <2>3. CASE DiffStep
    BY <2>3 DEF DiffStep, DiffStops, DiffSecond, DiffCompares, WalkMemory, Enter, vars
  <2>4. CASE WalkSteps
    BY <2>4 DEF WalkSteps, Step, SkipSection, SectionOom, OpenSection, Finish
  <2>5. CASE EmitStep
    BY <2>5 DEF EmitStep, EmitSectionFails, EmitSectionOom, EmitSection, EmitStreamEnds,
                EmitFinishes, EmitReturns
  <2> QED BY <2>1, <2>2, <2>3, <2>4, <2>5 DEF CmdNext
<1> QED BY <1>2, <1>3, <1>4, <1>5

(***************************************************************************)
(* A payload is freed only by the parse of a record of its kind, an EVENT  *)
(* payload only at the end of a section of a walk.                         *)
(***************************************************************************)
THEOREM FreedByOwnKind == CmdSpec => FreedOnlyByOwnKind
<1>1. CmdInv /\ [CmdNext]_allVars =>
        [\A h \in live \ live' :
           IF ti = Len(Section.tlvs) THEN pc = "stream" /\ h.kind = "EVENT"
           ELSE h.kind = Section.tlvs[ti + 1].tag /\ h.kind # "EVENT"]_vars
  BY StepFrees
<1> QED BY <1>1, CommandsInductive, PTL DEF CmdSpec, FreedOnlyByOwnKind

-----------------------------------------------------------------------------
(***************************************************************************)
(* dtl_cli_emit, the strict reader behind decode and query: what it        *)
(* prints, and when it may report success.                                 *)
(***************************************************************************)

(***************************************************************************)
(* Where the reader stands: everything behind it was sound, and            *)
(* record_index counts the TLVs of the sections behind it and those cut    *)
(* from the current one.                                                   *)
(***************************************************************************)
ReadTo ==
  cmd = "emit" /\ input.rc = "OK" =>
    /\ \A i \in DOMAIN input.sections : IsSection(input.sections[i])
    /\ \A s \in 1 .. si : Sound(input.sections[s])
    /\ pc = "emit_section" => record_index = Ahead(TlvsOf(input), si)
    /\ pc = "emit_stream" => /\ record_index = Ahead(TlvsOf(input), si) + ti
                             /\ SectionErrs(Section) = {}
                             /\ \A i \in 1 .. ti : Readable(Section.tlvs[i])

(***************************************************************************)
(* A line is printed under the number of a record already read.            *)
(***************************************************************************)
Line == [index : Nat, rec : {Shown(w) : w \in Tlvs}]
PrintedBehind == cmd = "emit" => /\ printed \in Seq(Line)
                                 /\ \A i \in DOMAIN printed : printed[i].index < record_index

EmitInv == ReadTo /\ PrintedBehind /\ PrintedIsRedactedSelection /\ EmitIsStrict

-----------------------------------------------------------------------------

(***************************************************************************)
(* dtl_redact_record_ks blanks exactly the labels of the provisioned slots *)
(* and the blobs of the reserved subsystems.                               *)
(***************************************************************************)
LEMMA RedactsSecrets == ASSUME NEW w \in Tlvs PROVE RedactRecordKs(w) = Shown(w)
<1>1. w.id \in 0 .. MaxU16 /\ Slots \in Nat /\ Slots > 2 /\ SensitiveMin \in 0 .. MaxU16
  BY CommandAssumption
<1>2. KeystoreSlot(w.id) <=> w.id \in {1, 2}
  BY <1>1 DEF KeystoreSlot, Provisioned
<1>3. Sensitive(w.id) <=> w.id \in SensitiveMin .. MaxU16
  BY <1>1 DEF Sensitive
<1>4. CASE Secret(w)
  <2>1. (w.tag = "KEYREF" /\ KeystoreSlot(w.id)) \/ (w.tag = "DIAG" /\ Sensitive(w.id))
    BY <1>2, <1>3, <1>4 DEF Secret
  <2> QED BY <1>4, <2>1 DEF RedactRecordKs, Record, Shown, Secret
<1>5. CASE ~Secret(w)
  <2>1. ~((w.tag = "KEYREF" /\ KeystoreSlot(w.id)) \/ (w.tag = "DIAG" /\ Sensitive(w.id)))
    BY <1>2, <1>3, <1>5 DEF Secret
  <2> QED BY <1>5, <2>1 DEF RedactRecordKs, Record, Shown, Secret
<1> QED BY <1>4, <1>5

(***************************************************************************)
(* dtl_record_parse accepts what is readable and nothing else, unless      *)
(* memory runs out.                                                        *)
(***************************************************************************)
LEMMA ParseJudges ==
  ASSUME NEW w, RecordParse(w)
  PROVE  /\ out'.rc = "OK" => Readable(w)
         /\ out'.rc \notin {"OK", "OOM"} => ~Readable(w)
<1> USE DEF Fail, Parsed, ErrOf, Readable, EarlyDefect
<1>1. CASE ParseFixed(w) \/ ParseLog(w) \/ ParseUnknown(w) \/ NoPayload(w)
  BY <1>1 DEF ParseFixed, ParseLog, ParseUnknown, NoPayload
<1>2. CASE EventOom(w) \/ EventTake(w) \/ SensorOom(w) \/ SensorTake(w)
  BY <1>2 DEF EventOom, EventTake, SensorOom, SensorTake, CarriesPayload
<1>3. CASE ConfigHeader(w) \/ ConfigStrings(w)
  BY <1>3 DEF ConfigHeader, ConfigStrings
<1>4. CASE DiagOom(w) \/ DiagTake(w)
  BY <1>4 DEF DiagOom, DiagTake, CarriesPayload
<1>5. CASE KeyrefHeader(w) \/ KeyrefOversized(w) \/ KeyrefOom(w) \/ KeyrefLabel(w)
  BY <1>5 DEF KeyrefHeader, KeyrefOversized, KeyrefOom, KeyrefLabel
<1> QED BY <1>1, <1>2, <1>3, <1>4, <1>5 DEF RecordParse

(***************************************************************************)
(* A section without errors decodes to its declared length.                *)
(***************************************************************************)
LEMMA SectionJudged ==
  ASSUME NEW s, IsSection(s)
  PROVE  /\ SectionErrs(s) = {} => s.fate \in {"ok", "big"} /\ s.raw = "exact"
         /\ SectionErrs(s) # {} => ~Sound(s)
BY DEF IsSection, SectionErrs, FateErrs, Sound

(***************************************************************************)
(* The TLVs of a container, section by section and in one sequence.        *)
(***************************************************************************)
LEMMA TlvsAt ==
  ASSUME NEW c, IsContainer(c)
  PROVE  /\ TlvsOf(c) \in Seq(Seq(Tlvs)) /\ Len(TlvsOf(c)) = Len(c.sections)
         /\ \A s \in 0 .. Len(c.sections) - 1 : TlvsOf(c)[s + 1] = c.sections[s + 1].tlvs
<1>1. /\ Len(c.sections) \in Nat /\ DOMAIN c.sections = 1 .. Len(c.sections)
      /\ \A s \in 0 .. Len(c.sections) - 1 : c.sections[s + 1].tlvs \in Seq(Tlvs)
  BY SectionsOf
<1>2. PICK n \in Nat : n = Len(c.sections)
  BY <1>1
<1>3. ASSUME NEW i \in 1 .. n PROVE c.sections[i].tlvs \in Seq(Tlvs)
  <2>1. i - 1 \in 0 .. n - 1 /\ i - 1 + 1 = i
    BY <1>2
  <2> QED BY <1>1, <1>2, <2>1
<1>4. TlvsOf(c) = [s \in 1 .. n |-> c.sections[s].tlvs]
  BY <1>1, <1>2 DEF TlvsOf
<1>5. TlvsOf(c) \in Seq(Seq(Tlvs)) /\ Len(TlvsOf(c)) = n
  BY <1>3, <1>4
<1>6. \A s \in 0 .. n - 1 : TlvsOf(c)[s + 1] = c.sections[s + 1].tlvs
  BY <1>4
<1> QED BY <1>2, <1>5, <1>6

(***************************************************************************)
(* The lines of the first n records of the wire.                           *)
(***************************************************************************)
Lines(f, wire, n) ==
  {[index |-> i - 1, rec |-> Shown(wire[i])] : i \in
     {j \in 1 .. n : Selects(f, Shown(wire[j]))}}

(***************************************************************************)
(* One record more.                                                        *)
(***************************************************************************)
LEMMA LinesNext ==
  ASSUME NEW f, NEW wire, NEW n \in Nat
  PROVE  /\ Lines(f, wire, 0) = {}
         /\ Lines(f, wire, n + 1) =
              IF Selects(f, Shown(wire[n + 1]))
              THEN Lines(f, wire, n) \cup {[index |-> n, rec |-> Shown(wire[n + 1])]}
              ELSE Lines(f, wire, n)
<1>1. Lines(f, wire, 0) = {}
  BY DEF Lines
<1> DEFINE sel(m) == {j \in 1 .. m : Selects(f, Shown(wire[j]))}
           line(i) == [index |-> i - 1, rec |-> Shown(wire[i])]
<1>2. CASE Selects(f, Shown(wire[n + 1]))
  <2>1. sel(n + 1) = sel(n) \cup {n + 1}
    BY <1>2
  <2>2. line(n + 1) = [index |-> n, rec |-> Shown(wire[n + 1])]
    OBVIOUS
  <2> HIDE DEF sel, line
  <2>3. {line(i) : i \in sel(n + 1)} = {line(i) : i \in sel(n)} \cup {line(n + 1)}
    BY <2>1
  <2> QED BY <1>1, <1>2, <2>2, <2>3 DEF Lines, sel, line
<1>3. CASE ~Selects(f, Shown(wire[n + 1]))
  <2>1. sel(n + 1) = sel(n)
    BY <1>3
  <2> QED BY <1>1, <1>3, <2>1 DEF Lines
<1> QED BY <1>2, <1>3

Ascending(lines) == \A i, j \in DOMAIN lines : i < j => lines[i].index < lines[j].index

(***************************************************************************)
(* What is printed, in terms of Lines.                                     *)
(***************************************************************************)
LEMMA SelectionNow ==
  PrintedIsRedactedSelection <=>
    (cmd = "emit" => ToSet(printed) = Lines(filter, Wire, record_index) /\ Ascending(printed))
BY DEF PrintedIsRedactedSelection, Lines, Ascending

(***************************************************************************)
(* The same after a step.                                                  *)
(***************************************************************************)
LEMMA SelectionNext ==
  PrintedIsRedactedSelection' <=>
    (cmd' = "emit" => ToSet(printed') = Lines(filter', Wire', record_index')
                      /\ Ascending(printed'))
BY DEF PrintedIsRedactedSelection, Lines, Ascending

-----------------------------------------------------------------------------

(***************************************************************************)
(* A command that is not emit, or an emit that has read nothing.           *)
(***************************************************************************)
LEMMA EmitBeginSteps ==
  ASSUME CmdInv, EmitInv,
         \/ WalkBegins \/ QueryRefused \/ EmitReadFails \/ EmitBegins
         \/ DiffReadFails \/ DiffBegins \/ DiffStep
  PROVE  EmitInv'
<1>1. CASE WalkBegins \/ DiffReadFails \/ DiffBegins \/ DiffStep
  <2>1. cmd' # "emit"
    BY <1>1 DEF WalkBegins, DiffReadFails, DiffBegins, DiffStep, DiffStops, DiffSecond, DiffCompares,
                Start
  <2> QED BY <2>1, SelectionNext DEF EmitInv, ReadTo, PrintedBehind, EmitIsStrict
<1>2. CASE QueryRefused \/ EmitReadFails \/ EmitBegins
  <2>1. si' = 0 /\ record_index' = 0 /\ printed' = <<>>
    BY <1>2 DEF QueryRefused, EmitReadFails, EmitBegins, AbsorbFails, Enter, Start
  <2>2. input'.rc = "OK" =>
          /\ pc' = "emit_section" /\ IsContainer(input')
          /\ \A i \in DOMAIN input'.sections : IsSection(input'.sections[i])
    <3>1. CASE QueryRefused \/ EmitReadFails
      BY <3>1, NoInputEmpty DEF QueryRefused, EmitReadFails, AbsorbFails
    <3>2. CASE EmitBegins
      <4>1. PICK e \in EmitInputs :
              /\ input' = e[1]
              /\ IF e[1].rc = "OK" THEN pc' = "emit_section" /\ ret' = "NONE"
                 ELSE Returns(e[1].rc)
        BY <3>2 DEF EmitBegins
      <4>2. IsContainer(e[1]) /\ \A i \in DOMAIN e[1].sections : IsSection(e[1].sections[i])
        BY CommandAssumption
      <4> QED BY <4>1, <4>2
    <3> QED BY <1>2, <3>1, <3>2
  <2>3. ReadTo'
    <3> SUFFICES ASSUME input'.rc = "OK" PROVE
            /\ \A i \in DOMAIN input'.sections : IsSection(input'.sections[i])
            /\ \A s \in 1 .. si' : Sound(input'.sections[s])
            /\ pc' = "emit_section" /\ record_index' = Ahead(TlvsOf(input'), si')
      BY DEF ReadTo
    <3>1. TlvsOf(input') \in Seq(Seq(Tlvs))
      BY <2>2, TlvsAt
    <3>2. Ahead(TlvsOf(input'), 0) = 0
      BY <3>1, AheadNext
    <3> QED BY <2>1, <2>2, <3>2
  <2>4. PrintedBehind' /\ DOMAIN printed' = {}
    BY <2>1 DEF PrintedBehind
  <2>5. PrintedIsRedactedSelection'
    BY <2>1, <2>4, SelectionNext, LinesNext DEF ToSet, Ascending
  <2>6. EmitIsStrict'
    BY <2>2 DEF EmitIsStrict
  <2> QED BY <2>3, <2>4, <2>5, <2>6 DEF EmitInv
<1> QED BY <1>1, <1>2

(***************************************************************************)
(* A walk is not an emit.                                                  *)
(***************************************************************************)
LEMMA EmitOtherSteps ==
  ASSUME CmdInv, EmitInv, WalkSteps \/ UNCHANGED allVars
  PROVE  EmitInv'
<1>1. CASE WalkSteps
  <2>1. pc \in {"section", "stream"}
    BY <1>1 DEF WalkSteps, Step, SkipSection, SectionOom, OpenSection, ParseFails, Deliver,
                DeliverAborts, StreamEnds, Finish
  <2>2. cmd' # "emit"
    BY <1>1, <2>1 DEF WalkSteps, cmdVars, CmdInv, WInv, Position
  <2> QED BY <2>2, SelectionNext DEF EmitInv, ReadTo, PrintedBehind, EmitIsStrict
<1>2. CASE UNCHANGED allVars
  <2>1. /\ cmd' = cmd /\ pc' = pc /\ input' = input /\ si' = si /\ ti' = ti /\ ret' = ret
        /\ record_index' = record_index /\ printed' = printed /\ filter' = filter
        /\ Section' = Section /\ Wire' = Wire
    BY <1>2 DEF allVars, cmdVars, vars, walkVars, Section, Wire
  <2>2. ReadTo' /\ PrintedBehind'
    BY <2>1 DEF EmitInv, ReadTo, PrintedBehind
  <2>3. PrintedIsRedactedSelection'
    BY <2>1, SelectionNow, SelectionNext DEF EmitInv
  <2>4. EmitIsStrict'
    BY <2>1 DEF EmitInv, EmitIsStrict
  <2> QED BY <2>2, <2>3, <2>4 DEF EmitInv
<1> QED BY <1>1, <1>2

(***************************************************************************)
(* What holds before every step of emit.                                   *)
(***************************************************************************)
LEMMA Emitting ==
  ASSUME CmdInv, EmitStep
  PROVE  /\ cmd = "emit" /\ cmd' = "emit" /\ input.rc = "OK" /\ input' = input
         /\ filter' = filter /\ Wire' = Wire /\ pc \in {"emit_section", "emit_stream"}
         /\ si \in Nat /\ ti \in Nat /\ record_index \in Nat /\ Len(input.sections) \in Nat
         /\ IsContainer(input) /\ DOMAIN input.sections = 1 .. Len(input.sections)
         /\ pc = "emit_section" => si <= Len(input.sections)
         /\ pc = "emit_stream" => si < Len(input.sections) /\ ti <= Len(Section.tlvs)
<1>1. pc \in {"emit_section", "emit_stream"} /\ EmitFrame
  BY DEF EmitStep, EmitSectionFails, EmitSectionOom, EmitSection, EmitRecord, EmitParseFails,
         EmitStreamEnds, EmitFinishes, EmitReturns, InSection
<1>2. /\ cmd = "emit" /\ cmd' = "emit" /\ input.rc = "OK" /\ input' = input /\ filter' = filter
      /\ IsContainer(input)
  BY <1>1 DEF EmitFrame, CmdInv, WInv, Position, WalkTypes
<1>3. Wire' = Wire
  BY <1>2 DEF Wire
<1> QED BY <1>1, <1>2, <1>3, SectionsOf DEF CmdInv, WInv, WalkTypes, Position

(***************************************************************************)
(* emit returns: with success when every section is behind it, and         *)
(* otherwise, unless memory ran out, at a section with a defect.           *)
(***************************************************************************)
LEMMA EmitReturnSteps ==
  ASSUME CmdInv, EmitInv, EmitStep, pc' = "done",
         /\ si' = si /\ record_index' = record_index /\ printed' = printed
         /\ ret' = "OK" => pc = "emit_section" /\ si = Len(input.sections)
         /\ ret' \notin {"OK", "OOM"} => ~Sound(Section)
  PROVE  EmitInv'
<1>0. /\ cmd = "emit" /\ cmd' = "emit" /\ input.rc = "OK" /\ input' = input
      /\ filter' = filter /\ Wire' = Wire /\ Section' = Section /\ IsContainer(input)
      /\ DOMAIN input.sections = 1 .. Len(input.sections)
  BY Emitting DEF Section
<1>1. ReadTo'
  BY <1>0 DEF EmitInv, ReadTo
<1>2. PrintedBehind'
  BY <1>0 DEF EmitInv, PrintedBehind
<1>3. PrintedIsRedactedSelection'
  BY <1>0, SelectionNow, SelectionNext DEF EmitInv
<1>4. EmitIsStrict'
  <2>1. \A s \in 1 .. si : Sound(input.sections[s])
    BY <1>0 DEF EmitInv, ReadTo
  <2>2. ASSUME ret' = "OK" PROVE record_index = Len(Wire)
    <3>1. record_index = Ahead(TlvsOf(input), si) /\ si = Len(input.sections)
      BY <1>0, <2>2 DEF EmitInv, ReadTo
    <3>2. TlvsOf(input) \in Seq(Seq(Tlvs)) /\ Len(TlvsOf(input)) = Len(input.sections)
      BY <1>0, TlvsAt
    <3>3. Len(Wire) = Ahead(TlvsOf(input), Len(TlvsOf(input)))
      BY <3>2, FlattenPlaces DEF Wire
    <3> QED BY <3>1, <3>2, <3>3
  <2>3. ASSUME ret' = "OK" PROVE \A s \in DOMAIN input.sections : Sound(input.sections[s])
    BY <1>0, <2>1, <2>3
  <2> QED BY <1>0, <2>1, <2>2, <2>3 DEF EmitIsStrict
<1> QED BY <1>1, <1>2, <1>3, <1>4 DEF EmitInv

(***************************************************************************)
(* The steps at which emit returns.                                        *)
(***************************************************************************)
LEMMA EmitEnds ==
  ASSUME CmdInv, EmitInv,
         \/ EmitSectionFails \/ EmitSectionOom \/ EmitParseFails \/ EmitFinishes
         \/ EmitStreamEnds /\ Section.tail = "cut"
  PROVE  EmitInv'
<1>0. EmitStep
  BY DEF EmitStep
<1>1. /\ cmd = "emit" /\ input.rc = "OK" /\ si \in Nat /\ Len(input.sections) \in Nat
      /\ DOMAIN input.sections = 1 .. Len(input.sections)
  BY <1>0, Emitting
<1>2. ASSUME si < Len(input.sections) PROVE IsSection(Section)
  <2>1. si + 1 \in DOMAIN input.sections
    BY <1>1, <1>2
  <2> QED BY <1>1, <2>1 DEF EmitInv, ReadTo, Section
<1>3. CASE EmitSectionFails
  <2>1. SectionErrs(Section) # {} /\ IsSection(Section)
    BY <1>2, <1>3 DEF EmitSectionFails, InSection
  <2>2. ~Sound(Section)
    BY <2>1, SectionJudged
  <2>3. \A rc \in SectionErrs(Section) : rc # "OK"
    BY DEF SectionErrs, FateErrs
  <2>4. pc' = "done" /\ ret' # "OK" /\ si' = si /\ record_index' = record_index
        /\ printed' = printed
    BY <1>3, <2>3 DEF EmitSectionFails, EmitReturns, Returns
  <2> QED BY <1>0, <2>2, <2>4, EmitReturnSteps
<1>4. CASE EmitSectionOom \/ EmitFinishes
  <2>1. /\ pc' = "done" /\ si' = si /\ record_index' = record_index /\ printed' = printed
        /\ ret' = "OOM" \/ (ret' = "OK" /\ pc = "emit_section" /\ si = Len(input.sections))
    BY <1>4 DEF EmitSectionOom, EmitFinishes, EmitReturns, Returns
  <2> QED BY <1>0, <2>1, EmitReturnSteps
<1>5. CASE EmitParseFails
  <2>1. /\ pc' = "done" /\ ret' = out'.rc /\ out'.rc # "OK" /\ si' = si
        /\ record_index' = record_index /\ printed' = printed
        /\ pc = "emit_stream" /\ ti < Len(Section.tlvs) /\ RecordParse(Section.tlvs[ti + 1])
    BY <1>5 DEF EmitParseFails, Returns
  <2>2. ret' \notin {"OK", "OOM"} => ~Readable(Section.tlvs[ti + 1])
    BY <2>1, ParseJudges
  <2>3. Section.tlvs \in Seq(Tlvs) /\ ti \in Nat
    BY <1>0, <2>1, NextTlv, Emitting DEF CmdInv
  <2>4. ti + 1 \in DOMAIN Section.tlvs
    BY <2>1, <2>3
  <2>5. ret' \notin {"OK", "OOM"} => ~Sound(Section)
    BY <2>2, <2>4 DEF Sound
  <2> QED BY <1>0, <2>1, <2>5, EmitReturnSteps
<1>6. CASE EmitStreamEnds /\ Section.tail = "cut"
  <2>1. /\ pc' = "done" /\ ret' = "TRUNCATED" /\ si' = si
        /\ record_index' = record_index /\ printed' = printed
    BY <1>6 DEF EmitStreamEnds, EmitReturns, Returns
  <2>2. ~Sound(Section)
    BY <1>6 DEF Sound
  <2> QED BY <1>0, <2>1, <2>2, EmitReturnSteps
<1> QED BY <1>3, <1>4, <1>5, <1>6

(***************************************************************************)
(* emit moves on without printing: into a section and out of it.           *)
(***************************************************************************)
LEMMA EmitMoves ==
  ASSUME CmdInv, EmitInv, EmitSection \/ (EmitStreamEnds /\ Section.tail = "clean")
  PROVE  EmitInv'
<1>0. EmitStep
  BY DEF EmitStep
<1>1. /\ cmd = "emit" /\ cmd' = "emit" /\ input.rc = "OK" /\ input' = input
      /\ filter' = filter /\ Wire' = Wire /\ si \in Nat /\ ti \in Nat /\ record_index \in Nat
      /\ Len(input.sections) \in Nat /\ IsContainer(input)
      /\ DOMAIN input.sections = 1 .. Len(input.sections)
  BY <1>0, Emitting
<1>2. record_index' = record_index /\ printed' = printed /\ pc' # "done"
      /\ ret' = ret
  BY DEF EmitSection, EmitStreamEnds, EmitReturns
<1>3. PrintedBehind' /\ PrintedIsRedactedSelection' /\ EmitIsStrict'
  BY <1>1, <1>2, SelectionNow, SelectionNext DEF EmitInv, PrintedBehind, EmitIsStrict
<1>4. /\ \A i \in DOMAIN input.sections : IsSection(input.sections[i])
      /\ \A s \in 1 .. si : Sound(input.sections[s])
  BY <1>1 DEF EmitInv, ReadTo
<1>5. CASE EmitSection
  <2>1. /\ pc = "emit_section" /\ si < Len(input.sections) /\ SectionErrs(Section) = {}
        /\ pc' = "emit_stream" /\ ti' = 0 /\ si' = si
    BY <1>5 DEF EmitSection, InSection
  <2>2. Section' = Section
    BY <1>1, <2>1 DEF Section
  <2>3. TlvsOf(input) \in Seq(Seq(Tlvs)) /\ si \in 0 .. Len(TlvsOf(input))
    BY <1>1, <2>1, TlvsAt
  <2>4. Ahead(TlvsOf(input), si) \in Nat
    BY <2>3, AheadNext
  <2>5. record_index = Ahead(TlvsOf(input), si) + 0
    BY <1>1, <2>1, <2>4 DEF EmitInv, ReadTo
  <2>6. ReadTo'
    BY <1>1, <1>2, <1>4, <2>1, <2>2, <2>5 DEF ReadTo
  <2> QED BY <1>3, <2>6 DEF EmitInv
<1>6. CASE EmitStreamEnds /\ Section.tail = "clean"
  <2>1. /\ pc = "emit_stream" /\ ti = Len(Section.tlvs) /\ si' = si + 1 /\ ti' = 0
        /\ pc' = "emit_section" /\ si < Len(input.sections)
    BY <1>0, <1>6, Emitting DEF EmitStreamEnds, EmitReturns
  <2>2. /\ record_index = Ahead(TlvsOf(input), si) + ti /\ SectionErrs(Section) = {}
        /\ \A i \in 1 .. ti : Readable(Section.tlvs[i])
    BY <1>1, <2>1 DEF EmitInv, ReadTo
  <2>3. /\ TlvsOf(input) \in Seq(Seq(Tlvs)) /\ Len(TlvsOf(input)) = Len(input.sections)
        /\ TlvsOf(input)[si + 1] = Section.tlvs
    BY <1>1, <2>1, TlvsAt DEF Section
  <2>4. Ahead(TlvsOf(input), si + 1) = Ahead(TlvsOf(input), si) + Len(Section.tlvs)
    <3>1. si \in 0 .. Len(TlvsOf(input)) - 1
      BY <1>1, <2>1, <2>3
    <3> QED BY <2>3, <3>1, AheadNext
  <2>5. Section.tlvs \in Seq(Tlvs)
    BY <2>1, NextTlv DEF CmdInv
  <2>6. IsSection(Section)
    BY <1>1, <1>4, <2>1 DEF Section
  <2>7. Sound(Section)
    <3>1. Section.fate \in {"ok", "big"} /\ Section.raw = "exact"
      BY <2>2, <2>6, SectionJudged
    <3>2. DOMAIN Section.tlvs = 1 .. ti
      BY <2>1, <2>5
    <3> QED BY <1>6, <2>2, <3>1, <3>2 DEF Sound
  <2>8. \A s \in 1 .. si + 1 : Sound(input.sections[s])
    <3>1. \A s \in 1 .. si + 1 : s \in 1 .. si \/ s = si + 1
      BY <1>1
    <3> QED BY <1>4, <2>7, <3>1 DEF Section
  <2>9. record_index = Ahead(TlvsOf(input), si + 1)
    BY <2>1, <2>2, <2>4
  <2>10. ReadTo'
    BY <1>1, <1>2, <1>4, <2>1, <2>8, <2>9 DEF ReadTo
  <2> QED BY <1>3, <2>10 DEF EmitInv
<1> QED BY <1>5, <1>6

(***************************************************************************)
(* The next record of the section is the next record of the wire.          *)
(***************************************************************************)
LEMMA NextOnWire ==
  ASSUME CmdInv, EmitInv, cmd = "emit", pc = "emit_stream", ti < Len(Section.tlvs)
  PROVE  /\ Section.tlvs[ti + 1] \in Tlvs
         /\ Wire[record_index + 1] = Section.tlvs[ti + 1]
<1> DEFINE q == TlvsOf(input)
<1>1. /\ input.rc = "OK" /\ si \in Nat /\ ti \in Nat /\ IsContainer(input)
      /\ Len(input.sections) \in Nat /\ si < Len(input.sections)
  BY SectionsOf DEF CmdInv, WInv, WalkTypes, Position
<1>2. Section.tlvs \in Seq(Tlvs) /\ Section.tlvs[ti + 1] \in Tlvs
  BY NextTlv DEF CmdInv
<1>3. /\ q \in Seq(Seq(Tlvs)) /\ Len(q) = Len(input.sections)
      /\ q[si + 1] = Section.tlvs
  BY <1>1, TlvsAt DEF Section
<1>4. record_index = Ahead(q, si) + ti
  BY <1>1 DEF EmitInv, ReadTo
<1> HIDE DEF q
<1>5. si \in 0 .. Len(q) - 1 /\ ti + 1 \in 1 .. Len(q[si + 1]) /\ si \in 0 .. Len(q)
  BY <1>1, <1>2, <1>3
<1>6. FlattenSeq(q)[Ahead(q, si) + (ti + 1)] = q[si + 1][ti + 1]
  BY <1>3, <1>5, FlattenPlaces
<1>7. Ahead(q, si) \in Nat
  BY <1>3, <1>5, AheadNext
<1>8. Ahead(q, si) + (ti + 1) = record_index + 1
  BY <1>1, <1>4, <1>7
<1>9. Wire = FlattenSeq(q)
  BY DEF Wire, q
<1> QED BY <1>2, <1>3, <1>6, <1>8, <1>9

(***************************************************************************)
(* A record is read: it is printed, redacted, or the query passes over it. *)
(***************************************************************************)
LEMMA EmitRecordStep ==
  ASSUME CmdInv, EmitInv, EmitRecord
  PROVE  EmitInv'
<1>0. EmitStep
  BY DEF EmitStep
<1> DEFINE w == Section.tlvs[ti + 1]
           line == [index |-> record_index, rec |-> Shown(w)]
<1>1. /\ cmd = "emit" /\ cmd' = "emit" /\ input.rc = "OK" /\ input' = input
      /\ filter' = filter /\ Wire' = Wire /\ si \in Nat /\ ti \in Nat /\ record_index \in Nat
  BY <1>0, Emitting
<1>2. /\ pc = "emit_stream" /\ pc' = "emit_stream" /\ ti < Len(Section.tlvs)
      /\ RecordParse(w) /\ out'.rc = "OK" /\ ti' = ti + 1 /\ record_index' = record_index + 1
      /\ si' = si
  BY DEF EmitRecord
<1>3. w \in Tlvs /\ Wire[record_index + 1] = w
  BY <1>1, <1>2, NextOnWire
<1>4. RedactRecordKs(w) = Shown(w)
  BY <1>3, RedactsSecrets
<1>5. printed' = IF Selects(filter, Shown(w)) THEN Append(printed, line) ELSE printed
  BY <1>4 DEF EmitRecord
<1>6. Section' = Section
  BY <1>1, <1>2 DEF Section
<1>7. ReadTo'
  <2>1. /\ \A i \in DOMAIN input.sections : IsSection(input.sections[i])
        /\ \A s \in 1 .. si : Sound(input.sections[s])
        /\ record_index = Ahead(TlvsOf(input), si) + ti /\ SectionErrs(Section) = {}
        /\ \A i \in 1 .. ti : Readable(Section.tlvs[i])
    BY <1>1, <1>2 DEF EmitInv, ReadTo
  <2>2. Readable(w)
    BY <1>2, ParseJudges
  <2>3. \A i \in 1 .. ti + 1 : i \in 1 .. ti \/ i = ti + 1
    BY <1>1
  <2>4. \A i \in 1 .. ti + 1 : Readable(Section.tlvs[i])
    BY <2>1, <2>2, <2>3
  <2>5. Ahead(TlvsOf(input), si) \in Nat
    <3>1. IsContainer(input) /\ si < Len(input.sections) /\ Len(input.sections) \in Nat
      BY <1>0, <1>2, Emitting
    <3>2. TlvsOf(input) \in Seq(Seq(Tlvs)) /\ si \in 0 .. Len(TlvsOf(input))
      BY <1>1, <3>1, TlvsAt
    <3> QED BY <3>2, AheadNext
  <2>6. record_index + 1 = Ahead(TlvsOf(input), si) + (ti + 1)
    BY <1>1, <2>1, <2>5
  <2> QED BY <1>1, <1>2, <1>6, <2>1, <2>4, <2>6 DEF ReadTo
<1>8. /\ printed \in Seq(Line) /\ \A i \in DOMAIN printed : printed[i].index < record_index
      /\ ToSet(printed) = Lines(filter, Wire, record_index) /\ Ascending(printed)
      /\ \A i \in DOMAIN printed : printed[i].index \in Nat
  <2>1. /\ printed \in Seq(Line) /\ \A i \in DOMAIN printed : printed[i].index < record_index
        /\ ToSet(printed) = Lines(filter, Wire, record_index) /\ Ascending(printed)
    BY <1>1, SelectionNow DEF EmitInv, PrintedBehind
  <2>2. \A l \in Line : l.index \in Nat
    BY DEF Line
  <2>3. \A i \in DOMAIN printed : printed[i] \in Line
    BY <2>1
  <2> QED BY <2>1, <2>2, <2>3
<1>9. line \in Line /\ line.index = record_index
  BY <1>1, <1>3 DEF Line
<1>10. EmitIsStrict'
  BY <1>2 DEF EmitIsStrict
<1> HIDE DEF w, line
<1>11. /\ PrintedBehind' /\ ToSet(printed') = Lines(filter, Wire, record_index + 1)
       /\ Ascending(printed')
  <2>1. CASE ~Selects(filter, Shown(w))
    <3>1. printed' = printed /\ Lines(filter, Wire, record_index + 1) = Lines(filter, Wire, record_index)
      BY <1>1, <1>3, <1>5, <2>1, LinesNext
    <3>2. \A i \in DOMAIN printed : printed[i].index < record_index + 1
      BY <1>1, <1>8
    <3> QED BY <1>2, <1>8, <3>1, <3>2 DEF PrintedBehind
  <2>2. CASE Selects(filter, Shown(w))
    <3>1. /\ printed' = Append(printed, line)
          /\ Lines(filter, Wire, record_index + 1) = Lines(filter, Wire, record_index) \cup {line}
      BY <1>1, <1>3, <1>5, <2>2, LinesNext DEF line
    <3>2. PICK n \in Nat : n = Len(printed) /\ DOMAIN printed = 1 .. n
      BY <1>8
    <3>3. /\ printed' \in Seq(Line) /\ DOMAIN printed' = 1 .. n + 1
          /\ \A i \in 1 .. n : printed'[i] = printed[i]
          /\ printed'[n + 1] = line
      BY <1>8, <1>9, <3>1, <3>2
    <3>4. \A i \in 1 .. n + 1 : i \in 1 .. n \/ i = n + 1
      OBVIOUS
    <3>5. \A i \in 1 .. n : printed'[i].index < record_index /\ printed'[i].index \in Nat
      BY <1>8, <3>2, <3>3
    <3>6. \A i \in DOMAIN printed' : printed'[i].index < record_index + 1
      BY <1>1, <1>9, <3>3, <3>4, <3>5
    <3>7. ToSet(printed') = ToSet(printed) \cup {line}
      BY <3>2, <3>3, <3>4 DEF ToSet
    <3>8. Ascending(printed')
      <4> SUFFICES ASSUME NEW i \in 1 .. n + 1, NEW j \in 1 .. n + 1, i < j
                   PROVE  printed'[i].index < printed'[j].index
        BY <3>3 DEF Ascending
      <4>1. i \in 1 .. n
        OBVIOUS
      <4>2. CASE j \in 1 .. n
        BY <1>8, <3>2, <3>3, <4>1, <4>2 DEF Ascending
      <4>3. CASE j = n + 1
        BY <1>9, <3>3, <3>5, <4>1, <4>3
      <4> QED BY <3>4, <4>2, <4>3
    <3> QED BY <1>2, <1>8, <3>1, <3>3, <3>6, <3>7, <3>8 DEF PrintedBehind
  <2> QED BY <2>1, <2>2
<1>12. PrintedIsRedactedSelection'
  BY <1>1, <1>2, <1>11, SelectionNext
<1> QED BY <1>7, <1>10, <1>11, <1>12 DEF EmitInv

-----------------------------------------------------------------------------

(***************************************************************************)
(* The invariant of the strict reader holds throughout.                    *)
(***************************************************************************)
LEMMA EmitInductive == CmdSpec => []EmitInv
<1>1. CmdInit => EmitInv
  <2> SUFFICES ASSUME CmdInit PROVE EmitInv
    OBVIOUS
  <2>1. cmd # "emit"
    BY DEF CmdInit
  <2> QED BY <2>1, SelectionNow DEF EmitInv, ReadTo, PrintedBehind, EmitIsStrict
<1>2. CmdInv /\ EmitInv /\ [CmdNext]_allVars => EmitInv'
  <2> SUFFICES ASSUME CmdInv, EmitInv, [CmdNext]_allVars PROVE EmitInv'
    OBVIOUS
  <2>1. CASE \/ WalkBegins \/ QueryRefused \/ EmitReadFails \/ EmitBegins
             \/ DiffReadFails \/ DiffBegins \/ DiffStep
    BY <2>1, EmitBeginSteps
  <2>2. CASE WalkSteps \/ UNCHANGED allVars
    BY <2>2, EmitOtherSteps
  <2>3. CASE EmitStep
    <3>1. EmitStreamEnds => Section.tail \in {"cut", "clean"}
      BY DEF EmitStreamEnds
    <3> QED BY <2>3, <3>1, EmitEnds, EmitMoves, EmitRecordStep DEF EmitStep
  <2> QED BY <2>1, <2>2, <2>3 DEF CmdNext
<1> QED BY <1>1, <1>2, CommandsInductive, PTL DEF CmdSpec

(***************************************************************************)
(* At every moment, what decode and query have printed is the redacted     *)
(* form of exactly the records read that the query accepts in that form,   *)
(* in wire order and under their wire numbers.                             *)
(***************************************************************************)
THEOREM PrintsRedactedSelection == CmdSpec => []PrintedIsRedactedSelection
<1>1. EmitInv => PrintedIsRedactedSelection
  BY DEF EmitInv
<1> QED BY <1>1, EmitInductive, PTL

(***************************************************************************)
(* decode and query succeed only on a container that is sound to its last  *)
(* byte, and fail, unless memory runs out, at its first defect.            *)
(***************************************************************************)
THEOREM EmitStrict == CmdSpec => []EmitIsStrict
<1>1. EmitInv => EmitIsStrict
  BY DEF EmitInv
<1> QED BY <1>1, EmitInductive, PTL

-----------------------------------------------------------------------------
(***************************************************************************)
(* dtl_diff_files: while the two containers stay within what the pools     *)
(* hold at once, the first diff of a process compares live payloads only.  *)
(***************************************************************************)

(***************************************************************************)
(* What the first n TLVs of B ask of the pools: the TLVs of a tag with at  *)
(* least m in the payload, and the bytes of the blobs.                     *)
(***************************************************************************)
UpTo(B, tag, m, n) == {i \in 1 .. n : B[i].tag = tag /\ B[i].n >= m}
Used(B, tag, m, n) == Cardinality(UpTo(B, tag, m, n))
Weight(w) == IF w.tag = "DIAG" THEN w.n ELSE 0
Spent(B, n) == Total([i \in 1 .. n |-> Weight(B[i])])

Fits(B) ==
  /\ Used(B, "EVENT", 1, Len(B)) = 0 /\ Used(B, "SENSOR", 1, Len(B)) <= SensorMax
  /\ Used(B, "CONFIG", 0, Len(B)) <= 1 /\ Used(B, "KEYREF", 0, Len(B)) <= RingSize
  /\ Spent(B, Len(B)) <= DiagBudget

(***************************************************************************)
(* The pools hold no more than the first n TLVs of B asked for.            *)
(***************************************************************************)
Turned(c) == /\ pos = c \/ (c = RingSize /\ pos = 0)
             /\ \A j \in c .. RingSize - 1 : ring[j] = NULL

Held(B, n) ==
  /\ event = <<>>
  /\ Len(sensor) <= Used(B, "SENSOR", 1, n)
  /\ config # <<>> => Used(B, "CONFIG", 0, n) >= 1
  /\ diag_bytes <= Spent(B, n)
  /\ \E c \in 0 .. RingSize : c <= Used(B, "KEYREF", 0, n) /\ Turned(c)

(***************************************************************************)
(* The demand is a number, grows with n, and counts each TLV.              *)
(***************************************************************************)
LEMMA UsedGrows ==
  ASSUME NEW B, NEW tag, NEW m, NEW n \in Nat, NEW k \in 0 .. n
  PROVE  /\ Used(B, tag, m, n) \in Nat /\ Used(B, tag, m, k) \in Nat
         /\ Used(B, tag, m, k) <= Used(B, tag, m, n)
<1>1. IsFiniteSet(1 .. n)
  BY FS_Interval
<1>2. UpTo(B, tag, m, n) \subseteq 1 .. n /\ UpTo(B, tag, m, k) \subseteq UpTo(B, tag, m, n)
  BY DEF UpTo
<1>3. IsFiniteSet(UpTo(B, tag, m, n))
  BY <1>1, <1>2, FS_Subset
<1>4. IsFiniteSet(UpTo(B, tag, m, k))
  BY <1>2, <1>3, FS_Subset
<1>5. Cardinality(UpTo(B, tag, m, k)) <= Cardinality(UpTo(B, tag, m, n))
  BY <1>2, <1>3, FS_Subset
<1> QED BY <1>3, <1>4, <1>5, FS_CardinalityType DEF Used

(***************************************************************************)
(* A TLV that asks for room counts.                                        *)
(***************************************************************************)
LEMMA UsedNext ==
  ASSUME NEW B, NEW tag, NEW m, NEW n \in Nat,
         B[n + 1].tag = tag, B[n + 1].n >= m
  PROVE  Used(B, tag, m, n + 1) = Used(B, tag, m, n) + 1
<1>1. IsFiniteSet(UpTo(B, tag, m, n))
  <2>1. IsFiniteSet(1 .. n) /\ UpTo(B, tag, m, n) \subseteq 1 .. n
    BY FS_Interval DEF UpTo
  <2> QED BY <2>1, FS_Subset
<1>2. UpTo(B, tag, m, n + 1) = UpTo(B, tag, m, n) \cup {n + 1} /\ n + 1 \notin UpTo(B, tag, m, n)
  <2>1. \A i \in 1 .. n + 1 : i \in 1 .. n \/ i = n + 1
    OBVIOUS
  <2>2. n + 1 \notin 1 .. n /\ n + 1 \in 1 .. n + 1 /\ \A i \in 1 .. n : i \in 1 .. n + 1
    OBVIOUS
  <2> QED BY <2>1, <2>2 DEF UpTo
<1> QED BY <1>1, <1>2, FS_AddElement DEF Used

(***************************************************************************)
(* The bytes of the blobs, one TLV further.                                *)
(***************************************************************************)
LEMMA SpentNext ==
  ASSUME NEW B \in Seq(Tlvs)
  PROVE  /\ \A n \in 0 .. Len(B) : Spent(B, n) \in Nat
         /\ \A n \in 0 .. Len(B) - 1 : Spent(B, n + 1) = Spent(B, n) + Weight(B[n + 1])
<1> DEFINE z(n) == [i \in 1 .. n |-> Weight(B[i])]
<1>1. \A i \in 1 .. Len(B) : Weight(B[i]) \in Nat
  BY TlvAssumption DEF Weight
<1>2. ASSUME NEW n \in 0 .. Len(B) PROVE z(n) \in Seq(Nat) /\ Len(z(n)) = n
  <2>1. n \in Nat /\ \A i \in 1 .. n : i \in 1 .. Len(B)
    OBVIOUS
  <2>2. z(n) \in [1 .. n -> Nat]
    BY <1>1, <2>1
  <2> QED BY <2>1, <2>2
<1>3. ASSUME NEW n \in 0 .. Len(B) - 1
      PROVE  Total(z(n + 1)) = Total(z(n)) + Weight(B[n + 1])
  <2>1. /\ n \in 0 .. Len(B) /\ n + 1 \in 0 .. Len(B) /\ n + 1 \in 1 .. Len(B) /\ n \in Nat
    OBVIOUS
  <2>2. PICK x \in Nat : x = Weight(B[n + 1])
    BY <1>1, <2>1
  <2>3. /\ z(n) \in Seq(Nat) /\ Len(z(n)) = n /\ z(n + 1) \in Seq(Nat) /\ Len(z(n + 1)) = n + 1
    BY <1>2, <2>1
  <2>4. /\ \A i \in 1 .. n : z(n + 1)[i] = z(n)[i]
        /\ z(n + 1)[n + 1] = x
    BY <2>1, <2>2
  <2> HIDE DEF z
  <2>5. PICK s \in Seq(Nat) : s = z(n)
    BY <2>3
  <2>6. PICK t \in Seq(Nat) : t = z(n + 1)
    BY <2>3
  <2>7. /\ Append(s, x) \in Seq(Nat) /\ Len(Append(s, x)) = n + 1
        /\ \A i \in 1 .. n : Append(s, x)[i] = s[i]
        /\ Append(s, x)[n + 1] = x
    BY <2>3, <2>5, AppendProperties
  <2>8. \A i \in 1 .. n + 1 : t[i] = Append(s, x)[i]
    <3>1. \A i \in 1 .. n + 1 : i \in 1 .. n \/ i = n + 1
      BY <2>1
    <3> QED BY <2>4, <2>5, <2>6, <2>7, <3>1
  <2>9. t = Append(s, x)
    BY <2>3, <2>6, <2>7, <2>8, SeqEqual
  <2> QED BY <2>2, <2>5, <2>6, <2>9, TotalAppend
<1>4. \A n \in 0 .. Len(B) : Total(z(n)) \in Nat
  BY <1>2, TotalNat
<1> QED BY <1>3, <1>4 DEF Spent

(***************************************************************************)
(* The bytes only grow.                                                    *)
(***************************************************************************)
LEMMA SpentGrows ==
  ASSUME NEW B \in Seq(Tlvs), NEW n \in 0 .. Len(B), NEW k \in 0 .. n
  PROVE  Spent(B, k) <= Spent(B, n)
<1> DEFINE S == {d \in Nat : k + d <= Len(B) => Spent(B, k) <= Spent(B, k + d)}
<1>0. /\ Len(B) \in Nat /\ k \in Nat /\ n \in Nat
      /\ \A l \in 0 .. Len(B) : Spent(B, l) \in Nat
      /\ \A l \in 0 .. Len(B) - 1 : Spent(B, l + 1) = Spent(B, l) + Weight(B[l + 1])
      /\ \A i \in 1 .. Len(B) : Weight(B[i]) \in Nat
  <2>1. \A i \in 1 .. Len(B) : Weight(B[i]) \in Nat
    BY TlvAssumption DEF Weight
  <2> QED BY <2>1, SpentNext
<1>1. 0 \in S
  <2>1. k + 0 = k /\ k \in 0 .. Len(B)
    BY <1>0
  <2> QED BY <1>0, <2>1
<1>2. ASSUME NEW d \in S PROVE d + 1 \in S
  <2>1. CASE k + (d + 1) <= Len(B)
    <3>1. /\ d \in Nat /\ k + d \in 0 .. Len(B) - 1 /\ k + d \in 0 .. Len(B) /\ k \in 0 .. Len(B)
          /\ (k + d) + 1 = k + (d + 1) /\ (k + d) + 1 \in 1 .. Len(B) /\ k + d <= Len(B)
      BY <1>0, <2>1
    <3>2. Spent(B, k) <= Spent(B, k + d)
      BY <3>1
    <3>3. /\ Spent(B, (k + d) + 1) = Spent(B, k + d) + Weight(B[(k + d) + 1])
          /\ Weight(B[(k + d) + 1]) \in Nat /\ Spent(B, k + d) \in Nat /\ Spent(B, k) \in Nat
      BY <1>0, <3>1
    <3>4. Spent(B, k) <= Spent(B, k + (d + 1))
      BY <3>1, <3>2, <3>3
    <3> QED BY <3>1, <3>4
  <2>2. CASE ~(k + (d + 1) <= Len(B))
    BY <2>2
  <2> QED BY <2>1, <2>2
<1>3. S = Nat
  <2> HIDE DEF S
  <2>1. S \subseteq Nat
    BY DEF S
  <2> QED BY <1>1, <1>2, <2>1, Induction
<1>4. n - k \in Nat /\ k + (n - k) = n /\ n <= Len(B)
  BY <1>0
<1> QED BY <1>3, <1>4
(***************************************************************************)
(* What the pools hold they still hold when more was asked for.            *)
(***************************************************************************)
LEMMA HeldGrows ==
  ASSUME IInv, NEW B \in Seq(Tlvs), NEW n \in 0 .. Len(B), NEW k \in 0 .. n, Held(B, k)
  PROVE  Held(B, n)
<1>1. n \in Nat /\ \A tag, m : /\ Used(B, tag, m, n) \in Nat /\ Used(B, tag, m, k) \in Nat
                               /\ Used(B, tag, m, k) <= Used(B, tag, m, n)
  BY UsedGrows
<1>2. Spent(B, k) \in Nat /\ Spent(B, n) \in Nat /\ Spent(B, k) <= Spent(B, n)
  BY SpentGrows, SpentNext
<1>3. Len(sensor) \in Nat /\ diag_bytes \in Nat
  BY DEF IInv, PoolTypes
<1>4. PICK c \in 0 .. RingSize : c <= Used(B, "KEYREF", 0, k) /\ Turned(c)
  BY DEF Held
<1>5. c <= Used(B, "KEYREF", 0, n)
  BY <1>1, <1>4, PoolConstants
<1>6. Len(sensor) <= Used(B, "SENSOR", 1, n) /\ diag_bytes <= Spent(B, n)
  BY <1>1, <1>2, <1>3 DEF Held
<1>7. config # <<>> => Used(B, "CONFIG", 0, n) >= 1
  BY <1>1 DEF Held
<1> QED BY <1>4, <1>5, <1>6, <1>7 DEF Held

(***************************************************************************)
(* A ring that has not turned yet frees no label.                          *)
(***************************************************************************)
LEMMA RingAdvances ==
  ASSUME IInv, NEW c \in 0 .. RingSize - 1, Turned(c), NEW h,
         ring' = [ring EXCEPT ![pos] = h], pos' = (pos + 1) % RingSize
  PROVE  ring[pos] \notin live /\ c + 1 \in 0 .. RingSize /\ Turned(c + 1)'
<1>1. RingSize \in Nat /\ RingSize # 0 /\ c \in Nat /\ c < RingSize /\ pos = c
  BY PoolConstants DEF Turned
<1>2. DOMAIN ring = 0 .. RingSize - 1 /\ NULL \notin live
  BY HandleFields DEF IInv, PoolTypes, NULL, PoolKinds
<1>3. ring[pos] = NULL
  BY <1>1 DEF Turned
<1>4. pos' = c + 1 \/ (c + 1 = RingSize /\ pos' = 0)
  <2>1. CASE c + 1 = RingSize
    BY <1>1, <2>1
  <2>2. CASE c + 1 < RingSize
    BY <1>1, <2>2
  <2> QED BY <1>1, <2>1, <2>2
<1>5. ASSUME NEW j \in c + 1 .. RingSize - 1 PROVE ring'[j] = NULL
  <2>1. j \in c .. RingSize - 1 /\ j # pos /\ j \in DOMAIN ring
    BY <1>1, <1>2
  <2> QED BY <2>1 DEF Turned
<1> QED BY <1>1, <1>2, <1>3, <1>4, <1>5 DEF Turned

(***************************************************************************)
(* A blob that fits beside all the others evicts none.                     *)
(***************************************************************************)
LEMMA NoneEvicted ==
  ASSUME IInv, NEW n \in Nat, diag_bytes + n <= DiagBudget
  PROVE  DiagVictims(n) = <<>> /\ DiagKept(n) = diag /\ Bytes(DiagVictims(n)) = 0
<1>1. diag \in Seq(Handle) /\ Len(diag) \in Nat /\ diag_bytes \in Nat /\ DiagBudget \in Nat
  BY PoolConstants DEF IInv, PoolTypes
<1>2. SubSeq(diag, 1, 0) = <<>> /\ SubSeq(diag, 0 + 1, Len(diag)) = diag
  BY <1>1
<1>3. diag_bytes - Bytes(SubSeq(diag, 1, 0)) + n <= DiagBudget
  <2>1. Bytes(SubSeq(diag, 1, 0)) = 0
    BY <1>2, BytesEmpty
  <2> QED BY <1>1, <2>1
<1>4. Evicted(n) = 0
  <2> DEFINE P(e) == /\ e = Len(diag) \/ diag_bytes - Bytes(SubSeq(diag, 1, e)) + n <= DiagBudget
                     /\ \A f \in 0 .. e - 1 :
                          diag_bytes - Bytes(SubSeq(diag, 1, f)) + n > DiagBudget
  <2>1. 0 \in 0 .. Len(diag) /\ P(0)
    BY <1>1, <1>3
  <2>2. ASSUME NEW e \in 0 .. Len(diag), P(e) PROVE e = 0
    <3>1. CASE e # 0
      <4>1. 0 \in 0 .. e - 1
        BY <3>1
      <4>2. diag_bytes - Bytes(SubSeq(diag, 1, 0)) + n > DiagBudget
        BY <2>2, <4>1
      <4>3. Bytes(SubSeq(diag, 1, 0)) = 0
        BY <1>2, BytesEmpty
      <4> QED BY <1>1, <1>3, <4>2, <4>3
    <3> QED BY <3>1
  <2>3. Evicted(n) = CHOOSE e \in 0 .. Len(diag) : P(e)
    BY DEF Evicted
  <2> HIDE DEF P
  <2>4. P(Evicted(n)) /\ Evicted(n) \in 0 .. Len(diag)
    BY <2>1, <2>3
  <2> QED BY <2>2, <2>4
<1> QED BY <1>2, <1>4, BytesEmpty DEF DiagVictims, DiagKept

(***************************************************************************)
(* Within the limits a parse frees nothing, and the pools hold no more     *)
(* than what was asked for.                                                *)
(***************************************************************************)
LEMMA ParseKeeps ==
  ASSUME IInv, NEW B \in Seq(Tlvs), Fits(B), NEW n \in 0 .. Len(B) - 1, Held(B, n),
         RecordParse(B[n + 1])
  PROVE  live \subseteq live' /\ Held(B, n + 1)'
<1> DEFINE w == B[n + 1]
<1>1. /\ Len(B) \in Nat /\ n \in Nat /\ n + 1 \in 0 .. Len(B) /\ n \in 0 .. n + 1
      /\ n + 1 \in 1 .. Len(B) /\ w \in Tlvs
  OBVIOUS
<1>2. w.n \in Nat
  BY <1>1, TlvAssumption
<1>3. Held(B, n + 1)
  BY <1>1, HeldGrows
<1>4. \A tag, m : /\ Used(B, tag, m, n) \in Nat /\ Used(B, tag, m, n + 1) \in Nat
                  /\ Used(B, tag, m, Len(B)) \in Nat
                  /\ Used(B, tag, m, n + 1) <= Used(B, tag, m, Len(B))
  BY <1>1, UsedGrows
<1>5. \A tag, m : w.tag = tag /\ w.n >= m => Used(B, tag, m, n + 1) = Used(B, tag, m, n) + 1
  BY <1>1, UsedNext
<1>6. /\ Spent(B, n) \in Nat /\ Spent(B, n + 1) = Spent(B, n) + Weight(w)
      /\ Spent(B, n + 1) <= Spent(B, Len(B)) /\ Spent(B, Len(B)) \in Nat
      /\ Spent(B, n + 1) \in Nat
  <2>1. Len(B) \in 0 .. Len(B) /\ n \in 0 .. Len(B)
    BY <1>1
  <2> QED BY <1>1, <2>1, SpentNext, SpentGrows
<1>7. /\ Len(sensor) \in Nat /\ diag_bytes \in Nat /\ sensor \in Seq(Handle)
  BY PoolConstants DEF IInv, PoolTypes
<1> HIDE DEF w
<1>8. CASE UNCHANGED <<live, pools>>
  BY <1>3, <1>8 DEF Held, Turned, pools
<1>9. CASE \/ ParseFixed(w) \/ ParseLog(w) \/ ParseUnknown(w) \/ NoPayload(w)
           \/ EventOom(w) \/ KeyrefHeader(w) \/ KeyrefOversized(w)
  BY <1>8, <1>9 DEF ParseFixed, ParseLog, ParseUnknown, NoPayload, EventOom, KeyrefHeader,
                    KeyrefOversized
<1>10. CASE EventTake(w)
  <2>1. w.tag = "EVENT" /\ w.n >= 1
    BY <1>2, <1>10 DEF EventTake, CarriesPayload
  <2>2. Used(B, "EVENT", 1, n + 1) >= 1 /\ Used(B, "EVENT", 1, n + 1) <= 0
    BY <1>4, <1>5, <2>1 DEF Fits
  <2> QED BY <1>4, <2>2
<1>11. CASE SensorOom(w) \/ SensorTake(w)
  <2>1. w.tag = "SENSOR" /\ w.n >= 1
    BY <1>2, <1>11 DEF SensorOom, SensorTake, CarriesPayload
  <2>2. /\ Used(B, "SENSOR", 1, n + 1) = Used(B, "SENSOR", 1, n) + 1
        /\ Used(B, "SENSOR", 1, n + 1) <= Used(B, "SENSOR", 1, Len(B))
        /\ Used(B, "SENSOR", 1, n) \in Nat /\ Used(B, "SENSOR", 1, Len(B)) \in Nat
        /\ Used(B, "SENSOR", 1, Len(B)) <= SensorMax /\ SensorMax \in Nat
        /\ Len(sensor) <= Used(B, "SENSOR", 1, n)
    BY <1>4, <1>5, <2>1, PoolConstants DEF Fits, Held
  <2>3. Len(sensor) # SensorMax /\ Len(sensor) + 1 <= Used(B, "SENSOR", 1, n + 1)
    BY <1>7, <2>2
  <2>4. SensorKept = sensor /\ SensorFreed = {}
    BY <2>3 DEF SensorKept, SensorFreed
  <2>5. /\ live \subseteq live' /\ UNCHANGED <<event, config, diag, diag_bytes, ring, pos>>
        /\ sensor' = sensor \/ \E h : sensor' = Append(sensor, h)
    BY <1>11, <2>4 DEF SensorOom, SensorTake
  <2>6. Len(sensor') <= Used(B, "SENSOR", 1, n + 1)
    <3>1. CASE sensor' = sensor
      BY <1>3, <3>1 DEF Held
    <3>2. ASSUME NEW h, sensor' = Append(sensor, h) PROVE Len(sensor') <= Used(B, "SENSOR", 1, n + 1)
      <4>1. Len(sensor') = Len(sensor) + 1
        BY <1>7, <3>2
      <4> QED BY <2>3, <4>1
    <3> QED BY <2>5, <3>1, <3>2
  <2> QED BY <1>3, <2>5, <2>6 DEF Held, Turned
<1>12. CASE ConfigHeader(w) \/ ConfigStrings(w)
  <2>1. w.tag = "CONFIG" /\ w.n >= 0
    BY <1>2, <1>12 DEF ConfigHeader, ConfigStrings
  <2>2. /\ Used(B, "CONFIG", 0, n + 1) = Used(B, "CONFIG", 0, n) + 1
        /\ Used(B, "CONFIG", 0, n + 1) <= Used(B, "CONFIG", 0, Len(B))
        /\ Used(B, "CONFIG", 0, n) \in Nat /\ Used(B, "CONFIG", 0, Len(B)) \in Nat
        /\ Used(B, "CONFIG", 0, Len(B)) <= 1
    BY <1>4, <1>5, <2>1 DEF Fits
  <2>3. Used(B, "CONFIG", 0, n) = 0 /\ Used(B, "CONFIG", 0, n + 1) >= 1
    BY <2>2
  <2>4. config = <<>> /\ ToSet(config) = {}
    BY <2>3, EmptyOwned DEF Held
  <2>5. live \subseteq live' /\ UNCHANGED <<event, sensor, diag, diag_bytes, ring, pos>>
    BY <1>12, <2>4 DEF ConfigHeader, ConfigStrings
  <2> QED BY <1>3, <2>3, <2>5 DEF Held, Turned
<1>13. CASE DiagOom(w) \/ DiagTake(w)
  <2>1. w.tag = "DIAG"
    BY <1>13 DEF DiagOom, DiagTake, CarriesPayload
  <2>2. Weight(w) = w.n /\ diag_bytes <= Spent(B, n) /\ Spent(B, Len(B)) <= DiagBudget
    BY <2>1 DEF Weight, Held, Fits
  <2>3. diag_bytes + w.n <= Spent(B, n + 1) /\ diag_bytes + w.n <= DiagBudget
    BY <1>2, <1>6, <1>7, <2>2, PoolConstants
  <2>4. DiagVictims(w.n) = <<>> /\ Bytes(DiagVictims(w.n)) = 0 /\ ToSet(<<>>) = {}
    BY <1>2, <2>3, NoneEvicted, EmptyOwned
  <2>5. /\ live \subseteq live' /\ UNCHANGED <<event, sensor, config, ring, pos>>
        /\ diag_bytes' = diag_bytes \/ diag_bytes' = diag_bytes + w.n
    BY <1>2, <1>7, <1>13, <2>4 DEF DiagOom, DiagTake
  <2>6. diag_bytes' <= Spent(B, n + 1)
    BY <1>2, <1>6, <1>7, <2>3, <2>5
  <2> QED BY <1>3, <2>5, <2>6 DEF Held, Turned
<1>14. CASE KeyrefOom(w) \/ KeyrefLabel(w)
  <2>1. w.tag = "KEYREF" /\ w.n >= 0
    BY <1>2, <1>14 DEF KeyrefOom, KeyrefLabel
  <2>2. PICK c \in 0 .. RingSize : c <= Used(B, "KEYREF", 0, n) /\ Turned(c)
    BY DEF Held
  <2>3. c \in 0 .. RingSize - 1 /\ c + 1 <= Used(B, "KEYREF", 0, n + 1)
    <3>1. /\ Used(B, "KEYREF", 0, n + 1) = Used(B, "KEYREF", 0, n) + 1
          /\ Used(B, "KEYREF", 0, n + 1) <= Used(B, "KEYREF", 0, Len(B))
          /\ Used(B, "KEYREF", 0, n) \in Nat /\ Used(B, "KEYREF", 0, Len(B)) \in Nat
          /\ Used(B, "KEYREF", 0, Len(B)) <= RingSize /\ RingSize \in Nat
      BY <1>4, <1>5, <2>1, PoolConstants DEF Fits
    <3> QED BY <2>2, <3>1
  <2>4. PICK h : ring' = [ring EXCEPT ![pos] = h]
    BY <1>14 DEF KeyrefOom, KeyrefLabel
  <2>5. pos' = (pos + 1) % RingSize
    BY <1>14 DEF KeyrefOom, KeyrefLabel
  <2>6. ring[pos] \notin live /\ c + 1 \in 0 .. RingSize /\ Turned(c + 1)'
    BY <2>2, <2>3, <2>4, <2>5, RingAdvances
  <2>7. live \subseteq live' /\ UNCHANGED <<event, sensor, config, diag, diag_bytes>>
    BY <1>14, <2>6 DEF KeyrefOom, KeyrefLabel
  <2> QED BY <1>3, <2>3, <2>6, <2>7 DEF Held
<1>15. RecordParse(w)
  BY DEF w
<1> QED BY <1>9, <1>10, <1>11, <1>12, <1>13, <1>14, <1>15 DEF RecordParse
-----------------------------------------------------------------------------

(***************************************************************************)
(* The TLVs of c, from place base + 1 in those of a and b joined.          *)
(***************************************************************************)
PartOf(c, base, a, b) ==
  LET joined == FlattenSeq(TlvsOf(a)) \o FlattenSeq(TlvsOf(b))
      own == FlattenSeq(TlvsOf(c))
  IN  /\ joined \in Seq(Tlvs) /\ own \in Seq(Tlvs) /\ base \in Nat
      /\ base + Len(own) <= Len(joined)
      /\ \A i \in 1 .. Len(own) : joined[base + i] = own[i]

(***************************************************************************)
(* The TLVs of either container, at their places in the two joined.        *)
(***************************************************************************)
LEMMA JoinedPlaces ==
  ASSUME NEW a, NEW b, IsContainer(a), IsContainer(b)
  PROVE  PartOf(a, 0, a, b) /\ PartOf(b, Len(FlattenSeq(TlvsOf(a))), a, b)
<1>1. FlattenSeq(TlvsOf(a)) \in Seq(Tlvs) /\ FlattenSeq(TlvsOf(b)) \in Seq(Tlvs)
  BY TlvsAt, FlattenPlaces
<1>2. PICK s \in Seq(Tlvs) : s = FlattenSeq(TlvsOf(a))
  BY <1>1
<1>3. PICK t \in Seq(Tlvs) : t = FlattenSeq(TlvsOf(b))
  BY <1>1
<1>4. /\ s \o t \in Seq(Tlvs) /\ Len(s \o t) = Len(s) + Len(t)
      /\ Len(s) \in Nat /\ Len(t) \in Nat
      /\ \A i \in 1 .. Len(s) : (s \o t)[i] = s[i]
      /\ \A i \in 1 .. Len(t) : (s \o t)[Len(s) + i] = t[i]
  BY ConcatProperties
<1>5. PartOf(a, 0, a, b)
  <2>1. \A i \in 1 .. Len(s) : 0 + i = i
    BY <1>4
  <2> QED BY <1>2, <1>3, <1>4, <2>1 DEF PartOf
<1>6. PartOf(b, Len(FlattenSeq(TlvsOf(a))), a, b)
  BY <1>2, <1>3, <1>4 DEF PartOf
<1> QED BY <1>5, <1>6

(***************************************************************************)
(* WithinPools is a demand the pools can meet.                             *)
(***************************************************************************)
LEMMA WithinFits ==
  ASSUME IsContainer(pair.a), IsContainer(pair.b), WithinPools
  PROVE  Both \in Seq(Tlvs) /\ Fits(Both)
<1>1. Both \in Seq(Tlvs)
  BY JoinedPlaces DEF Both, PartOf
<1>2. PICK B \in Seq(Tlvs) : B = Both
  BY <1>1
<1>3. DOMAIN B = 1 .. Len(B)
  BY <1>2
<1>4. ASSUME NEW tag, NEW m PROVE Count(tag, m) = Used(B, tag, m, Len(B))
  BY <1>2, <1>3 DEF Count, Used, UpTo
<1>5. Total([i \in DOMAIN Both |-> IF Both[i].tag = "DIAG" THEN Both[i].n ELSE 0]) = Spent(B, Len(B))
  BY <1>2, <1>3 DEF Spent, Weight
<1> QED BY <1>1, <1>2, <1>4, <1>5 DEF WithinPools, Fits

(***************************************************************************)
(* Where a walk of the diff stands in the two containers joined.           *)
(***************************************************************************)
Base == IF cmd = "diff_b" THEN Len(FlattenSeq(TlvsOf(pair.a))) ELSE 0
Here == Base + Ahead(TlvsOf(input), si) + (IF pc = "stream" THEN ti ELSE 0)

(***************************************************************************)
(* The pools as the process starts with them.                              *)
(***************************************************************************)
PoolsEmpty == /\ event = <<>> /\ sensor = <<>> /\ config = <<>> /\ diag_bytes = 0
              /\ ring = [i \in 0 .. RingSize - 1 |-> NULL] /\ pos = 0

Stages == /\ walks \in Nat
          /\ walks = 0 => PoolsEmpty /\ pc = "idle" /\ cmd = "none"
          /\ cmd = "diff_a" => walks >= 1
          /\ cmd = "diff_b" => walks >= 2
          /\ cmd = "diff" => pc = "done"

(***************************************************************************)
(* While the first diff of a process walks containers that fit the pools,  *)
(* no copy it has made points to freed memory.                             *)
(***************************************************************************)
FirstDiff == \/ cmd = "diff_a" /\ walks = 1 /\ input = pair.a
             \/ cmd = "diff_b" /\ walks = 2 /\ input = pair.b

AllLive(copies) == \A i \in DOMAIN copies : copies[i].refs \subseteq live

Watched == /\ cmd \in {"diff_a", "diff_b"} /\ walks <= (IF cmd = "diff_a" THEN 1 ELSE 2)
           /\ pc = "done" => ret = "OK"
           /\ WithinPools

Comparing ==
  Watched => /\ FirstDiff /\ si <= Len(input.sections)
             /\ Held(Both, Here)
             /\ AllLive(delivered) /\ (cmd = "diff_b" => AllLive(va))

DiffInv == Stages /\ Comparing /\ DiffExactWithinPools

(***************************************************************************)
(* What the position is made of.                                           *)
(***************************************************************************)
LEMMA PositionKnown ==
  ASSUME CmdInv, FirstDiff, si <= Len(input.sections)
  PROVE  /\ Both \in Seq(Tlvs) /\ Base \in Nat /\ si \in Nat /\ ti \in Nat
         /\ Len(input.sections) \in Nat
         /\ \A k \in 0 .. Len(input.sections) :
              Ahead(TlvsOf(input), k) \in Nat /\ Base + Ahead(TlvsOf(input), k) <= Len(Both)
         /\ si < Len(input.sections) =>
              /\ Section.tlvs \in Seq(Tlvs)
              /\ Ahead(TlvsOf(input), si + 1) = Ahead(TlvsOf(input), si) + Len(Section.tlvs)
              /\ \A i \in 1 .. Len(Section.tlvs) :
                   Both[Base + Ahead(TlvsOf(input), si) + i] = Section.tlvs[i]
<1>1. /\ IsContainer(input) /\ IsContainer(pair.a) /\ IsContainer(pair.b)
      /\ si \in Nat /\ ti \in Nat /\ Len(input.sections) \in Nat
  BY SectionsOf DEF CmdInv, WInv, WalkTypes
<1>2. \/ input = pair.a /\ Base = 0
      \/ input = pair.b /\ Base = Len(FlattenSeq(TlvsOf(pair.a)))
  BY DEF FirstDiff, Base
<1>3. PICK q : q = TlvsOf(input)
  OBVIOUS
<1>4. PICK own : own = FlattenSeq(q)
  OBVIOUS
<1>5. PICK B : B = Both
  OBVIOUS
<1>6. PICK d : d = Base
  OBVIOUS
<1>7. /\ B \in Seq(Tlvs) /\ own \in Seq(Tlvs) /\ d \in Nat /\ d + Len(own) <= Len(B)
      /\ \A i \in 1 .. Len(own) : B[d + i] = own[i]
  <2>1. PartOf(input, Base, pair.a, pair.b)
    BY <1>1, <1>2, JoinedPlaces
  <2> QED BY <1>3, <1>4, <1>5, <1>6, <2>1 DEF PartOf, Both
<1>8. /\ q \in Seq(Seq(Tlvs)) /\ Len(q) = Len(input.sections)
      /\ si < Len(input.sections) => q[si + 1] = Section.tlvs
  BY <1>1, <1>3, TlvsAt DEF Section
<1>9. /\ \A k \in 0 .. Len(q) : Ahead(q, k) \in Nat
      /\ \A k \in 0 .. Len(q) - 1 : Ahead(q, k + 1) = Ahead(q, k) + Len(q[k + 1])
      /\ Len(own) = Ahead(q, Len(q))
      /\ \A k \in 0 .. Len(q) - 1 : \A j \in 1 .. Len(q[k + 1]) : own[Ahead(q, k) + j] = q[k + 1][j]
  BY <1>4, <1>8, AheadNext, FlattenPlaces
<1>10. \A k \in 0 .. Len(q) : d + Ahead(q, k) <= Len(B)
  <2> TAKE k \in 0 .. Len(q)
  <2>1. Len(q) \in k .. Len(q) /\ Len(q) \in 0 .. Len(q) /\ Len(B) \in Nat
    BY <1>7, <1>8
  <2>2. Ahead(q, k) <= Ahead(q, Len(q))
    BY <1>8, <2>1, AheadGrows
  <2> QED BY <1>7, <1>9, <2>1, <2>2
<1>11. ASSUME si < Len(input.sections)
       PROVE  /\ Section.tlvs \in Seq(Tlvs)
              /\ Ahead(q, si + 1) = Ahead(q, si) + Len(Section.tlvs)
              /\ \A i \in 1 .. Len(Section.tlvs) : B[d + Ahead(q, si) + i] = Section.tlvs[i]
  <2>1. si \in 0 .. Len(q) - 1 /\ si \in 0 .. Len(q) /\ si + 1 \in 0 .. Len(q) /\ si + 1 \in 1 .. Len(q)
    BY <1>1, <1>8, <1>11
  <2>2. PICK u : u = Section.tlvs /\ u = q[si + 1]
    BY <1>8, <1>11
  <2>3. u \in Seq(Tlvs) /\ Len(u) \in Nat
    BY <1>8, <2>1, <2>2
  <2>4. /\ Ahead(q, si + 1) = Ahead(q, si) + Len(u) /\ Ahead(q, si) \in Nat
        /\ Ahead(q, si + 1) \in Nat /\ d + Ahead(q, si + 1) <= Len(B)
        /\ \A j \in 1 .. Len(u) : own[Ahead(q, si) + j] = u[j]
    BY <1>9, <1>10, <2>1, <2>2
  <2>5. Ahead(q, si + 1) <= Len(own)
    <3>1. Len(q) \in si + 1 .. Len(q)
      BY <2>1
    <3> QED BY <1>8, <1>9, <2>1, <3>1, AheadGrows
  <2>6. ASSUME NEW i \in 1 .. Len(u) PROVE B[d + Ahead(q, si) + i] = u[i]
    <3>1. Ahead(q, si) + i \in 1 .. Len(own) /\ d + Ahead(q, si) + i = d + (Ahead(q, si) + i)
      BY <1>7, <2>3, <2>4, <2>5
    <3>2. B[d + (Ahead(q, si) + i)] = own[Ahead(q, si) + i]
      BY <1>7, <3>1
    <3> QED BY <2>4, <3>1, <3>2
  <2> QED BY <2>2, <2>3, <2>4, <2>6
<1> QED BY <1>1, <1>3, <1>5, <1>6, <1>7, <1>8, <1>9, <1>10, <1>11
-----------------------------------------------------------------------------

(***************************************************************************)
(* Untouched pools hold nothing.                                           *)
(***************************************************************************)
LEMMA EmptyHolds ==
  ASSUME PoolsEmpty, NEW B \in Seq(Tlvs)
  PROVE  Held(B, 0)
<1>1. \A tag, m : Used(B, tag, m, 0) \in Nat
  <2>1. 0 \in Nat /\ 0 \in 0 .. 0
    OBVIOUS
  <2> QED BY <2>1, UsedGrows
<1>2. Spent(B, 0) \in Nat
  <2>1. 0 \in 0 .. Len(B)
    OBVIOUS
  <2> QED BY <2>1, SpentNext
<1>3. Turned(0) /\ 0 \in 0 .. RingSize
  BY PoolConstants DEF PoolsEmpty, Turned
<1>4. Len(<<>>) = 0
  OBVIOUS
<1> QED BY <1>1, <1>2, <1>3, <1>4 DEF PoolsEmpty, Held

(***************************************************************************)
(* A command that is not a diff, or a diff that returns before it has      *)
(* walked, begins.                                                         *)
(***************************************************************************)
LEMMA OtherBegins ==
  ASSUME CmdInv, DiffInv,
         WalkBegins \/ QueryRefused \/ EmitReadFails \/ EmitBegins \/ DiffReadFails
  PROVE  DiffInv'
<1>1. Enter /\ cmd' \in {"walk", "emit", "diff"}
  BY DEF WalkBegins, QueryRefused, EmitReadFails, EmitBegins, DiffReadFails, AbsorbFails, Begin,
         WalkMemory, Start
<1>2. walks \in Nat /\ walks' = walks + 1
  BY <1>1 DEF Enter, DiffInv, Stages
<1>3. cmd' = "diff" => pc' = "done" /\ ret' # "OK"
  BY DEF WalkBegins, QueryRefused, EmitReadFails, EmitBegins, DiffReadFails, AbsorbFails, Start
<1>4. Stages'
  BY <1>1, <1>2, <1>3 DEF Stages
<1> QED BY <1>1, <1>3, <1>4 DEF DiffInv, Comparing, Watched, DiffExactWithinPools

(***************************************************************************)
(* The first walk of a diff begins.                                        *)
(***************************************************************************)
LEMMA FirstWalkBegins ==
  ASSUME CmdInv, DiffInv, DiffBegins, CmdInv'
  PROVE  DiffInv'
<1>1. PICK d \in DiffInputs : WalkMemory(d.a) /\ Start("diff_a", "none", d)
  BY DEF DiffBegins
<1>2. /\ walks \in Nat /\ walks' = walks + 1 /\ cmd' = "diff_a" /\ input' = pair'.a
      /\ si' = 0 /\ delivered' = <<>> /\ UNCHANGED poolVars
      /\ \/ pc' = "section"
         \/ pc' = "done" /\ ret' # "OK"
  BY <1>1 DEF WalkMemory, Start, Enter, DiffInv, Stages
<1>3. Stages'
  BY <1>2 DEF Stages
<1>4. ASSUME Watched' PROVE FirstDiff' /\ (si <= Len(input.sections))' /\ Held(Both, Here)'
                            /\ AllLive(delivered)' /\ (cmd' = "diff_b" => AllLive(va)')
  <2>1. walks' = 1 /\ walks = 0 /\ pc' = "section" /\ FirstDiff'
    BY <1>2, <1>4 DEF Watched, FirstDiff
  <2>2. PoolsEmpty
    BY <1>2, <2>1 DEF DiffInv, Stages
  <2>3. IsContainer(pair.a)' /\ IsContainer(pair.b)' /\ IsContainer(input)'
    BY DEF CmdInv, WInv, WalkTypes
  <2>4. (Len(input.sections) \in Nat)'
    BY <2>3, SectionsOf
  <2>5. Both' \in Seq(Tlvs)
    BY <2>3, JoinedPlaces DEF Both, PartOf
  <2>6. Here' = 0
    <3>1. TlvsOf(input') \in Seq(Seq(Tlvs))
      BY <2>3, TlvsAt
    <3>2. Ahead(TlvsOf(input'), 0) = 0
      BY <3>1, AheadNext
    <3> QED BY <1>2, <2>1, <3>2 DEF Here, Base
  <2>7. Held(Both, Here)'
    <3>1. PICK B \in Seq(Tlvs) : B = Both'
      BY <2>5
    <3>2. Held(B, 0)
      BY <2>2, EmptyHolds
    <3>3. Held(B, 0)'
      BY <1>2, <3>2 DEF Held, Turned, poolVars
    <3> QED BY <2>6, <3>1, <3>3
  <2>8. AllLive(delivered)'
    BY <1>2 DEF AllLive
  <2> QED BY <1>2, <2>1, <2>4, <2>7, <2>8
<1> QED BY <1>2, <1>3, <1>4 DEF DiffInv, Comparing, DiffExactWithinPools

(***************************************************************************)
(* The second walk begins, with the copies of the first in va.             *)
(***************************************************************************)
LEMMA SecondWalkBegins ==
  ASSUME CmdInv, DiffInv, DiffSecond, CmdInv'
  PROVE  DiffInv'
<1>1. /\ walks \in Nat /\ walks' = walks + 1 /\ cmd = "diff_a" /\ cmd' = "diff_b" /\ pair' = pair
      /\ input' = pair.b /\ si' = 0 /\ delivered' = <<>> /\ va' = delivered
      /\ UNCHANGED poolVars /\ pc = "done" /\ ret = "OK"
      /\ \/ pc' = "section"
         \/ pc' = "done" /\ ret' # "OK"
  BY DEF DiffSecond, WalkMemory, Enter, DiffInv, Stages
<1>2. Stages'
  BY <1>1 DEF Stages, DiffInv
<1>3. ASSUME Watched' PROVE FirstDiff' /\ (si <= Len(input.sections))' /\ Held(Both, Here)'
                            /\ AllLive(delivered)' /\ (cmd' = "diff_b" => AllLive(va)')
  <2>1. walks' = 2 /\ walks = 1 /\ pc' = "section" /\ FirstDiff' /\ WithinPools'
    BY <1>1, <1>2, <1>3 DEF Watched, FirstDiff, Stages
  <2>2. Both' = Both /\ WithinPools
    BY <1>1, <2>1 DEF Both, WithinPools, Count
  <2>3. /\ FirstDiff /\ si <= Len(input.sections) /\ Held(Both, Here) /\ AllLive(delivered)
    BY <1>1, <2>1, <2>2 DEF DiffInv, Comparing, Watched
  <2>4. /\ Both \in Seq(Tlvs) /\ si \in Nat /\ Len(input.sections) \in Nat /\ Base = 0
        /\ \A k \in 0 .. Len(input.sections) :
             Ahead(TlvsOf(input), k) \in Nat /\ Base + Ahead(TlvsOf(input), k) <= Len(Both)
    BY <1>1, <2>3, PositionKnown DEF Base
  <2>5. Here = Ahead(TlvsOf(input), si) /\ Here \in Nat
    BY <1>1, <2>3, <2>4 DEF Here
  <2>6. IsContainer(pair.a) /\ IsContainer(input') /\ input = pair.a
    BY <1>1, <2>3 DEF CmdInv, WInv, WalkTypes, FirstDiff
  <2>7. PICK q \in Seq(Seq(Tlvs)) : q = TlvsOf(pair.a) /\ Len(q) = Len(input.sections)
    BY <2>6, TlvsAt
  <2>8. Len(FlattenSeq(q)) = Ahead(q, Len(q)) /\ Ahead(q, si) <= Ahead(q, Len(q))
    <3>1. si \in 0 .. Len(q) /\ Len(q) \in si .. Len(q)
      BY <2>3, <2>4, <2>7
    <3> QED BY <3>1, AheadGrows, FlattenPlaces
  <2>9. Here' = Ahead(q, Len(q))
    <3>1. TlvsOf(input') \in Seq(Seq(Tlvs))
      BY <2>6, TlvsAt
    <3>2. Ahead(TlvsOf(input'), 0) = 0
      BY <3>1, AheadNext
    <3>3. Ahead(q, Len(q)) \in Nat
      BY <2>4, <2>6, <2>7
    <3>4. Base' = Ahead(q, Len(q))
      BY <1>1, <2>7, <2>8 DEF Base
    <3> QED BY <1>1, <2>1, <3>2, <3>3, <3>4 DEF Here
  <2>10. PICK m \in 0 .. Len(Both) : m = Ahead(q, Len(q)) /\ Here \in 0 .. m
    BY <2>4, <2>5, <2>6, <2>7, <2>8
  <2>11. Held(Both, m)
    BY <2>3, <2>4, <2>10, HeldGrows DEF CmdInv
  <2>12. Held(Both, Here)'
    <3>1. PICK B : B = Both
      OBVIOUS
    <3>2. Held(B, m)
      BY <2>11, <3>1
    <3>3. Held(B, m)'
      BY <1>1, <3>2 DEF Held, Turned, poolVars
    <3>4. Both' = B /\ Here' = m
      BY <2>2, <2>9, <2>10, <3>1
    <3> QED BY <3>3, <3>4
  <2>13. AllLive(delivered)' /\ AllLive(va)'
    BY <1>1, <2>3 DEF AllLive, poolVars
  <2>14. (si <= Len(input.sections))'
    BY <1>1, <2>6, SectionsOf
  <2> QED BY <2>1, <2>12, <2>13, <2>14
<1> QED BY <1>1, <1>2, <1>3 DEF DiffInv, Comparing, DiffExactWithinPools
(***************************************************************************)
(* A step of a walk.                                                       *)
(***************************************************************************)
LEMMA InAWalk ==
  ASSUME CmdInv, DiffInv, WalkSteps
  PROVE  /\ pc \in {"section", "stream"} /\ UNCHANGED <<walks, input, cmd, pair, va>>
         /\ Both' = Both /\ Base' = Base /\ Stages' /\ DiffExactWithinPools'
         /\ FirstDiff => FirstDiff'
         /\ Watched' => Watched
<1>1. pc \in {"section", "stream"} /\ UNCHANGED <<walks, input>>
  BY DEF WalkSteps, Step, SkipSection, SectionOom, OpenSection, ParseFails, Deliver,
         DeliverAborts, StreamEnds, Finish
<1>2. UNCHANGED <<cmd, pair, va>>
  BY DEF WalkSteps, cmdVars
<1>3. Both' = Both /\ Base' = Base /\ (FirstDiff => FirstDiff')
  BY <1>1, <1>2 DEF Both, Base, FirstDiff
<1>4. walks # 0 /\ cmd # "diff"
  BY <1>1 DEF DiffInv, Stages
<1>5. Stages' /\ DiffExactWithinPools'
  BY <1>1, <1>2, <1>4 DEF DiffInv, Stages, DiffExactWithinPools
<1>6. WithinPools' => WithinPools
  BY <1>3 DEF WithinPools, Count
<1>7. Watched' => Watched
  BY <1>1, <1>2, <1>6 DEF Watched
<1> QED BY <1>1, <1>2, <1>3, <1>5, <1>7

(***************************************************************************)
(* What a step of a watched walk has to show.                              *)
(***************************************************************************)
LEMMA StillComparing ==
  ASSUME CmdInv, DiffInv, WalkSteps, NEW n,
         Watched' => /\ si' <= Len(input.sections) /\ Here' = n /\ Held(Both, n)'
                     /\ AllLive(delivered)' /\ live \subseteq live'
  PROVE  DiffInv'
<1>1. /\ UNCHANGED <<walks, input, cmd, pair, va>> /\ Both' = Both /\ Stages'
      /\ DiffExactWithinPools' /\ (FirstDiff => FirstDiff') /\ (Watched' => Watched)
  BY InAWalk
<1>2. ASSUME Watched' PROVE FirstDiff' /\ (si <= Len(input.sections))' /\ Held(Both, Here)'
                            /\ AllLive(delivered)' /\ (cmd' = "diff_b" => AllLive(va)')
  <2>1. FirstDiff /\ (cmd = "diff_b" => AllLive(va))
    BY <1>1, <1>2 DEF DiffInv, Comparing
  <2>2. /\ si' <= Len(input.sections) /\ Here' = n /\ Held(Both, n)' /\ AllLive(delivered)'
        /\ live \subseteq live'
    BY <1>2
  <2>3. cmd' = "diff_b" => AllLive(va)'
    BY <1>1, <2>1, <2>2 DEF AllLive
  <2>4. Held(Both, Here)'
    BY <2>2
  <2> QED BY <1>1, <2>1, <2>2, <2>3, <2>4
<1> QED BY <1>1, <1>2 DEF DiffInv, Comparing

(***************************************************************************)
(* The walk moves on without a parse.                                      *)
(***************************************************************************)
LEMMA DiffMoves ==
  ASSUME CmdInv, DiffInv, WalkSteps,
         SkipSection \/ SectionOom \/ OpenSection \/ StreamEnds \/ Finish
  PROVE  DiffInv'
<1> DEFINE A(k) == Ahead(TlvsOf(input), k)
<1>1. /\ pc \in {"section", "stream"} /\ input' = input /\ Both' = Both /\ Base' = Base
      /\ Watched' => Watched
  BY InAWalk
<1>2. ASSUME Watched'
      PROVE  /\ si' <= Len(input.sections) /\ Here' \in 0 .. Len(Both) /\ Here \in 0 .. Here'
             /\ live' = live /\ delivered' = delivered
             /\ UNCHANGED <<event, sensor, config, diag_bytes, ring, pos>>
  <2>1. FirstDiff /\ si <= Len(input.sections) /\ Held(Both, Here)
    BY <1>1, <1>2 DEF DiffInv, Comparing
  <2>2. /\ Both \in Seq(Tlvs) /\ Base \in Nat /\ si \in Nat /\ ti \in Nat
        /\ Len(input.sections) \in Nat
        /\ \A k \in 0 .. Len(input.sections) : A(k) \in Nat /\ Base + A(k) <= Len(Both)
        /\ si < Len(input.sections) => /\ Section.tlvs \in Seq(Tlvs)
                                       /\ A(si + 1) = A(si) + Len(Section.tlvs)
    BY <2>1, PositionKnown
  <2>3. Here = Base + A(si) + (IF pc = "stream" THEN ti ELSE 0)
    BY DEF Here
  <2>4. Here' = Base + A(si') + (IF pc' = "stream" THEN ti' ELSE 0)
    BY <1>1 DEF Here
  <2>5. /\ pc = "stream" => si < Len(input.sections)
    BY Walking
  <2>6. Len(Both) \in Nat /\ si \in 0 .. Len(input.sections)
        /\ (si < Len(input.sections) => si + 1 \in 0 .. Len(input.sections) /\ Len(Section.tlvs) \in Nat)
    BY <2>1, <2>2
  <2> HIDE DEF A
  <2>7. ASSUME si < Len(input.sections)
        PROVE  /\ Base + A(si + 1) \in 0 .. Len(Both)
               /\ Base + A(si) \in 0 .. Base + A(si + 1)
               /\ Base + A(si) + Len(Section.tlvs) \in 0 .. Base + A(si + 1)
    <3>1. PICK x \in Nat : x = A(si)
      BY <2>2, <2>6
    <3>2. PICK y \in Nat : y = A(si + 1)
      BY <2>2, <2>6, <2>7
    <3>3. PICK l \in Nat : l = Len(Section.tlvs)
      BY <2>6, <2>7
    <3>4. y = x + l /\ Base + y <= Len(Both)
      BY <2>2, <2>6, <2>7, <3>1, <3>2, <3>3
    <3>5. PICK d \in Nat : d = Base
      BY <2>2
    <3>6. PICK n \in Nat : n = Len(Both)
      BY <2>6
    <3>7. d + y \in 0 .. n /\ d + x \in 0 .. d + y /\ d + x + l \in 0 .. d + y
      BY <3>4, <3>5, <3>6
    <3> QED BY <3>1, <3>2, <3>3, <3>5, <3>6, <3>7
  <2>8. CASE SkipSection
    <3>1. pc = "section" /\ pc' = "section" /\ si < Len(input.sections) /\ si' = si + 1
      BY <2>8 DEF SkipSection
    <3>2. /\ live' = live /\ delivered' = delivered
          /\ UNCHANGED <<event, sensor, config, diag_bytes, ring, pos>>
      BY <2>8 DEF SkipSection, poolVars
    <3>3. Here = Base + A(si) /\ Here' = Base + A(si + 1)
      BY <2>2, <2>3, <2>4, <2>6, <3>1
    <3>4. Here' \in 0 .. Len(Both) /\ Here \in 0 .. Here'
      BY <2>7, <3>1, <3>3
    <3> QED BY <2>6, <3>1, <3>2, <3>4
  <2>9. CASE OpenSection
    <3>1. pc = "section" /\ pc' = "stream" /\ si < Len(input.sections) /\ si' = si /\ ti' = 0
      BY <2>9 DEF OpenSection
    <3>2. /\ live' = live /\ delivered' = delivered
          /\ UNCHANGED <<event, sensor, config, diag_bytes, ring, pos>>
      BY <2>9 DEF OpenSection, poolVars
    <3> QED BY <2>1, <2>2, <2>3, <2>4, <2>6, <3>1, <3>2
  <2>10. CASE Finish
    <3>1. pc = "section" /\ pc' = "done" /\ si' = si
      BY <2>10 DEF Finish
    <3>2. /\ live' = live /\ delivered' = delivered
          /\ UNCHANGED <<event, sensor, config, diag_bytes, ring, pos>>
      BY <2>10 DEF Finish, poolVars
    <3> QED BY <2>1, <2>2, <2>3, <2>4, <2>6, <3>1, <3>2
  <2>11. CASE StreamEnds
    <3>1. pc = "stream" /\ pc' = "section" /\ si' = si + 1 /\ ti = Len(Section.tlvs)
          /\ delivered' = delivered /\ EventPoolRelease
      BY <2>11 DEF StreamEnds
    <3>2. event = <<>> /\ ToSet(event) = {}
      BY <2>1, EmptyOwned DEF Held
    <3>3. live' = live /\ UNCHANGED <<event, sensor, config, diag_bytes, ring, pos>>
      BY <3>1, <3>2 DEF EventPoolRelease
    <3>4. Here = Base + A(si) + Len(Section.tlvs) /\ Here' = Base + A(si + 1)
      BY <2>2, <2>3, <2>4, <2>5, <2>6, <3>1
    <3>5. Here' \in 0 .. Len(Both) /\ Here \in 0 .. Here'
      BY <2>5, <2>7, <3>1, <3>4
    <3> QED BY <2>5, <2>6, <3>1, <3>3, <3>5
  <2>12. CASE SectionOom
    BY <1>2, <2>12 DEF SectionOom, Watched
  <2> QED BY <2>8, <2>9, <2>10, <2>11, <2>12
<1>3. PICK n : n = Here'
  OBVIOUS
<1>4. ASSUME Watched'
      PROVE  /\ si' <= Len(input.sections) /\ Here' = n /\ Held(Both, n)'
             /\ AllLive(delivered)' /\ live \subseteq live'
  <2>1. FirstDiff /\ si <= Len(input.sections) /\ Held(Both, Here) /\ AllLive(delivered)
    BY <1>1, <1>4 DEF DiffInv, Comparing
  <2>2. Both \in Seq(Tlvs)
    BY <2>1, PositionKnown
  <2>3. PICK B \in Seq(Tlvs) : B = Both
    BY <2>2
  <2>4. Held(B, n)
    BY <1>2, <1>3, <1>4, <2>1, <2>3, HeldGrows DEF CmdInv
  <2>5. Held(B, n)'
    BY <1>2, <1>4, <2>4 DEF Held, Turned
  <2>6. Held(Both, n)'
    BY <1>1, <2>3, <2>5
  <2>7. AllLive(delivered)'
    BY <1>2, <1>4, <2>1 DEF AllLive
  <2> QED BY <1>2, <1>3, <1>4, <2>6, <2>7
<1> QED BY <1>4, StillComparing

(***************************************************************************)
(* A record is parsed and copied, or refused: nothing is freed.            *)
(***************************************************************************)
LEMMA DiffParses ==
  ASSUME CmdInv, DiffInv, WalkSteps, ParseFails \/ Deliver \/ DeliverAborts, CmdInv'
  PROVE  DiffInv'
<1>1. /\ pc = "stream" /\ input' = input /\ Both' = Both /\ Base' = Base
      /\ Watched' => Watched
  BY InAWalk DEF ParseFails, Deliver, DeliverAborts
<1>2. /\ ti < Len(Section.tlvs) /\ RecordParse(Section.tlvs[ti + 1]) /\ si' = si /\ ti' = ti + 1
      /\ \/ pc' = "stream"
         \/ pc' = "done" /\ ret' # "OK"
      /\ delivered' = delivered \/ delivered' = Append(delivered, Handover)
  BY <1>1 DEF ParseFails, Deliver, DeliverAborts, Handover
<1>3. PICK n : n = Here'
  OBVIOUS
<1>4. ASSUME Watched'
      PROVE  /\ si' <= Len(input.sections) /\ Here' = n /\ Held(Both, n)'
             /\ AllLive(delivered)' /\ live \subseteq live'
  <2>1. /\ FirstDiff /\ si <= Len(input.sections) /\ Held(Both, Here) /\ AllLive(delivered)
        /\ WithinPools /\ pc' = "stream"
    BY <1>1, <1>2, <1>4 DEF DiffInv, Comparing, Watched
  <2>2. si < Len(input.sections)
    BY <1>1, Walking
  <2>3. PICK p : p = Base + Ahead(TlvsOf(input), si)
    OBVIOUS
  <2>4. /\ Both \in Seq(Tlvs) /\ ti \in Nat /\ Section.tlvs \in Seq(Tlvs)
        /\ p \in Nat /\ p + Len(Section.tlvs) <= Len(Both)
        /\ Both[p + (ti + 1)] = Section.tlvs[ti + 1]
    <3>1. /\ Both \in Seq(Tlvs) /\ Base \in Nat /\ si \in Nat /\ ti \in Nat
          /\ Len(input.sections) \in Nat
          /\ \A k \in 0 .. Len(input.sections) :
               Ahead(TlvsOf(input), k) \in Nat /\ Base + Ahead(TlvsOf(input), k) <= Len(Both)
          /\ Section.tlvs \in Seq(Tlvs)
          /\ Ahead(TlvsOf(input), si + 1) = Ahead(TlvsOf(input), si) + Len(Section.tlvs)
          /\ \A i \in 1 .. Len(Section.tlvs) :
               Both[Base + Ahead(TlvsOf(input), si) + i] = Section.tlvs[i]
      BY <2>1, <2>2, PositionKnown
    <3>2. /\ si \in 0 .. Len(input.sections) /\ si + 1 \in 0 .. Len(input.sections)
          /\ Len(Section.tlvs) \in Nat /\ Len(Both) \in Nat
      BY <2>2, <3>1
    <3>3. ti + 1 \in 1 .. Len(Section.tlvs)
      BY <1>2, <3>1, <3>2
    <3>4. /\ Ahead(TlvsOf(input), si) \in Nat /\ Ahead(TlvsOf(input), si + 1) \in Nat
          /\ Base + Ahead(TlvsOf(input), si + 1) <= Len(Both)
      BY <3>1, <3>2
    <3>5. p \in Nat /\ p + Len(Section.tlvs) <= Len(Both)
      BY <2>3, <3>1, <3>2, <3>4
    <3>6. Both[p + (ti + 1)] = Section.tlvs[ti + 1]
      BY <2>3, <3>1, <3>3
    <3> QED BY <3>1, <3>5, <3>6
  <2>5. PICK B \in Seq(Tlvs) : B = Both
    BY <2>4
  <2>6. PICK m \in 0 .. Len(B) - 1 : m = p + ti /\ m + 1 = p + (ti + 1)
    <3>1. Len(Section.tlvs) \in Nat /\ Len(B) \in Nat
      BY <2>4, <2>5
    <3>2. p + ti \in 0 .. Len(B) - 1 /\ (p + ti) + 1 = p + (ti + 1)
      BY <1>2, <2>4, <2>5, <3>1
    <3> QED BY <3>2
  <2>7. Here = m /\ Here' = m + 1
    <3>1. Here = p + ti
      BY <1>1, <2>3 DEF Here
    <3>2. Here' = p + (ti + 1)
      BY <1>1, <1>2, <2>1, <2>3 DEF Here
    <3> QED BY <2>6, <3>1, <3>2
  <2>8. Fits(B) /\ IInv
    BY <2>1, <2>5, WithinFits DEF CmdInv, WInv, WalkTypes
  <2>9. Held(B, m) /\ RecordParse(B[m + 1])
    BY <1>2, <2>1, <2>4, <2>5, <2>6, <2>7
  <2>10. live \subseteq live' /\ Held(B, m + 1)'
    BY <2>8, <2>9, ParseKeeps
  <2>11. Held(Both, n)'
    BY <1>1, <1>3, <2>5, <2>7, <2>10
  <2>12. AllLive(delivered)'
    <3>1. out'.refs \subseteq live'
      BY DEF CmdInv, IInv, CurrentRecordLive
    <3>2. CASE delivered' = delivered
      BY <2>1, <2>10, <3>2 DEF AllLive
    <3>3. CASE delivered' = Append(delivered, Handover)
      <4>5. PICK e : e = Handover
        OBVIOUS
      <4>6. e.refs = out'.refs
        BY <4>5 DEF Handover
      <4>1. delivered \in Seq(Delivery)
        BY DEF CmdInv, WInv, WalkTypes
      <4>2. PICK k \in Nat : k = Len(delivered) /\ DOMAIN delivered = 1 .. k
        BY <4>1
      <4>3. /\ DOMAIN delivered' = 1 .. k + 1 /\ delivered'[k + 1] = e
            /\ \A j \in 1 .. k : delivered'[j] = delivered[j]
        BY <3>3, <4>5, <4>1, <4>2
      <4>4. \A j \in 1 .. k + 1 : j \in 1 .. k \/ j = k + 1
        OBVIOUS
      <4> QED BY <2>1, <2>10, <3>1, <4>6, <4>2, <4>3, <4>4 DEF AllLive
    <3> QED BY <1>2, <3>2, <3>3
  <2> QED BY <1>2, <1>3, <2>1, <2>10, <2>11, <2>12
<1> QED BY <1>4, StillComparing
(***************************************************************************)
(* Two copies whose payloads are live are compared by what was on the wire. *)
(***************************************************************************)
LEMMA ComparesTruly ==
  ASSUME NEW d, NEW e, d.refs \subseteq live, e.refs \subseteq live,
         NEW x \in BOOLEAN, x \in RecordCompare(d, e)
  PROVE  x <=> Differ(d.tlv, e.tlv)
<1>1. PICK v : v = d.tlv
  OBVIOUS
<1>2. PICK w : w = e.tlv
  OBVIOUS
<1>3. ~Stale(d) /\ ~Stale(e)
  BY DEF Stale
<1>4. CASE v.tag # w.tag \/ v.id # w.id
  <2>1. RecordCompare(d, e) = {TRUE}
    BY <1>1, <1>2, <1>4 DEF RecordCompare
  <2> QED BY <1>1, <1>2, <1>4, <2>1 DEF Differ
<1>5. CASE v.tag = w.tag /\ v.id = w.id /\ v.tag = "KEYREF" /\ pair.ignore
  <2>1. v.tag \notin Sized
    BY <1>5 DEF Sized
  <2>2. RecordCompare(d, e) = {FALSE}
    BY <1>1, <1>2, <1>5, <2>1 DEF RecordCompare
  <2> QED BY <1>1, <1>2, <1>5, <2>1, <2>2 DEF Differ
<1>6. CASE v.tag = w.tag /\ v.id = w.id /\ v.tag \in Sized /\ v.n # w.n
  <2>1. RecordCompare(d, e) = {TRUE}
    <3>1. v.tag # "KEYREF"
      BY <1>6 DEF Sized
    <3> QED BY <1>1, <1>2, <1>6, <3>1 DEF RecordCompare
  <2> QED BY <1>1, <1>2, <1>6, <2>1 DEF Differ
<1>7. CASE /\ v.tag = w.tag /\ v.id = w.id /\ ~(v.tag = "KEYREF" /\ pair.ignore)
           /\ ~(v.tag \in Sized /\ v.n # w.n)
  <2>1. RecordCompare(d, e) = {~SamePayload(v, w)}
    BY <1>1, <1>2, <1>3, <1>7 DEF RecordCompare
  <2> QED BY <1>1, <1>2, <1>7, <2>1 DEF Differ, SamePayload
<1> QED BY <1>4, <1>5, <1>6, <1>7

(***************************************************************************)
(* The comparison.                                                         *)
(***************************************************************************)
LEMMA ComparesStep ==
  ASSUME CmdInv, DiffInv, DiffCompares
  PROVE  DiffInv'
<1>1. /\ cmd = "diff_b" /\ pc = "done" /\ ret = "OK" /\ cmd' = "diff"
      /\ UNCHANGED <<vars, pair, va>>
  BY DEF DiffCompares
<1>2. UNCHANGED <<pc, ret, walks, delivered>>
  BY <1>1 DEF vars, walkVars
<1>3. walks # 0 /\ Stages'
  BY <1>1, <1>2 DEF DiffInv, Stages
<1>4. ASSUME walks = 2, WithinPools
      PROVE  diffs' = Cardinality({i \in Common(va, delivered) : Differ(va[i].tlv, delivered[i].tlv)})
                      + Tails(va, delivered)
  <2>1. AllLive(va) /\ AllLive(delivered)
    BY <1>1, <1>4 DEF DiffInv, Comparing, Watched
  <2>2. PICK answer \in [Common(va, delivered) -> BOOLEAN] :
          /\ \A i \in DOMAIN answer : answer[i] \in RecordCompare(va[i], delivered[i])
          /\ diffs' = Cardinality({i \in DOMAIN answer : answer[i]}) + Tails(va, delivered)
    BY DEF DiffCompares
  <2>3. ASSUME NEW i \in Common(va, delivered)
        PROVE  answer[i] <=> Differ(va[i].tlv, delivered[i].tlv)
    <3>1. va[i].refs \subseteq live /\ delivered[i].refs \subseteq live
      BY <2>1 DEF AllLive, Common
    <3> QED BY <2>2, <3>1, ComparesTruly
  <2>4. {i \in DOMAIN answer : answer[i]} =
          {i \in Common(va, delivered) : Differ(va[i].tlv, delivered[i].tlv)}
    BY <2>2, <2>3
  <2> QED BY <2>2, <2>4
<1>5. DiffExactWithinPools'
  BY <1>1, <1>2, <1>4 DEF DiffExactWithinPools, WithinPools, Count, Both, Differ
<1> QED BY <1>1, <1>3, <1>5 DEF DiffInv, Comparing, Watched

(***************************************************************************)
(* Every step preserves the invariant of the diff.                         *)
(***************************************************************************)
LEMMA DiffStepInv ==
  ASSUME CmdInv, DiffInv, [CmdNext]_allVars
  PROVE  DiffInv'
<1>1. CmdInv'
  BY CmdStep
<1>2. CASE WalkBegins \/ QueryRefused \/ EmitReadFails \/ EmitBegins \/ DiffReadFails
  BY <1>2, OtherBegins
<1>3. CASE DiffBegins
  BY <1>1, <1>3, FirstWalkBegins
<1>4. CASE DiffStep
  <2>1. CASE DiffStops
    <3>1. /\ cmd' = "diff" /\ pc' = "done" /\ ret' # "OK" /\ walks' = walks
          /\ cmd \in {"diff_a", "diff_b"}
      BY <2>1 DEF DiffStops, vars, walkVars
    <3> QED BY <3>1 DEF DiffInv, Stages, Comparing, Watched, DiffExactWithinPools
  <2> QED BY <1>1, <1>4, <2>1, SecondWalkBegins, ComparesStep DEF DiffStep
<1>5. CASE WalkSteps
  BY <1>1, <1>5, DiffMoves, DiffParses DEF WalkSteps, Step
<1>6. CASE EmitStep
  <2>1. cmd = "emit" /\ cmd' = "emit"
    BY <1>6, Emitting
  <2>2. walks' = walks
    BY <1>6 DEF EmitStep, EmitSectionFails, EmitSectionOom, EmitSection, EmitRecord,
                EmitParseFails, EmitStreamEnds, EmitFinishes, EmitReturns, EmitFrame
  <2> QED BY <2>1, <2>2 DEF DiffInv, Stages, Comparing, Watched, DiffExactWithinPools
<1>7. CASE UNCHANGED allVars
  <2>1. /\ UNCHANGED <<cmd, pair, va, diffs, pc, walks, input, si, ti, delivered, ret>>
        /\ UNCHANGED <<live, event, sensor, config, diag_bytes, ring, pos>>
    BY <1>7 DEF allVars, cmdVars, vars, walkVars, poolVars
  <2>2. Both' = Both /\ Here' = Here /\ (WithinPools' <=> WithinPools)
    BY <2>1 DEF Both, Here, Base, WithinPools, Count
  <2>3. Stages'
    BY <2>1 DEF DiffInv, Stages, PoolsEmpty
  <2>4. DiffExactWithinPools'
    BY <2>1, <2>2 DEF DiffInv, DiffExactWithinPools, Differ
  <2>5. Comparing'
    <3>1. ASSUME NEW B, NEW n, Held(B, n) PROVE Held(B, n)'
      BY <2>1, <3>1 DEF Held, Turned
    <3>2. PICK B : B = Both
      OBVIOUS
    <3>3. PICK n : n = Here
      OBVIOUS
    <3>4. Held(Both, Here) => Held(Both, Here)'
      <4>1. ASSUME Held(Both, Here) PROVE Held(B, n)'
        BY <3>1, <3>2, <3>3, <4>1
      <4> QED BY <2>2, <3>2, <3>3, <4>1
    <3> QED BY <2>1, <2>2, <3>4 DEF DiffInv, Comparing, Watched, FirstDiff, AllLive
  <2> QED BY <2>3, <2>4, <2>5 DEF DiffInv
<1> QED BY <1>2, <1>3, <1>4, <1>5, <1>6, <1>7 DEF CmdNext

(***************************************************************************)
(* The count of the first diff of a process is the number of places at     *)
(* which the delivered records differ, by the bytes they had on the wire   *)
(* and by the comparison the code makes of them, for all containers within *)
(* what the pools hold at once: dtl_diff_files then compares no payload    *)
(* that was freed.                                                         *)
(***************************************************************************)
THEOREM DiffExact == CmdSpec => []DiffExactWithinPools
<1>1. CmdInit => DiffInv
  BY DEF CmdInit, Init, PoolInit, DiffInv, Stages, PoolsEmpty, Comparing, Watched,
         DiffExactWithinPools
<1>2. CmdInv /\ DiffInv /\ [CmdNext]_allVars => DiffInv'
  BY DiffStepInv
<1>3. DiffInv => DiffExactWithinPools
  BY DEF DiffInv
<1> QED BY <1>1, <1>2, <1>3, CommandsInductive, PTL DEF CmdSpec
=============================================================================
