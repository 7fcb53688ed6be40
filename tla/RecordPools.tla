----------------------------- MODULE RecordPools -----------------------------
(***************************************************************************)
(* records/: the typed record parsers behind dtl_record_parse and the      *)
(* process-wide pools five of them keep their payloads in.                 *)
(*                                                                         *)
(*   EVENT   a table of payloads, freed together at a section boundary;    *)
(*   SENSOR  a table of sample arrays, freed together when it is full;     *)
(*   CONFIG  a table of strings, freed when the next CONFIG is parsed;     *)
(*   DIAG    a table of blobs, the oldest freed to stay under a budget;    *)
(*   KEYREF  a ring of labels, the oldest freed when the ring wraps.       *)
(*                                                                         *)
(* LOG and the oversized strings live in the walk's arena, and the fixed   *)
(* layout records hold no pointer.  A malloc'd payload is a handle         *)
(* [kind, id, size] whose id is never used twice; live is the set of the   *)
(* handles malloc returned and free has not taken back.  A pointer into    *)
(* the arena is not a handle: it outlives every parse (module Arena).      *)
(*                                                                         *)
(* A TLV is a record [tag, n, bad]: n is what the payload carries (bytes,  *)
(* samples, strings) and bad the way it is malformed, "no" if it is not.   *)
(***************************************************************************)
EXTENDS Integers, Sequences, SequencesExt, Sums

CONSTANTS EventMax,    \* DTL_EVENT_POOL_MAX
          SensorMax,   \* DTL_SENSOR_POOL_MAX
          CfgMax,      \* DTL_CFG_POOL_MAX
          DiagMax,     \* entries of dtl_diag_pool_slots
          DiagBudget,  \* DTL_DIAG_POOL_BUDGET
          RingSize,    \* DTL_KEYREF_RING
          LabelMax,    \* bytes of the largest pooled label, terminator included
          OomMay,      \* TRUE when malloc and the arena may fail
          Tlvs,        \* the TLVs a stream may hold
          MaxAllocs    \* bound: payloads allocated in one behaviour

ASSUME PoolConstants ==
  /\ EventMax \in Nat /\ SensorMax \in Nat \ {0} /\ CfgMax \in Nat
  /\ DiagMax \in Nat \ {0} /\ DiagBudget \in Nat
  /\ RingSize \in Nat \ {0} /\ LabelMax \in Nat
  /\ OomMay \in BOOLEAN /\ MaxAllocs \in Nat

PoolKinds == {"EVENT", "SENSOR", "CONFIG", "DIAG", "KEYREF"}

(***************************************************************************)
(* A TLV is malformed before any payload is copied ("header": a truncated  *)
(* field, "length": a declared length that disagrees with the TLV) or      *)
(* after ("body": it runs past the TLV, "trailing": bytes are left over).  *)
(***************************************************************************)
Defects == {"no", "header", "length", "body", "trailing"}

ASSUME TlvAssumption ==
  \A w \in Tlvs : w.n \in Nat /\ w.bad \in Defects

VARIABLES live,        \* malloc'd payloads
          fresh,       \* identity of the next payload
          event,       \* dtl_event_pool_slots
          sensor,      \* dtl_sensor_pool
          config,      \* dtl_cfg_pool_slots
          diag,        \* dtl_diag_pool_slots and dtl_diag_pool_sizes
          diag_bytes,  \* dtl_diag_pool_bytes
          ring, pos,   \* the label ring of dtl_keyref_label_alloc
          out          \* what the last dtl_record_parse returned

pools == <<event, sensor, config, diag, diag_bytes, ring, pos>>
poolVars == <<live, fresh, event, sensor, config, diag, diag_bytes, ring, pos, out>>

NULL == [kind |-> "NULL", id |-> 0, size |-> 0]
Handle == [kind : PoolKinds, id : Nat, size : Nat]
Fresh(kind, n) == [kind |-> kind, id |-> fresh, size |-> n]

Fail(rc) == out' = [rc |-> rc, refs |-> {}]
Parsed(refs) == out' = [rc |-> "OK", refs |-> refs]

(***************************************************************************)
(* The error of a malformed TLV.                                           *)
(***************************************************************************)
ErrOf(w) == IF w.bad \in {"header", "body"} THEN "TRUNCATED" ELSE "BADRECORD"

EarlyDefect(w) == w.bad \in {"header", "length"}

-----------------------------------------------------------------------------

PoolInit ==
  /\ live = {} /\ fresh = 0
  /\ event = <<>> /\ sensor = <<>> /\ config = <<>>
  /\ diag = <<>> /\ diag_bytes = 0
  /\ ring = [i \in 0 .. RingSize - 1 |-> NULL] /\ pos = 0
  /\ out = [rc |-> "NONE", refs |-> {}]

(***************************************************************************)
(* A TLV that holds no pooled payload: the five fixed-layout records, LOG  *)
(* (whose message is an arena string), an unknown tag, and an EVENT,       *)
(* SENSOR or DIAG that is refused by its header or has an empty payload.   *)
(***************************************************************************)
ParseFixed(w) ==
  /\ w.tag = "FIXED"
  /\ IF w.bad = "no" THEN Parsed({}) ELSE Fail("BADRECORD")
  /\ UNCHANGED <<live, fresh, pools>>

ParseLog(w) ==
  /\ w.tag = "LOG"
  /\ \/ w.bad # "no" /\ Fail(ErrOf(w))
     \/ w.bad = "no" /\ Parsed({})
     \/ w.bad = "no" /\ OomMay /\ Fail("OOM")
  /\ UNCHANGED <<live, fresh, pools>>

ParseUnknown(w) ==
  /\ w.tag = "UNKNOWN" /\ Fail("BADRECORD")
  /\ UNCHANGED <<live, fresh, pools>>

NoPayload(w) ==
  /\ w.tag \in {"EVENT", "SENSOR", "DIAG"}
  /\ \/ w.bad # "no" /\ Fail(ErrOf(w))
     \/ w.bad = "no" /\ w.n = 0 /\ Parsed({})
  /\ UNCHANGED <<live, fresh, pools>>

(***************************************************************************)
(* malloc(n) of one payload fails.                                         *)
(***************************************************************************)
CarriesPayload(w, tag) == w.tag = tag /\ w.bad = "no" /\ w.n # 0

EventOom(w) ==
  /\ CarriesPayload(w, "EVENT") /\ OomMay /\ Fail("OOM")
  /\ UNCHANGED <<live, fresh, pools>>

MutEventTakeOldest(w) ==
  /\ CarriesPayload(w, "EVENT") /\ fresh < MaxAllocs
  /\ LET h == Fresh("EVENT", w.n)
         full == Len(event) = EventMax
     IN  /\ fresh' = fresh + 1 /\ Parsed({h})
         /\ live' = (IF full THEN live \ {event[1]} ELSE live) \cup {h}
         /\ event' = Append(IF full THEN Tail(event) ELSE event, h)
  /\ UNCHANGED <<sensor, config, diag, diag_bytes, ring, pos>>

(***************************************************************************)
(* dtl_event_pool_take: a payload that finds the table full is handed out  *)
(* all the same.                                                           *)
(***************************************************************************)
EventTake(w) ==
  /\ CarriesPayload(w, "EVENT") /\ fresh < MaxAllocs
  /\ LET h == Fresh("EVENT", w.n) IN
       /\ live' = live \cup {h} /\ fresh' = fresh + 1 /\ Parsed({h})
       /\ event' = IF Len(event) < EventMax THEN Append(event, h) ELSE event
  /\ UNCHANGED <<sensor, config, diag, diag_bytes, ring, pos>>

(***************************************************************************)
(* dtl_event_pool_release, called by the walk at a section boundary, where *)
(* the record of the last callback has gone out of scope.                  *)
(***************************************************************************)
EventPoolRelease ==
  /\ live' = live \ ToSet(event) /\ event' = <<>>
  /\ out' = [rc |-> "NONE", refs |-> {}]
  /\ UNCHANGED <<fresh, sensor, config, diag, diag_bytes, ring, pos>>

MutSensorKept == IF Len(sensor) + 1 >= SensorMax THEN <<>> ELSE sensor

(***************************************************************************)
(* dtl_sensor_samples_alloc: a full table is emptied before malloc is      *)
(* called, so it is empty also when malloc then fails.                     *)
(***************************************************************************)
SensorKept == IF Len(sensor) = SensorMax THEN <<>> ELSE sensor
SensorFreed == ToSet(sensor) \ ToSet(SensorKept)

SensorOom(w) ==
  /\ CarriesPayload(w, "SENSOR") /\ OomMay /\ Fail("OOM")
  /\ sensor' = SensorKept /\ live' = live \ SensorFreed
  /\ UNCHANGED <<fresh, event, config, diag, diag_bytes, ring, pos>>

MutSensorTake(w) ==
  /\ CarriesPayload(w, "SENSOR") /\ fresh < MaxAllocs
  /\ LET h == Fresh("SENSOR", w.n) IN
       /\ fresh' = fresh + 1 /\ Parsed({h})
       /\ live' = IF Len(sensor) + 1 = SensorMax
                  THEN live \ ToSet(sensor) ELSE live \cup {h}
       /\ sensor' = IF Len(sensor) + 1 = SensorMax THEN <<>> ELSE Append(sensor, h)
  /\ UNCHANGED <<event, config, diag, diag_bytes, ring, pos>>

SensorTake(w) ==
  /\ CarriesPayload(w, "SENSOR") /\ fresh < MaxAllocs
  /\ LET h == Fresh("SENSOR", w.n) IN
       /\ fresh' = fresh + 1 /\ Parsed({h})
       /\ live' = (live \ SensorFreed) \cup {h}
       /\ sensor' = Append(SensorKept, h)
  /\ UNCHANGED <<event, config, diag, diag_bytes, ring, pos>>

(***************************************************************************)
(* dtl_config_parse recycles the strings of the previous CONFIG before it  *)
(* looks at this one, so a malformed CONFIG recycles them too.  A string   *)
(* is checked out of the pool before its bytes are read; it comes from the *)
(* arena when the table is full or malloc fails.  w.n strings are begun    *)
(* before the TLV ends or turns out malformed; taken of them are pooled.   *)
(***************************************************************************)
Strings(taken) == [i \in 1 .. taken |-> [kind |-> "CONFIG", id |-> fresh + i - 1, size |-> 1]]

ConfigHeader(w) ==
  /\ w.tag = "CONFIG"
  /\ \/ EarlyDefect(w) /\ Fail(ErrOf(w))
     \/ ~EarlyDefect(w) /\ w.n # 0 /\ OomMay /\ Fail("OOM")   \* the pairs array
  /\ config' = <<>> /\ live' = live \ ToSet(config)
  /\ UNCHANGED <<fresh, event, sensor, diag, diag_bytes, ring, pos>>

MutConfigStrings(w) ==
  /\ w.tag = "CONFIG" /\ ~EarlyDefect(w)
  /\ \E taken \in 0 .. w.n :
       /\ taken <= CfgMax /\ fresh + taken <= MaxAllocs
       /\ OomMay \/ taken = w.n \/ taken = CfgMax
       /\ fresh' = fresh + taken
       /\ IF w.bad = "no" THEN /\ Parsed(ToSet(Strings(taken)))
                               /\ config' = Strings(taken)
          ELSE Fail(ErrOf(w)) /\ config' = <<>>
       /\ live' = (live \ ToSet(config)) \cup ToSet(Strings(taken))
  /\ UNCHANGED <<event, sensor, diag, diag_bytes, ring, pos>>

ConfigStrings(w) ==
  /\ w.tag = "CONFIG" /\ ~EarlyDefect(w)
  /\ \E taken \in 0 .. w.n :
       /\ taken <= CfgMax /\ fresh + taken <= MaxAllocs
       /\ OomMay \/ taken = w.n \/ taken = CfgMax
       /\ fresh' = fresh + taken
       /\ config' = Strings(taken)
       /\ live' = (live \ ToSet(config)) \cup ToSet(Strings(taken))
       /\ \/ w.bad = "no" /\ Parsed(ToSet(Strings(taken)))
          \/ w.bad # "no" /\ Fail(ErrOf(w))
          \/ OomMay /\ taken < w.n /\ Fail("OOM")   \* a string finds neither
  /\ UNCHANGED <<event, sensor, diag, diag_bytes, ring, pos>>

(***************************************************************************)
(* dtl_diag_blob_alloc: evicted is how many of the oldest blobs the loop   *)
(* frees before a blob of n bytes fits the budget, or all of them.         *)
(***************************************************************************)
Bytes(blobs) == Total([i \in DOMAIN blobs |-> blobs[i].size])

MutEvicted(n) ==
  CHOOSE e \in 0 .. Len(diag) :
    /\ e = Len(diag) \/ diag_bytes - Bytes(SubSeq(diag, 1, e)) <= DiagBudget
    /\ \A f \in 0 .. e - 1 :
         diag_bytes - Bytes(SubSeq(diag, 1, f)) > DiagBudget

Evicted(n) ==
  CHOOSE e \in 0 .. Len(diag) :
    /\ e = Len(diag) \/ diag_bytes - Bytes(SubSeq(diag, 1, e)) + n <= DiagBudget
    /\ \A f \in 0 .. e - 1 :
         diag_bytes - Bytes(SubSeq(diag, 1, f)) + n > DiagBudget

DiagVictims(n) == SubSeq(diag, 1, Evicted(n))
DiagKept(n) == SubSeq(diag, Evicted(n) + 1, Len(diag))

DiagOom(w) ==
  /\ CarriesPayload(w, "DIAG") /\ OomMay /\ Fail("OOM")
  /\ diag' = DiagKept(w.n) /\ live' = live \ ToSet(DiagVictims(w.n))
  /\ diag_bytes' = diag_bytes - Bytes(DiagVictims(w.n))
  /\ UNCHANGED <<fresh, event, sensor, config, ring, pos>>

DiagTake(w) ==
  /\ CarriesPayload(w, "DIAG") /\ fresh < MaxAllocs
  /\ LET h == Fresh("DIAG", w.n)
         tracked == Len(DiagKept(w.n)) < DiagMax
     IN  /\ fresh' = fresh + 1 /\ Parsed({h})
         /\ live' = (live \ ToSet(DiagVictims(w.n))) \cup {h}
         /\ diag' = IF tracked THEN Append(DiagKept(w.n), h) ELSE DiagKept(w.n)
         /\ diag_bytes' = diag_bytes - Bytes(DiagVictims(w.n))
                          + (IF tracked THEN w.n ELSE 0)
  /\ UNCHANGED <<event, sensor, config, ring, pos>>

(***************************************************************************)
(* dtl_keyref_parse: the ring slot is freed and refilled before the label  *)
(* is read, so a malformed KEYREF turns the ring too; a failed malloc      *)
(* leaves a NULL slot behind.  A label too long for the ring comes from    *)
(* the arena.                                                              *)
(***************************************************************************)
Oversized(n) == n + 1 > LabelMax

KeyrefHeader(w) ==
  /\ w.tag = "KEYREF" /\ EarlyDefect(w) /\ Fail(ErrOf(w))
  /\ UNCHANGED <<live, fresh, pools>>

KeyrefOversized(w) ==
  /\ w.tag = "KEYREF" /\ ~EarlyDefect(w) /\ Oversized(w.n)
  /\ \/ w.bad = "no" /\ Parsed({})
     \/ w.bad # "no" /\ Fail(ErrOf(w))
     \/ OomMay /\ Fail("OOM")
  /\ UNCHANGED <<live, fresh, pools>>

MutKeyrefOom(w) ==
  /\ w.tag = "KEYREF" /\ ~EarlyDefect(w) /\ ~Oversized(w.n)
  /\ OomMay /\ Fail("OOM")
  /\ live' = live \ {ring[pos]}
  /\ ring' = [ring EXCEPT ![pos] = NULL] /\ pos' = pos + 1
  /\ UNCHANGED <<fresh, event, sensor, config, diag, diag_bytes>>

KeyrefOom(w) ==
  /\ w.tag = "KEYREF" /\ ~EarlyDefect(w) /\ ~Oversized(w.n)
  /\ OomMay /\ Fail("OOM")
  /\ live' = live \ {ring[pos]}
  /\ ring' = [ring EXCEPT ![pos] = NULL] /\ pos' = (pos + 1) % RingSize
  /\ UNCHANGED <<fresh, event, sensor, config, diag, diag_bytes>>

KeyrefLabel(w) ==
  /\ w.tag = "KEYREF" /\ ~EarlyDefect(w) /\ ~Oversized(w.n) /\ fresh < MaxAllocs
  /\ LET h == Fresh("KEYREF", w.n) IN
       /\ fresh' = fresh + 1 /\ live' = (live \ {ring[pos]}) \cup {h}
       /\ ring' = [ring EXCEPT ![pos] = h] /\ pos' = (pos + 1) % RingSize
       /\ IF w.bad = "no" THEN Parsed({h}) ELSE Fail(ErrOf(w))
  /\ UNCHANGED <<event, sensor, config, diag, diag_bytes>>

-----------------------------------------------------------------------------

(***************************************************************************)
(* dtl_record_parse on one TLV.                                            *)
(***************************************************************************)
RecordParse(w) ==
  \/ ParseFixed(w) \/ ParseLog(w) \/ ParseUnknown(w) \/ NoPayload(w)
  \/ EventOom(w) \/ EventTake(w)
  \/ SensorOom(w) \/ SensorTake(w)
  \/ ConfigHeader(w) \/ ConfigStrings(w)
  \/ DiagOom(w) \/ DiagTake(w)
  \/ KeyrefHeader(w) \/ KeyrefOversized(w) \/ KeyrefOom(w) \/ KeyrefLabel(w)

PoolNext == (\E w \in Tlvs : RecordParse(w)) \/ EventPoolRelease

PoolSpec == PoolInit /\ [][PoolNext]_poolVars

-----------------------------------------------------------------------------

Distinct(slots) == \A i, j \in DOMAIN slots : slots[i] = slots[j] => i = j

Owned(slots, kind) ==
  /\ \A i \in DOMAIN slots : slots[i] \in live /\ slots[i].kind = kind
  /\ Distinct(slots)

(***************************************************************************)
(* Every pointer a pool still holds was malloc'd and not freed, and is     *)
(* held once: no later reclaim, release, eviction or ring turn frees a     *)
(* payload twice, whatever mix of well-formed, malformed and failed        *)
(* records came before.  No table is written past its end.                 *)
(***************************************************************************)
PoolsOwnLive ==
  /\ Len(event) <= EventMax /\ Len(sensor) <= SensorMax
  /\ Len(config) <= CfgMax /\ Len(diag) <= DiagMax /\ pos \in 0 .. RingSize - 1
  /\ Owned(event, "EVENT") /\ Owned(sensor, "SENSOR")
  /\ Owned(config, "CONFIG") /\ Owned(diag, "DIAG")
  /\ \A i \in DOMAIN ring : ring[i] # NULL => ring[i] \in live /\ ring[i].kind = "KEYREF"
  /\ \A i, j \in DOMAIN ring : ring[i] = ring[j] /\ ring[i] # NULL => i = j

(***************************************************************************)
(* The record a successful dtl_record_parse just returned points only at   *)
(* live payloads: what the parse freed to make room was never its own.     *)
(***************************************************************************)
CurrentRecordLive == out.refs \subseteq live

(***************************************************************************)
(* A payload that no table holds any more cannot be freed again.  Only     *)
(* EVENT and DIAG, whose tables hand out payloads they do not record, ever *)
(* have one: SENSOR, CONFIG and KEYREF lose none, also on their error      *)
(* paths.                                                                  *)
(***************************************************************************)
Tracked == ToSet(event) \cup ToSet(sensor) \cup ToSet(config) \cup ToSet(diag)
           \cup {ring[i] : i \in DOMAIN ring}

OnlyEventAndDiagLeak ==
  \A h \in live : h \in Tracked \/ h.kind \in {"EVENT", "DIAG"}

(***************************************************************************)
(* dtl_diag_pool_bytes is the total of the tracked blobs, and at most the  *)
(* budget unless a single blob exceeds it by itself.                       *)
(***************************************************************************)
DiagAccounting ==
  /\ diag_bytes = Bytes(diag)
  /\ diag_bytes <= DiagBudget \/ Len(diag) = 1
=============================================================================
