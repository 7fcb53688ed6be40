------------------------------- MODULE Rewrite -------------------------------
(***************************************************************************)
(* report/repack, sign, select, dedup and sample: the tools that rewrite a *)
(* container.  Each absorbs the input (a walk whose callback collects the  *)
(* records with their section), decides which records to keep, replays     *)
(* them through the writer, opening a section whenever the source section  *)
(* changes, and stores the container in the output file.                   *)
(*                                                                         *)
(* The steps of the replay are the actions of Writer.  The tools see the   *)
(* records the walk delivers; src holds those, by section, as contents: a  *)
(* content names a record's bytes on the wire.                             *)
(*                                                                         *)
(* An item is a shallow copy: section and tag by value, the payload by     *)
(* reference.  The payloads of five kinds of record lie in process-wide    *)
(* pools and may be freed before the walk is over (module RecordPools), so *)
(* the tool later reads what is in the freed memory by then.               *)
(***************************************************************************)
EXTENDS Writer

CONSTANTS Tools,      \* the tools run
          Sources,    \* inputs: sequences of [type, codec_id, stream]
          Contents,   \* function from contents to
                      \* [kind, plen, flaw, class, self, rewritten]
          EventMax,   \* DTL_EVENT_POOL_MAX
          ItemCap,    \* 64: first capacity of the item array
          Samples,    \* sample sizes n asked for
          Filters,    \* sets of contents a query matches
          RepackTo    \* codec ids repack is asked for

VARIABLES pc, tool, src,
          arg,           \* n, the filter, the codec or the key of the tool
          freed,         \* delivered records whose payload is freed by the walk's end
          seen, held,    \* contents dedup compares, and contents the replay reads
          at,            \* records delivered by the walk so far
          items, cap,    \* dtl_*_ctx: numbers of the collected records, array capacity
          kept,          \* indices of the items to write
          reservoir,     \* sample: n slots
          i, section_open, cur_section,
          refused,       \* the input, or the query, was refused
          overrun,       \* sample wrote behind its reservoir
          rc, disk

(* What the output path held before, and a file cut short.                 *)
Old == [what |-> "old"]
Partial == [what |-> "partial"]

(* What dtl_writer_payload writes for a content.                           *)
Rewritten(c) ==
  LET w == Contents[c].rewritten
  IN  [tag |-> w, plen |-> Contents[w].plen, flaw |-> Contents[c].flaw]

ASSUME RewriteConstants ==
  /\ ItemCap \in Nat \ {0} /\ Samples \subseteq Nat /\ EventMax \in Nat
  /\ Tools \subseteq {"repack", "sign", "select", "dedup", "sample"}
  /\ \A c \in DOMAIN Contents : Rewritten(c) \in Records /\ Contents[c].self \in BOOLEAN
  /\ Sources \subseteq
       Seq([type : Types, codec_id : CodecIds, stream : Seq(DOMAIN Contents)])

toolVars == <<pc, tool, src, arg, freed, seen, held, at, items, cap, kept, reservoir, i,
              section_open, cur_section, refused, overrun, rc, disk>>
writerVars == vars
setup == <<tool, src, arg, freed, seen, held>>
faults == <<refused, overrun>>
collected == <<at, items, cap>>
chosen == <<kept, reservoir>>
replay == <<i, section_open, cur_section>>

(* The records of the input in wire order, with their section.             *)
Delivered ==
  FlattenSeq([s \in DOMAIN src |->
    [k \in DOMAIN src[s].stream |->
       [section_index |-> s, section_type |-> src[s].type,
        codec_id |-> src[s].codec_id, rec |-> src[s].stream[k]]]])

(***************************************************************************)
(* The payloads the walk frees.  dtl_event_pool_release frees those of a   *)
(* section's EVENT records when it ends, as far as the table holds them.   *)
(* A SENSOR, CONFIG, KEYREF or DIAG payload is freed when its pool needs   *)
(* the room, for a record delivered later or for one that does not parse.  *)
(***************************************************************************)
KindOf(k) == Contents[Delivered[k].rec].kind

EventsUpTo(k) ==
  {j \in 1 .. k : KindOf(j) = "EVENT" /\ Delivered[j].section_index = Delivered[k].section_index}

Tracked ==
  {k \in DOMAIN Delivered : KindOf(k) = "EVENT" /\ Cardinality(EventsUpTo(k)) <= EventMax}

Recycled == {k \in DOMAIN Delivered : KindOf(k) \in {"SENSOR", "CONFIG", "KEYREF", "DIAG"}}

(***************************************************************************)
(* What the payloads of the delivered records read as once those in F are  *)
(* freed: the tag of a copy is its own, the rest may be anything.          *)
(***************************************************************************)
Readings(c) == {d \in DOMAIN Contents : Contents[d].kind = Contents[c].kind}

Memory(F) ==
  LET any == UNION {Readings(Delivered[k].rec) : k \in F}
      stale == {g \in [F -> any] : \A k \in F : g[k] \in Readings(Delivered[k].rec)}
  IN  {[k \in DOMAIN Delivered |-> IF k \in F THEN g[k] ELSE Delivered[k].rec] : g \in stale}

Arguments(t) ==
  CASE t = "repack" -> RepackTo [] t = "sign" -> Keys [] t = "select" -> Filters
    [] t = "dedup" -> {"none"} [] t = "sample" -> Samples

RewriteInit ==
  /\ WriterInit
  /\ tool \in Tools /\ src \in Sources /\ arg \in Arguments(tool)
  /\ \E F \in SUBSET Recycled : freed = Tracked \union F
  /\ held \in Memory(freed) /\ seen \in (IF tool = "dedup" THEN Memory(freed) ELSE {held})
  /\ pc = "absorb" /\ at = 0 /\ items = <<>> /\ cap = 0
  /\ kept = {} /\ reservoir = <<>>
  /\ i = 1 /\ section_open = FALSE /\ cur_section = 0
  /\ refused = FALSE /\ overrun = FALSE /\ rc = "OK" /\ disk = Old

(* goto done with rc = e.                                                  *)
Stop(e) == pc' = "done" /\ rc' = e

Asked == tool = "repack" => arg \in Codecs

(***************************************************************************)
(* dtl_query_compile refuses the expression of select, or dtl_walk_absorb  *)
(* fails before the first record: a file error or a refused container.     *)
(***************************************************************************)
Refusals ==
  {"IO", "RANGE", "TRUNCATED", "BADMAGIC", "BADVERSION", "BADHEADER", "BADRECORD"}
    \union (IF tool = "select" THEN {"BADQUERY"} ELSE {})

AbsorbFails ==
  /\ pc = "absorb" /\ Asked /\ at = 0
  /\ \E e \in Refusals : Stop(e)
  /\ refused' = TRUE
  /\ UNCHANGED <<setup, collected, chosen, replay, overrun, disk, writerVars>>

(* The walk is between two sections, or before the first or after the last.*)
Boundary ==
  at \in 1 .. Len(Delivered) - 1 =>
    Delivered[at].section_index # Delivered[at + 1].section_index

(***************************************************************************)
(* The arena fails: the compiled query, the file, the section table or the *)
(* buffer of a section to decode.                                          *)
(***************************************************************************)
AbsorbOom ==
  /\ pc = "absorb" /\ Asked /\ Boundary /\ TRUE \in OomMay
  /\ Stop("OOM") /\ oom' = TRUE
  /\ UNCHANGED <<setup, collected, chosen, replay, faults, disk, section, sections, buffer,
                 hmac_key, out, err, first>>

(* repack is asked for a codec that does not exist.                        *)
BadCodec ==
  /\ pc = "absorb" /\ at = 0 /\ ~Asked
  /\ Stop("INVAL")
  /\ UNCHANGED <<setup, collected, chosen, replay, faults, disk, writerVars>>

(* dtl_query_match runs in the callback, on the record just parsed.        *)
Matches(it) == tool = "select" => it.rec \in arg

(* The capacity of the item array once it holds n items.                   *)
ItemsCap(n) == IF n <= cap THEN cap ELSE IF cap = 0 THEN ItemCap ELSE 2 * cap

(***************************************************************************)
(* dtl_*_on_record for the next record of the walk.                        *)
(***************************************************************************)
MutCollect ==
  /\ pc = "absorb" /\ Asked /\ at < Len(Delivered)
  /\ at' = at + 1
  /\ cap' = ItemsCap(Len(items) + 1)
  /\ items' = IF Len(items) < cap \/ cap = 0 THEN Append(items, at + 1) ELSE <<at + 1>>
  /\ UNCHANGED <<pc, setup, chosen, replay, faults, rc, disk, writerVars>>

Collect ==
  /\ pc = "absorb" /\ Asked /\ at < Len(Delivered)
  /\ at' = at + 1
  /\ items' = IF Matches(Delivered[at + 1]) THEN Append(items, at + 1) ELSE items
  /\ cap' = ItemsCap(Len(items'))
  /\ UNCHANGED <<pc, setup, chosen, replay, faults, rc, disk, writerVars>>

MutCollectOom ==
  /\ pc = "absorb" /\ Asked /\ at < Len(Delivered)
  /\ TRUE \in OomMay /\ Matches(Delivered[at + 1]) /\ Len(items) = cap
  /\ at' = at + 1 /\ oom' = TRUE
  /\ UNCHANGED <<pc, setup, items, cap, chosen, replay, faults, rc, disk, section, sections,
                 buffer, hmac_key, out, err, first>>

CollectOom ==
  /\ pc = "absorb" /\ Asked /\ at < Len(Delivered)
  /\ TRUE \in OomMay /\ Matches(Delivered[at + 1]) /\ Len(items) = cap
  /\ Stop("OOM") /\ oom' = TRUE
  /\ UNCHANGED <<setup, collected, chosen, replay, faults, disk, section, sections, buffer,
                 hmac_key, out, err, first>>

(***************************************************************************)
(* dtl_diff_records_equal as dedup calls it: the class of a content is     *)
(* what the comparator reads of it, and a record with a NaN sample is not  *)
(* equal even to itself.                                                   *)
(***************************************************************************)
Equal(x, y) == Contents[x].class = Contents[y].class /\ Contents[x].self

(* dtl_dedup_mark: a record is dropped for an earlier one that is kept.    *)
DedupKept ==
  LET mark[k \in 0 .. Len(items)] ==
        IF k = 0 THEN {}
        ELSE IF \E j \in mark[k - 1] : Equal(seen[items[j]], seen[items[k]]) THEN mark[k - 1]
        ELSE mark[k - 1] \union {k}
  IN  mark[Len(items)]

CopyAll == arg = 0 \/ arg >= Len(items)

Absorbed ==
  /\ pc = "absorb" /\ Asked /\ at = Len(Delivered)
  /\ \/ tool = "dedup" /\ kept' = DedupKept /\ pc' = "replay" /\ UNCHANGED reservoir
     \/ tool = "sample" /\ ~CopyAll
        /\ pc' = "sample" /\ reservoir' = [k \in 0 .. arg - 1 |-> k] /\ UNCHANGED kept
     \/ tool # "dedup" /\ (tool = "sample" => CopyAll)
        /\ kept' = DOMAIN items /\ pc' = "replay" /\ UNCHANGED reservoir
  /\ i' = IF pc' = "sample" THEN arg ELSE 1
  /\ UNCHANGED <<setup, collected, section_open, cur_section, faults, rc, disk, writerVars>>

(***************************************************************************)
(* dtl_sample_choose fails: the selection flags or the reservoir.          *)
(***************************************************************************)
ChooseOom ==
  /\ pc = "absorb" /\ at = Len(Delivered) /\ tool = "sample" /\ TRUE \in OomMay
  /\ Stop("OOM") /\ oom' = TRUE
  /\ UNCHANGED <<setup, collected, chosen, replay, faults, disk, section, sections, buffer,
                 hmac_key, out, err, first>>

(***************************************************************************)
(* The loop of dtl_sample_choose for record i (0-based): a draw from       *)
(* 0 .. i; the generator may give any.  A draw equal to n passes the test  *)
(* and writes behind the reservoir, which has n slots: into the padding or *)
(* the heap's own data there, see Abort.                                   *)
(***************************************************************************)
Draw ==
  /\ pc = "sample" /\ i < Len(items)
  /\ \E j \in 0 .. i :
       /\ reservoir' = IF j < arg THEN [reservoir EXCEPT ![j] = i] ELSE reservoir
       /\ overrun' = (overrun \/ j = arg)
  /\ i' = i + 1
  /\ UNCHANGED <<pc, setup, collected, kept, section_open, cur_section, refused, rc, disk,
                 writerVars>>

Drawn ==
  /\ pc = "sample" /\ i = Len(items)
  /\ kept' = {reservoir[k] + 1 : k \in 0 .. arg - 1}
  /\ pc' = "replay" /\ i' = 1
  /\ UNCHANGED <<setup, collected, reservoir, section_open, cur_section, faults, rc, disk,
                 writerVars>>

(***************************************************************************)
(* The process dies: the allocator meets what the draw overwrote, or a     *)
(* freed payload is read where the heap was given back.                    *)
(***************************************************************************)
Abort ==
  /\ \/ pc \in {"sample", "replay"} /\ overrun
     \/ pc = "replay" /\ freed # {}
  /\ Stop("ABORT")
  /\ UNCHANGED <<setup, collected, chosen, replay, faults, disk, writerVars>>

-----------------------------------------------------------------------------

(***************************************************************************)
(* The replay loop.  Every writer call that fails ends it with its error,  *)
(* except that a refused dtl_writer_begin_section is reported as OOM.      *)
(***************************************************************************)
More == i <= Len(items)

MutSkip ==
  /\ pc = "replay" /\ More /\ i \notin kept
  /\ UNCHANGED <<toolVars, writerVars>>

Skip ==
  /\ pc = "replay" /\ More /\ i \notin kept
  /\ i' = i + 1
  /\ UNCHANGED <<pc, setup, collected, chosen, section_open, cur_section, faults, rc, disk,
                 writerVars>>

(* Item k, as far as it was copied by value.                               *)
Copy(k) == Delivered[items[k]]

(* The open section ends: its source section does, or the items do.        *)
ClosesNow ==
  section_open /\ (More => i \in kept /\ Copy(i).section_index # cur_section)

CloseSection ==
  /\ pc = "replay" /\ ClosesNow
  /\ \/ End /\ section_open' = FALSE /\ UNCHANGED <<pc, rc>>
     \/ EndFails /\ Stop(err') /\ UNCHANGED section_open
  /\ UNCHANGED <<setup, collected, chosen, i, cur_section, faults, disk>>

TargetCodec(it) == IF tool = "repack" THEN arg ELSE it.codec_id

OpenSection ==
  /\ pc = "replay" /\ ~section_open /\ More /\ i \in kept
  /\ \/ Begin(Copy(i).section_type, TargetCodec(Copy(i)))
        /\ section_open' = TRUE /\ cur_section' = Copy(i).section_index
        /\ UNCHANGED <<pc, rc>>
     \/ BeginTooMany /\ Stop("OOM") /\ UNCHANGED <<section_open, cur_section>>
  /\ UNCHANGED <<setup, collected, chosen, i, faults, disk>>

(***************************************************************************)
(* dtl_writer_add_record.  It is refused for a CONFIG string that reads    *)
(* longer than its length byte allows, which only freed memory holds.      *)
(***************************************************************************)
AddItem ==
  LET r == Rewritten(held[items[i]]) IN
  /\ pc = "replay" /\ section_open /\ More /\ i \in kept
  /\ Copy(i).section_index = cur_section
  /\ \/ AddWhole(r) /\ i' = i + 1 /\ UNCHANGED <<pc, rc>>
     \/ AddRejected(r) /\ Stop(err') /\ UNCHANGED i
     \/ TRUE \in OomMay
        /\ \E done \in {0, 1} \union TlvHeader .. TlvHeader + r.plen - 1 : AddOom(r, done)
        /\ Stop(err') /\ UNCHANGED i
  /\ UNCHANGED <<setup, collected, chosen, section_open, cur_section, faults, disk>>

Sign ==
  /\ pc = "replay" /\ ~section_open /\ ~More /\ tool = "sign" /\ hmac_key # arg
  /\ SetHmac(arg)
  /\ UNCHANGED toolVars

FinishAll ==
  /\ pc = "replay" /\ ~section_open /\ ~More /\ (tool = "sign" => hmac_key = arg)
  /\ \/ Finish /\ pc' = "save" /\ UNCHANGED rc
     \/ FinishFails /\ Stop(err')
  /\ UNCHANGED <<setup, collected, chosen, replay, faults, disk>>

(***************************************************************************)
(* fopen, fwrite, fclose.  fopen empties the file; a short fwrite is       *)
(* reported; what fclose fails to flush is not.                            *)
(***************************************************************************)
Save ==
  /\ pc = "save"
  /\ \/ disk' = disk /\ Stop("IO")
     \/ disk' = Partial /\ Stop("IO")
     \/ disk' = Partial /\ Stop("OK")
     \/ disk' = out /\ Stop("OK")
     \/ overrun /\ disk' \in {disk, Partial, out} /\ Stop("ABORT")
  /\ UNCHANGED <<setup, collected, chosen, replay, faults, writerVars>>

Done == pc = "done" /\ UNCHANGED <<toolVars, writerVars>>

RewriteStep ==
  \/ AbsorbFails \/ AbsorbOom \/ BadCodec \/ Collect \/ CollectOom \/ Absorbed \/ ChooseOom
  \/ Draw \/ Drawn \/ Abort
  \/ Skip \/ CloseSection \/ OpenSection \/ AddItem \/ Sign \/ FinishAll \/ Save

RewriteNext == RewriteStep \/ Done

RewriteSpec ==
  /\ RewriteInit /\ [][RewriteNext]_<<toolVars, writerVars>>
  /\ WF_<<toolVars, writerVars>>(RewriteStep)
-----------------------------------------------------------------------------

Stored == pc = "done" /\ disk \notin {Old, Partial}

(***************************************************************************)
(* What the headers promise to keep, said of the input: repack and sign    *)
(* everything, select the matches, dedup what equals nothing before it (as *)
(* far as the payloads it compares are alive); sample what it chose.       *)
(***************************************************************************)
Wanted(k) ==
  CASE tool \in {"repack", "sign"} -> TRUE
    [] tool = "select" -> Delivered[k].rec \in arg
    [] tool = "dedup" -> \A j \in 1 .. k - 1 : ~Equal(seen[j], seen[k])
    [] tool = "sample" -> k \in kept

(* The numbers of K among 1 .. n, in order.                                *)
Ascending(K, n) ==
  LET pick[k \in 0 .. n] ==
        IF k = 0 THEN <<>>
        ELSE IF k \in K THEN Append(pick[k - 1], k) ELSE pick[k - 1]
  IN  pick[n]

WantedOf(s) ==
  Ascending({k \in DOMAIN Delivered : Delivered[k].section_index = s /\ Wanted(k)},
            Len(Delivered))

(* The stream section s of the input should leave in the output.           *)
Kept(s) ==
  [k \in DOMAIN WantedOf(s) |->
     LET r == Rewritten(held[WantedOf(s)[k]]) IN [tag |-> r.tag, plen |-> r.plen]]

WantedSections ==
  LET full == Ascending({s \in DOMAIN src : WantedOf(s) # <<>>}, Len(src))
  IN  [f \in DOMAIN full |-> [type |-> src[full[f]].type, stream |-> Kept(full[f])]]

(***************************************************************************)
(* A stored container decodes to the records the tool promises to keep, in *)
(* wire order and in their own sections, emptied sections left out: across *)
(* the walk's callbacks, the growing item array, the replay and the writer.*)
(* Each record has its own payload unless the walk freed it (every EVENT   *)
(* within the table, and any other pooled payload the pools recycled); a   *)
(* freed one has what its memory holds, and dedup compares by that too.    *)
(* What dtl sign stored, dtl verify accepts under the same key, and what   *)
(* dtl sample chose are n different records, whatever was drawn: a draw of *)
(* n is lost, and may kill the process.                                    *)
(***************************************************************************)
OutputIsSelection ==
  Stored => /\ Readable(disk) /\ ReadBack(disk) = WantedSections
            /\ tool = "sign" => Verify(disk, arg) = "OK"
            /\ tool = "sample" /\ ~CopyAll => Cardinality(kept) = arg

(***************************************************************************)
(* Every tool returns: the replay loop always advances, closes or fails.   *)
(***************************************************************************)
ToolReturns == <>(pc = "done")

(***************************************************************************)
(* Every error of a tool has its cause in the input or in the machine, and *)
(* no allocation that fails the walk, the choice or the replay is lost.  A *)
(* refused input or query leaves the output alone.  Of an input that was   *)
(* accepted: OOM without a failed allocation is a begin_section call past  *)
(* the limit on sections, and TRUNCATED a word codec kept by a section     *)
(* whose remaining records are no whole words.  DTL_OK is returned only    *)
(* once the output was opened, and the process dies only after a draw of n *)
(* or with freed payloads to read.                                         *)
(***************************************************************************)
CodecOf(s) == IF tool = "repack" THEN arg ELSE src[s].codec_id

FailuresExplained ==
  pc = "done" =>
    /\ oom \/ refused \/ disk = Old => rc # "OK"
    /\ refused => disk = Old
    /\ rc = "OOM" /\ ~oom => Len(WantedSections) > MaxSections
    /\ rc = "TRUNCATED" /\ ~refused =>
         \E s \in DOMAIN src :
           CodecOf(s) = "words" /\ StreamLen(Kept(s)) % 4 # 0
    /\ rc = "ABORT" => overrun \/ freed # {}
=============================================================================
