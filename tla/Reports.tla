------------------------------ MODULE Reports ------------------------------
(***************************************************************************)
(* The report builders fed by the record walk (src/report/timeline.c,      *)
(* validate.c, topk.c, index.c and stats.c).  Each registers callbacks     *)
(* with dtl_walk_file and accumulates its result, in arrays grown from an  *)
(* arena, while the walk calls back once per record and once per failure.  *)
(*                                                                         *)
(* The walk is the environment here (Walk.tla models it in full): it       *)
(* reports any sequence of records and failures and returns any result.    *)
(* A record is its tag, one number (the uptime of a heartbeat, the field   *)
(* topk ranks by), the values it adds to the aggregate stats keeps of its  *)
(* tag, and the semantic checks of its tag that it fails, in order.        *)
(***************************************************************************)
EXTENDS Integers, Sequences, FiniteSets, SequencesExt

CONSTANTS
    Tools,        \* the reports to model, out of ToolNames
    Tags,         \* record tags that occur
    Inputs,       \* Inputs[t]: the records the walk may deliver to report t
    FirstCap,     \* first capacity of the growing arrays (16, 32 and 64 in C)
    ChunkCap,     \* entries in an index chunk (256 in C)
    Limit,        \* tolerance * expected interval of the timeline
    Garbage,      \* values a counter in fresh arena memory may hold
    TopField,     \* the tag that carries the field topk ranks by
    TopN,         \* the n asked of topk; 0 asks for every record
    Doubles,      \* the doubles that are numbers, infinities too, by rank
    NaN,          \* the double that is not a number
    Plus(_, _),   \* addition of doubles, which rounds
    MaxEvents,    \* bound: callbacks in one behaviour
    MaxFiles      \* bound: containers combined by one stats accumulator

ToolNames == {"timeline", "validate", "topk", "index", "stats"}

Heartbeat == "heartbeat"

ASSUME ReportConstants ==
    /\ Tools \subseteq ToolNames
    /\ FirstCap \in Nat \ {0} /\ ChunkCap \in Nat \ {0}
    /\ Limit \in Nat /\ TopN \in Nat /\ Garbage \subseteq Nat
    /\ MaxEvents \in Nat /\ MaxFiles \in Nat \ {0}
    /\ Doubles \subseteq Int /\ 0 \in Doubles /\ NaN \notin Int
    /\ \A a, b \in Doubles \cup {NaN} : Plus(a, b) \in Doubles \cup {NaN}
    /\ \A t \in Tools : \A r \in Inputs[t] :
         /\ r.tag \in Tags /\ r.v \in Nat
         /\ r.samples \in Seq(Doubles \cup {NaN}) /\ r.faults \in Seq(Nat)

VARIABLES
    tool,       \* the report being built
    rc,         \* "walking", or what dtl_walk_file returned
    pos,        \* the walk's section, record-in-section and record counters
    tl,         \* dtl_timeline and its cursor
    rep,        \* dtl_validate_report
    top,        \* dtl_topk_ctx, and the lines printed
    idx,        \* dtl_index
    st,         \* dtl_stats
    seen,       \* history: the events delivered, in order
    raised,     \* history: the issues the validator meant to add
    denied,     \* history: an array could not be grown
    events,     \* callbacks so far
    files       \* containers walked so far

vars == <<tool, rc, pos, tl, rep, top, idx, st, seen, raised, denied,
          events, files>>

NewCap(cap) == IF cap = 0 THEN FirstCap ELSE 2 * cap

Nothing == [count |-> 0, min |-> 0, max |-> 0, sum |-> 0]

Init ==
    /\ tool \in Tools
    /\ rc = "walking"
    /\ pos = [section |-> 0, inSection |-> 0, index |-> 0]
    /\ tl = [sessions |-> <<>>, cap |-> 0, cur |-> 0, gaps |-> 0,
             orderings |-> 0, unattributed |-> 0]
    /\ rep = [issues |-> <<>>, cap |-> 0, errors |-> 0, warnings |-> 0,
              checked |-> 0]
    /\ top = [entries |-> <<>>, cap |-> 0, shown |-> <<>>]
    /\ idx = [chunks |-> <<>>, per_tag |-> [t \in Tags |-> 0], total |-> 0]
    /\ st = [total |-> 0, per_tag |-> [t \in Tags |-> 0], parse_errors |-> 0,
             num |-> [t \in Tags |-> Nothing]]
    /\ seen = <<>> /\ raised = <<>> /\ denied = FALSE
    /\ events = 0 /\ files = 1

-----------------------------------------------------------------------------
(* Timeline: a heartbeat opens a session, the rest belong to the open one.  *)

TimelineOom(ev) ==
    /\ ev.tag = Heartbeat /\ Len(tl.sessions) = tl.cap
    /\ rc' = "OOM"
    /\ denied' = TRUE
    /\ UNCHANGED tl

(* Only the heartbeat's counter is assigned in the new slot's histogram.    *)
Session(ev, g) ==
    [uptime |-> ev.v, count |-> 1, first |-> ev.index,
     per_tag |-> [t \in Tags |-> IF t = Heartbeat THEN 1 ELSE g[t]]]

(* Mutant: the unsigned difference is tested before the order, and wraps.   *)
MutAnomaly(prev, up) ==
    IF up < prev \/ up - prev > Limit THEN "gap" ELSE "none"

Anomaly(prev, up) ==
    CASE up < prev         -> "ordering"
      [] up - prev > Limit -> "gap"
      [] OTHER             -> "none"

OpenSession(ev) ==
    /\ ev.tag = Heartbeat
    /\ \E g \in [Tags \ {Heartbeat} -> Garbage] :
         LET n    == Len(tl.sessions)
             full == n = tl.cap
             cur  == IF full THEN n ELSE tl.cur
             anom == IF cur = 0 THEN "none"
                                ELSE Anomaly(tl.sessions[cur].uptime, ev.v)
         IN  tl' = [tl EXCEPT
                      !.sessions = Append(@, Session(ev, g)),
                      !.cap = IF full THEN NewCap(@) ELSE @,
                      !.cur = n + 1,
                      !.gaps = IF anom = "gap" THEN @ + 1 ELSE @,
                      !.orderings = IF anom = "ordering" THEN @ + 1 ELSE @]
    /\ UNCHANGED <<rc, denied>>

(* A session with one record more.                                          *)
Extended(x, ev) == [x EXCEPT !.count = @ + 1, !.per_tag[ev.tag] = @ + 1]

(* Mutant: the histogram is still that of the first session.                *)
MutAttribute(ev) ==
    /\ ev.tag # Heartbeat
    /\ tl' = IF tl.cur = 0
             THEN [tl EXCEPT !.unattributed = @ + 1]
             ELSE [tl EXCEPT !.sessions[tl.cur].count = @ + 1,
                             !.sessions[1].per_tag[ev.tag] = @ + 1]
    /\ UNCHANGED <<rc, denied>>

Attribute(ev) ==
    /\ ev.tag # Heartbeat
    /\ tl' = IF tl.cur = 0
             THEN [tl EXCEPT !.unattributed = @ + 1]
             ELSE [tl EXCEPT !.sessions[tl.cur] = Extended(@, ev)]
    /\ UNCHANGED <<rc, denied>>

TimelineOnRecord(ev) ==
    /\ tool = "timeline"
    /\ TimelineOom(ev) \/ OpenSession(ev) \/ Attribute(ev)
    /\ UNCHANGED <<rep, top, idx, st, raised>>

-----------------------------------------------------------------------------
(* Validator: the severity of each check, in the order the code makes them; *)
(* a CONFIG record has one check for each of its pairs.                     *)

Checks ==
    [heartbeat |-> <<"warning">>, sensor |-> <<"info">>,
     event |-> <<"warning">>, diag |-> <<"warning">>,
     geo |-> <<"error", "error">>, battery |-> <<"error">>,
     net |-> <<"warning", "warning">>, log |-> <<"warning", "info">>,
     keyref |-> <<"warning">>, firmware |-> <<"warning">>]

Severity(tag, i) == IF tag = "config" THEN "error" ELSE Checks[tag][i]

Issue(sev, section, inSection) ==
    [severity |-> sev, section |-> section, inSection |-> inSection]

Findings(ev) ==
    [k \in DOMAIN ev.faults |->
       Issue(Severity(ev.tag, ev.faults[k]), ev.section, ev.inSection)]

Full(r) == Len(r.issues) = r.cap

(* Mutant: the counters move before the array is known to have room.        *)
MutAdd(r, issue, granted) ==
    [r EXCEPT !.issues = IF Full(r) /\ ~granted THEN @ ELSE Append(@, issue),
              !.cap = IF Full(r) /\ granted THEN NewCap(@) ELSE @,
              !.errors = IF issue.severity = "error" THEN @ + 1 ELSE @,
              !.warnings = IF issue.severity = "warning" THEN @ + 1 ELSE @]

Add(r, issue, granted) ==
    IF Full(r) /\ ~granted
    THEN r
    ELSE [r EXCEPT !.issues = Append(@, issue),
                   !.cap = IF Full(r) THEN NewCap(@) ELSE @,
                   !.errors = IF issue.severity = "error" THEN @ + 1 ELSE @,
                   !.warnings = IF issue.severity = "warning" THEN @ + 1
                                                              ELSE @]

(* Add the issues of f one by one; grants tells for which of them the arena *)
(* has room, should the array have to grow.                                 *)
Added(f, r, grants) ==
    LET acc[k \in 0 .. Len(f)] ==
          IF k = 0 THEN r ELSE Add(acc[k - 1], f[k], k \in grants)
    IN  acc[Len(f)]

Report(f, r, grants) ==
    /\ rep' = Added(f, r, grants)
    /\ raised' = raised \o f
    /\ denied' = (denied \/ Len(rep'.issues) < Len(r.issues) + Len(f))

ValidateOnRecord(ev) ==
    /\ tool = "validate"
    /\ LET f == Findings(ev) IN
         \E grants \in SUBSET DOMAIN f :
            Report(f, [rep EXCEPT !.checked = @ + 1], grants)
    /\ UNCHANGED <<rc, tl, top, idx, st>>

-----------------------------------------------------------------------------
(* Top-k: collect the records that carry the field, then sort them.         *)

TopkOnRecord(ev) ==
    /\ tool = "topk"
    /\ \/ /\ ev.tag # TopField
          /\ UNCHANGED <<rc, top, denied>>
       \/ /\ ev.tag = TopField /\ Len(top.entries) = top.cap
          /\ rc' = "OOM" /\ denied' = TRUE
          /\ UNCHANGED top
       \/ /\ ev.tag = TopField
          /\ top' = [top EXCEPT
                       !.entries = Append(@, [value |-> ev.v,
                                              index |-> ev.index]),
                       !.cap = IF Len(top.entries) = @ THEN NewCap(@) ELSE @]
          /\ UNCHANGED <<rc, denied>>
    /\ UNCHANGED <<tl, rep, idx, st, raised>>

(* Mutant: <= in place of <, an equal entry is passed over.                 *)
MutPlaced(sorted, key) ==
    LET stays == {j \in DOMAIN sorted : sorted[j].value > key.value}
    IN  InsertAt(sorted, Cardinality(stays) + 1, key)

(* One step of the insertion sort: key goes above every smaller entry.      *)
Placed(sorted, key) ==
    LET stays == {j \in DOMAIN sorted : ~ (sorted[j].value < key.value)}
        at    == IF stays = {} THEN 1
                 ELSE 1 + CHOOSE j \in stays : \A k \in stays : k <= j
    IN  InsertAt(sorted, at, key)

TopkSort(entries) ==
    LET sorted[k \in 0 .. Len(entries)] ==
          IF k = 0 THEN <<>> ELSE Placed(sorted[k - 1], entries[k])
    IN  sorted[Len(entries)]

Shown(n) == IF TopN = 0 \/ TopN > n THEN n ELSE TopN

-----------------------------------------------------------------------------
(* Index: fixed-size chunks on a list, the newest at its tail.              *)

ChunkFull == idx.chunks # <<>> => Len(Last(idx.chunks)) = ChunkCap

Entry(ev) == [tag |-> ev.tag, section |-> ev.section,
              inSection |-> ev.inSection, index |-> ev.index]

(* Mutant: a new chunk becomes the head instead of following the tail.      *)
MutPosted(chunks, e) ==
    IF ChunkFull
    THEN <<<<e>>>>
    ELSE [chunks EXCEPT ![Len(chunks)] = Append(@, e)]

Posted(chunks, e) ==
    IF ChunkFull
    THEN Append(chunks, <<e>>)
    ELSE [chunks EXCEPT ![Len(chunks)] = Append(@, e)]

IndexOnRecord(ev) ==
    /\ tool = "index"
    /\ \/ /\ ChunkFull
          /\ rc' = "OOM" /\ denied' = TRUE
          /\ UNCHANGED idx
       \/ /\ idx' = [idx EXCEPT !.chunks = Posted(@, Entry(ev)),
                                !.per_tag[ev.tag] = @ + 1,
                                !.total = @ + 1]
          /\ UNCHANGED <<rc, denied>>
    /\ UNCHANGED <<tl, rep, top, st, raised>>

(* The elements of s with tag t, in order.                                  *)
OfTag(s, t) ==
    LET sel[i \in 0 .. Len(s)] ==
          IF i = 0 THEN <<>>
          ELSE IF s[i].tag = t THEN Append(sel[i - 1], s[i]) ELSE sel[i - 1]
    IN  sel[Len(s)]

(* The entries dtl_index_foreach_tag calls back with, in order.             *)
ForeachTag(t) == OfTag(FlattenSeq(idx.chunks), t)

-----------------------------------------------------------------------------
(* Stats: counters and one numeric aggregate per tag.                       *)

(* A comparison with NaN is false, so a NaN is an extreme only when it is   *)
(* the first value, and then no later value replaces it.                    *)
Less(a, b) == a # NaN /\ b # NaN /\ a < b

(* Mutant: the first value is compared with the zeroed minimum.             *)
MutNumAdd(ns, v) ==
    [count |-> ns.count + 1,
     min   |-> IF Less(v, ns.min) THEN v ELSE ns.min,
     max   |-> IF Less(ns.max, v) THEN v ELSE ns.max,
     sum   |-> Plus(ns.sum, v)]

NumAdd(ns, v) ==
    [count |-> ns.count + 1,
     min   |-> IF ns.count = 0 \/ Less(v, ns.min) THEN v ELSE ns.min,
     max   |-> IF ns.count = 0 \/ Less(ns.max, v) THEN v ELSE ns.max,
     sum   |-> Plus(ns.sum, v)]

(* The loop over the samples of a record.                                   *)
NumAddAll(ns, vs) ==
    LET acc[k \in 0 .. Len(vs)] ==
          IF k = 0 THEN ns ELSE NumAdd(acc[k - 1], vs[k])
    IN  acc[Len(vs)]

StatsOnRecord(ev) ==
    /\ tool = "stats"
    /\ st' = [st EXCEPT !.total = @ + 1,
                        !.per_tag[ev.tag] = @ + 1,
                        !.num[ev.tag] = NumAddAll(@, ev.samples)]
    /\ UNCHANGED <<rc, tl, rep, top, idx, raised, denied>>

-----------------------------------------------------------------------------
(* The walk.                                                                *)

Event(r) == [tag |-> r.tag, v |-> r.v, samples |-> r.samples,
             faults |-> r.faults, section |-> pos.section, inSection |-> pos.inSection,
             index |-> pos.index]

OnRecord ==
    /\ rc = "walking" /\ events < MaxEvents
    /\ \E r \in Inputs[tool] :
         /\ \/ TimelineOnRecord(Event(r)) \/ ValidateOnRecord(Event(r))
            \/ TopkOnRecord(Event(r)) \/ IndexOnRecord(Event(r))
            \/ StatsOnRecord(Event(r))
         /\ seen' = IF rc' = "walking" THEN Append(seen, Event(r)) ELSE seen
    /\ pos' = [pos EXCEPT !.inSection = @ + 1, !.index = @ + 1]
    /\ events' = events + 1
    /\ UNCHANGED <<tool, files>>

(* A record that does not parse: timeline, topk and index pass no handler.  *)
OnError ==
    /\ rc = "walking" /\ events < MaxEvents
    /\ \/ /\ tool = "validate"
          /\ \E grants \in SUBSET {1} :
               Report(<<Issue("error", pos.section, pos.inSection)>>, rep, grants)
          /\ UNCHANGED st
       \/ /\ tool = "stats"
          /\ st' = [st EXCEPT !.parse_errors = @ + 1]
          /\ UNCHANGED <<rep, raised, denied>>
       \/ /\ tool \notin {"validate", "stats"}
          /\ UNCHANGED <<st, rep, raised, denied>>
    /\ pos' = [pos EXCEPT !.inSection = @ + 1]
    /\ events' = events + 1
    /\ UNCHANGED <<tool, rc, tl, top, idx, seen, files>>

NextSection ==
    /\ rc = "walking" /\ events < MaxEvents
    /\ pos' = [pos EXCEPT !.section = @ + 1, !.inSection = 0]
    /\ events' = events + 1
    /\ UNCHANGED <<tool, rc, tl, rep, top, idx, st, seen, raised, denied,
                   files>>

(* dtl_walk_file returns: the validator adds an issue for a rejected        *)
(* container, topk sorts and prints.                                        *)
WalkReturns ==
    /\ rc = "walking"
    /\ rc' \in {"ok", "rejected"}
    /\ IF tool = "validate" /\ rc' # "ok"
       THEN \E grants \in SUBSET {1} :
              Report(<<Issue("error", 0, 0)>>, rep, grants)
       ELSE UNCHANGED <<rep, raised, denied>>
    /\ top' = IF tool = "topk" /\ rc' = "ok"
              THEN [top EXCEPT !.shown =
                      SubSeq(TopkSort(top.entries), 1,
                             Shown(Len(top.entries)))]
              ELSE top
    /\ UNCHANGED <<tool, pos, tl, idx, st, seen, events, files>>

(* dtl_stats_collect_file is called again with the same accumulator.        *)
AnotherFile ==
    /\ tool = "stats" /\ rc # "walking" /\ files < MaxFiles
    /\ rc' = "walking"
    /\ pos' = [section |-> 0, inSection |-> 0, index |-> 0]
    /\ files' = files + 1
    /\ UNCHANGED <<tool, tl, rep, top, idx, st, seen, raised, denied, events>>

Done == rc # "walking" /\ UNCHANGED vars

Next == OnRecord \/ OnError \/ NextSection \/ WalkReturns \/ AnotherFile \/ Done

Spec == Init /\ [][Next]_vars

-----------------------------------------------------------------------------
(* Properties.                                                              *)

(* The events that are heartbeats, and the pairs of consecutive ones.       *)
Beats == {i \in DOMAIN seen : seen[i].tag = Heartbeat}

BeatPairs == {p \in Beats \X Beats :
                p[1] < p[2] /\ \A b \in Beats : ~(p[1] < b /\ b < p[2])}

(* The events of session k, from the heartbeat that opened it.              *)
From(k) == tl.sessions[k].first + 1

To(k) == IF k = Len(tl.sessions) THEN Len(seen) ELSE From(k + 1) - 1

(* dtl_timeline_on_record attributes every record to the session of the     *)
(* most recent heartbeat, whatever growing the session array did between:   *)
(* the sessions and the unattributed records cut the delivered sequence at  *)
(* exactly its heartbeats, and the histogram of a session counts its        *)
(* records of each tag, above whatever the session's memory held when it    *)
(* was opened: dtl_timeline_open_session sets the heartbeat's counter only. *)
SessionsPartition ==
    tool = "timeline" =>
      /\ {From(k) : k \in DOMAIN tl.sessions} = Beats
      /\ tl.unattributed = IF tl.sessions = <<>> THEN Len(seen) ELSE From(1) - 1
      /\ \A k \in DOMAIN tl.sessions :
           /\ \A j \in 1 .. k - 1 : From(j) < From(k)
           /\ tl.sessions[k].uptime = seen[From(k)].v
           /\ tl.sessions[k].count = To(k) - From(k) + 1
           /\ tl.sessions[k].per_tag[Heartbeat] = 1
           /\ \A t \in Tags \ {Heartbeat} : \E g \in Garbage :
                tl.sessions[k].per_tag[t]
                  = g + Cardinality({i \in From(k) .. To(k) : seen[i].tag = t})

(* The anomaly totals count exactly the pairs of consecutive heartbeats     *)
(* that timeline.h calls a gap or an ordering violation, each pair once.    *)
AnomaliesCounted ==
    tool = "timeline" =>
      LET Step(p) == seen[p[2]].v - seen[p[1]].v
      IN  /\ tl.gaps = Cardinality({p \in BeatPairs : Step(p) > Limit})
          /\ tl.orderings = Cardinality({p \in BeatPairs : Step(p) < 0})

(* The totals of the validator agree with its list, and unless growing the  *)
(* list failed every issue raised is on it in the order it was raised       *)
(* (dtl_validate_add).                                                      *)
IssuesComplete ==
    tool = "validate" =>
      LET Of(sev) == {i \in DOMAIN rep.issues : rep.issues[i].severity = sev}
      IN  /\ rep.errors = Cardinality(Of("error"))
          /\ rep.warnings = Cardinality(Of("warning"))
          /\ ~denied => rep.issues = raised

(* dtl_topk_file prints the records that carry the field in descending      *)
(* order, equal values in wire order, and leaves out none that ranks above  *)
(* one it prints.                                                           *)
Ranked ==
    (tool = "topk" /\ rc = "ok") =>
      LET Above(e, f) == e.value > f.value
                           \/ (e.value = f.value /\ e.index < f.index)
          carrying == {[value |-> seen[i].v, index |-> seen[i].index] :
                          i \in {j \in DOMAIN seen : seen[j].tag = TopField}}
      IN  /\ Len(top.shown) = Shown(Cardinality(carrying))
          /\ \A i \in DOMAIN top.shown : top.shown[i] \in carrying
          /\ \A i, j \in DOMAIN top.shown :
               i < j => Above(top.shown[i], top.shown[j])
          /\ \A e \in carrying : \A i \in DOMAIN top.shown :
               Above(e, top.shown[i]) => e \in Range(top.shown)

(* Looking a tag up in the index gives every record of that tag delivered   *)
(* so far, in wire order, as many as the posting summary prints             *)
(* (dtl_index_append and dtl_index_foreach_tag across chunks).              *)
IndexFindsAll ==
    tool = "index" =>
      \A t \in Tags :
        LET wire == OfTag(seen, t)
        IN  /\ ForeachTag(t) = [i \in DOMAIN wire |-> Entry(wire[i])]
            /\ idx.per_tag[t] = Len(wire)

(* The values of tag t delivered so far, and their sum in that order.       *)
Samples(s, t) ==
    LET wire == OfTag(s, t)
    IN  FlattenSeq([i \in DOMAIN wire |-> wire[i].samples])

Summed(all) ==
    LET sum[k \in 0 .. Len(all)] ==
          IF k = 0 THEN 0 ELSE Plus(sum[k - 1], all[k])
    IN  sum[Len(all)]

(* The aggregate ns of the values all.                                      *)
AggregateOf(ns, all) ==
    LET numbers == Range(all) \ {NaN}
    IN  /\ ns.count = Len(all) /\ ns.sum = Summed(all)
        /\ IF all # <<>> /\ all[1] = NaN
           THEN ns.min = NaN /\ ns.max = NaN
           ELSE /\ all # <<>> => ns.min \in numbers /\ ns.max \in numbers
                /\ \A x \in numbers : ns.min <= x /\ x <= ns.max

(* What dtl_stats_print prints of a tag is count, sum and extremes of every *)
(* value delivered, over all containers combined into the accumulator and   *)
(* whatever walks failed in between.  Values that are not numbers are       *)
(* counted and added, and are no extremes, unless one comes first: then     *)
(* dtl_num_add keeps it as both minimum and maximum for good.               *)
StatsExact ==
    tool = "stats" =>
      /\ st.total = Len(seen)
      /\ \A t \in Tags : /\ st.per_tag[t] = Len(OfTag(seen, t))
                         /\ AggregateOf(st.num[t], Samples(seen, t))
=============================================================================
