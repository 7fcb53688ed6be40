------------------------------- MODULE MCWalk -------------------------------
(***************************************************************************)
(* Containers for TLC: every single section of up to two TLVs of pooled    *)
(* kinds, and pairs of sections in which records fail, streams are cut and *)
(* sections cannot be decoded.  Two walks in a row may meet any two, and   *)
(* an emit may come before a walk.                                         *)
(***************************************************************************)
EXTENDS Commands

Tlv(tag, n, bad) == [tag |-> tag, n |-> n, bad |-> bad, id |-> 0, val |-> <<<<"0">>>>]
Named(w, id) == [w EXCEPT !.id = id]
Valued(w, val) == [w EXCEPT !.val = <<val>>]

GoodEvent == Tlv("EVENT", 1, "no")
GoodSensor == Tlv("SENSOR", 1, "no")
GoodConfig == Tlv("CONFIG", 1, "no")
GoodDiag == Tlv("DIAG", 3, "no")
GoodKeyref == Tlv("KEYREF", 1, "no")

BadDiag == Tlv("DIAG", 3, "length")
BadKeyref == Tlv("KEYREF", 1, "body")

PooledTlvs == {GoodEvent, GoodSensor, GoodConfig, GoodDiag, GoodKeyref, BadKeyref}

Stream(tlvs, tail) ==
  [fate |-> "ok", tlvs |-> tlvs, tail |-> tail,
   raw |-> IF tlvs = <<>> /\ tail = "clean" THEN "zero" ELSE "exact"]
Streams(tlvs, n, tails) == {Stream(s, t) : s \in BoundedSeq(tlvs, n), t \in tails}
Skipped(fates) == [fate : fates, tlvs : {<<>>}, tail : {"clean"}, raw : {"exact"}]
Container(sections) == [rc |-> "OK", sections |-> sections]
Rejected == [rc |-> "BADMAGIC", sections |-> <<>>]

OneSection == {Container(<<s>>) : s \in Streams(PooledTlvs, 2, {"clean"})}

TwoSections ==
  {Container(<<s, t>>) :
     s \in Streams({GoodEvent, BadDiag}, 2, {"cut"}) \cup Skipped({"codec", "big", "corrupt"}),
     t \in Streams({GoodEvent, BadDiag}, 1, {"clean", "cut"}) \cup Skipped({"corrupt"})}

MixedContainers == OneSection \cup TwoSections \cup {Container(<<>>), Rejected}

TwoOfAKind ==
  {Container(<<s, s>>) : s \in Streams(PooledTlvs, 2, {"clean"})}

(***************************************************************************)
(* Inputs of emit: slots used, unused and past the end; subsystems on both *)
(* sides of the limit; filters that look at what redaction changes.        *)
(***************************************************************************)
EmitTlvs == {Named(GoodKeyref, 1), Named(GoodKeyref, 3), Named(GoodKeyref, 9),
             Named(GoodDiag, 65279), Named(GoodDiag, 65280), GoodEvent, BadKeyref,
             Tlv("UNKNOWN", 1, "no")}

EmitFilters == {"none", "labelled", "redacted"}
Accepts(f, r) == CASE f = "labelled" -> r.tag = "KEYREF" /\ r.n > 0
                   [] f = "redacted" -> r.redacted

Odd == {Stream(<<Named(GoodKeyref, 2)>>, "cut"), Stream(<<>>, "clean"),
        [Stream(<<GoodEvent>>, "clean") EXCEPT !.raw = "short"],
        [Stream(<<GoodEvent>>, "clean") EXCEPT !.fate = "big"]}
       \cup Skipped({"codec", "corrupt"})

EmitFiles ==
  {Container(<<s>>) : s \in Streams(EmitTlvs, 2, {"clean"})}
  \cup {Container(<<Stream(<<w>>, "clean"), s>>) : w \in EmitTlvs, s \in Odd}
  \cup {Container(<<s, Stream(<<Named(GoodKeyref, 1)>>, "clean")>>) : s \in Odd}
  \cup {Rejected}

EmitCases == EmitFiles \X EmitFilters

(***************************************************************************)
(* Inputs of diff: a file against itself and against files of one record,  *)
(* with payloads that differ, NaN and negative zero among the samples, and *)
(* a message that goes on behind a zero byte.                              *)
(***************************************************************************)
DiffTlvs == {GoodSensor, Valued(GoodSensor, <<"NaN">>), Valued(GoodSensor, <<"-0">>),
             GoodKeyref, GoodConfig, Tlv("DIAG", 2, "no"), Valued(Tlv("DIAG", 2, "no"), <<"-0">>),
             GoodEvent, Tlv("LOG", 1, "no"), Valued(Tlv("LOG", 3, "no"), <<"0", "NUL", "1">>),
             BadKeyref}

Files(n) == {Container(<<s>>) : s \in Streams(DiffTlvs, n, {"clean"})}

DiffCases ==
  LET keyed(f) == \E i \in DOMAIN f.sections[1].tlvs : f.sections[1].tlvs[i].tag = "KEYREF"
  IN  {d \in [a : Files(2), b : Files(2), ignore : BOOLEAN] :
         /\ d.b = d.a \/ d.b \in Files(1)
         /\ d.ignore => keyed(d.a)}
      \cup [a : {Rejected, Container(<<>>)}, b : {Rejected}, ignore : {FALSE}]

WireTlvs == PooledTlvs \cup {BadDiag, Named(GoodKeyref, 2)} \cup EmitTlvs \cup DiffTlvs
=============================================================================
