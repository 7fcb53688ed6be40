----------------------------- MODULE MCRewrite -------------------------------
(***************************************************************************)
(* Inputs of up to three sections.  hb, log, geo are records without a     *)
(* pooled payload, keyA and keyB two KEYREF records of one slot, nan a     *)
(* SENSOR record with a NaN sample, cfg0 a CONFIG record with a zero byte  *)
(* in a value, which is written back as cfg; cfgL is a CONFIG record whose *)
(* freed string has no end in sight.  evA and evB are EVENT records of     *)
(* different payloads; the table keeps one of them per section.            *)
(***************************************************************************)
EXTENDS Rewrite

Content(kind, plen, class, self, rewritten) ==
  [kind |-> kind, plen |-> plen, flaw |-> "none", class |-> class, self |-> self,
   rewritten |-> rewritten]

MCContents ==
  [c \in {"hb", "log", "geo", "keyA", "keyB", "nan", "cfg0", "cfg", "cfgL", "evA", "evB"} |->
     CASE c = "hb" -> Content("HEARTBEAT", 1, 1, TRUE, "hb")
       [] c = "log" -> Content("LOG", 2, 2, TRUE, "log")
       [] c = "geo" -> Content("GEO", 4, 6, TRUE, "geo")
       [] c = "keyA" -> Content("KEYREF", 1, 3, TRUE, "keyA")
       [] c = "keyB" -> Content("KEYREF", 1, 3, TRUE, "keyB")
       [] c = "nan" -> Content("SENSOR", 1, 4, FALSE, "nan")
       [] c = "cfg0" -> Content("CONFIG", 2, 5, TRUE, "cfg")
       [] c = "cfg" -> Content("CONFIG", 1, 5, TRUE, "cfg")
       [] c = "cfgL" -> [Content("CONFIG", 1, 7, TRUE, "cfgL") EXCEPT !.flaw = "long"]
       [] c = "evA" -> Content("EVENT", 1, 8, TRUE, "evA")
       [] c = "evB" -> Content("EVENT", 1, 9, TRUE, "evB")]

Sec(type, codec, stream) == [type |-> type, codec_id |-> codec, stream |-> stream]

(* A word codec only holds streams of whole words, if not whole records.   *)
MCSections == {Sec(1, "store", <<"hb">>), Sec(1, "store", <<"hb", "log">>),
               Sec(2, "words", <<"hb", "keyA">>), Sec(2, "store", <<"log", "cfg0">>),
               Sec(1, "words", <<"keyB", "hb", "hb">>), Sec(2, "store", <<"nan", "hb", "nan">>),
               Sec(2, "words", <<"log", "geo">>), Sec(1, "store", <<"evA", "evB">>)}

MCSources == {<<>>} \union {<<s>> : s \in MCSections}
             \union {<<s, t>> : s \in MCSections, t \in MCSections}
             \union {<<Sec(1, "store", <<"hb">>), Sec(2, "store", <<"log">>),
                       Sec(1, "store", <<"keyA">>)>>}

MCFilters == {{}, {"hb"}, {"log", "keyA", "nan"}}
MCRecords == {Rewritten(c) : c \in DOMAIN MCContents}
=============================================================================
