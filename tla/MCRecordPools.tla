---------------------------- MODULE MCRecordPools ----------------------------
(***************************************************************************)
(* RecordPools with tables of two or three entries: every table fills,     *)
(* wraps and overflows within MaxAllocs payloads.                          *)
(***************************************************************************)
EXTENDS RecordPools

Tlv(tag, n, bad) == [tag |-> tag, n |-> n, bad |-> bad]

AllTlvs ==
  {Tlv("FIXED", 0, "no"), Tlv("FIXED", 0, "length"), Tlv("UNKNOWN", 0, "no"),
   Tlv("LOG", 1, "no"), Tlv("LOG", 1, "header"),
   Tlv("EVENT", 0, "no"), Tlv("EVENT", 1, "no"), Tlv("EVENT", 1, "length"),
   Tlv("SENSOR", 0, "no"), Tlv("SENSOR", 1, "no"), Tlv("SENSOR", 1, "header"),
   Tlv("CONFIG", 0, "no"), Tlv("CONFIG", 2, "no"), Tlv("CONFIG", 3, "no"),
   Tlv("CONFIG", 1, "body"), Tlv("CONFIG", 2, "trailing"), Tlv("CONFIG", 0, "header"),
   Tlv("DIAG", 1, "no"), Tlv("DIAG", 2, "no"), Tlv("DIAG", 5, "no"), Tlv("DIAG", 1, "length"),
   Tlv("KEYREF", 1, "no"), Tlv("KEYREF", 1, "body"), Tlv("KEYREF", 1, "trailing"),
   Tlv("KEYREF", 4, "no"), Tlv("KEYREF", 4, "trailing"), Tlv("KEYREF", 0, "header")}
=============================================================================
