------------------------------ MODULE MCConvert -----------------------------
(***************************************************************************)
(* Tables for TLC: every single record over small payloads and strings of  *)
(* up to three characters of every kind that quoting, escaping and line      *)
(* splitting treat differently, and pairs of some of them.                 *)
(***************************************************************************)
EXTENDS Convert

RoundSix(v) == IF v = "0.12345678" THEN "0.123457" ELSE v
Numbers == {"0.5", "0.123457", "0.12345678"}
NotNumbers == {"nan"}

Chars == {"x", "\"", "\\", ",", "NL", "CR", "TAB", "BS", "NUL", "u"}
Strings == BoundedSeq(Chars, 3)

Fixed == {Rec("HEARTBEAT", <<99, 10>>, <<>>, <<>>, <<>>), Rec("GEO", <<-64, 0, 63>>, <<>>, <<>>, <<>>),
          Rec("BATTERY", <<31, -32, 100>>, <<>>, <<>>, <<>>), Rec("NET", <<0, 1, 127, 3, 4>>, <<>>, <<>>, <<>>),
          Rec("FIRMWARE", <<1, 63, 20>>, <<>>, <<0, 171>>, <<>>)}
Sensors == {Rec("SENSOR", <<63>>, <<>>, <<>>, s) :
              s \in BoundedSeq({"0.5", "0.12345678", "nan"}, 2) \cup {[i \in 1 .. n |-> "0.5"] : n \in {4, 5, 31}}}
Blobs(tag) == {Rec(tag, <<5>>, <<>>, b, <<>>) : b \in BoundedSeq({0, 10, 171}, 2) \cup {[i \in 1 .. n |-> 18] : n \in 3 .. 4}}
Logs == {Rec("LOG", <<3>>, <<s>>, <<>>, <<>>) : s \in Strings \cup {[i \in 1 .. n |-> "x"] : n \in 7 .. 8}}
Keyrefs == {Rec("KEYREF", <<7>>, <<s>>, <<>>, <<>>) : s \in BoundedSeq(Chars, 2)}
Configs == {Rec("CONFIG", <<>>, s, <<>>, <<>>) :
              s \in {<<>>} \cup TupleOf(BoundedSeq(Chars, 1), 2)
                    \cup {<<<<"x">>, <<"x", "NUL">>, <<"x">>, <<"CR">>>>, <<<<"x">>, <<"x">>, <<"x">>, <<"\"">>>>, [i \in 1 .. 6 |-> <<"x">>]}}

Singles == Fixed \cup Sensors \cup Blobs("EVENT") \cup Blobs("DIAG") \cup Logs \cup Keyrefs \cup Configs
Plain == Fixed \cup {Rec("SENSOR", <<63>>, <<>>, <<>>, <<"0.5", "0.12345678">>), Rec("EVENT", <<5>>, <<>>, <<10, 0>>, <<>>),
                     Rec("DIAG", <<5>>, <<>>, <<10, 171>>, <<>>), Rec("LOG", <<3>>, <<<<"\"", ",">>>>, <<>>, <<>>),
                     Rec("CONFIG", <<>>, <<<<"x">>, <<"x">>, <<"x">>, <<",">>>>, <<>>, <<>>),
                     Rec("KEYREF", <<7>>, <<<<"NL">>>>, <<>>, <<>>)}
Pairs == {<<r, q>> : r \in Plain, q \in Plain}

AllTables == {<<>>} \cup {<<r>> : r \in Singles \cup Plain} \cup Pairs
CutTables == {<<r>> : r \in Plain} \cup {<<r, q>> : r \in {Rec("HEARTBEAT", <<99, 10>>, <<>>, <<>>, <<>>)}, q \in Plain}
=============================================================================
