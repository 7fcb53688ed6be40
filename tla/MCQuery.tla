------------------------------ MODULE MCQuery -------------------------------
(***************************************************************************)
(* Texts for TLC: every text of up to four single characters, and longer   *)
(* ones made of whole tokens, where nesting, precedence and comparison     *)
(* between fields and constants happen.  Integers are seven bits and a     *)
(* sign wide, and eleven nested calls are allowed.                         *)
(***************************************************************************)
EXTENDS Query

AllBytes == <<"NUL", " ", "!", "\"", "&", "(", ")", "-", ".", "0", "1", "2", "7", "8", "9", "<", "=",
              ">", "?", "BATTERY", "LOG", "\\", "a", "battery", "len", "msg", "pct", "type", "|">>
AllLetters == {"BATTERY", "LOG", "a", "battery", "len", "msg", "pct", "type"}

Lots == 99
One(S) == {<<c>> : c \in S}

Characters == [pieces |-> One({"\"", "\\", "a", "?", " ", "!", "=", "&", "-", "1", "."}), max |-> 4,
               arenas |-> {Lots}]
Numbers == [pieces |-> One({"-", "0", "1", "2", "7", "8", " "}), max |-> 5, arenas |-> {Lots}]
Nesting == [pieces |-> One({"(", ")", "!", "pct"}), max |-> 7, arenas |-> {Lots}]
Logic == [pieces |-> One({"(", ")", "!", "pct"}) \cup {<<"&", "&">>, <<"|", "|">>, <<"=", "=">>, <<"1">>},
          max |-> 5, arenas |-> {Lots}]
Chains == [pieces |-> One({"msg", "1"}) \cup {<<"&", "&">>, <<"|", "|">>, <<"<">>, <<"=", "=">>},
           max |-> 5, arenas |-> {Lots}]
Fields == [pieces |-> One({"type", "len", "msg", "BATTERY", "battery", "a", ".", "<"})
                      \cup {<<"!", "=">>, <<"\"", "a", "\"">>, <<"=", "=">>},
           max |-> 4, arenas |-> {Lots}]
Memory == [pieces |-> One({"(", ")", "!", "pct", ".", "?"}) \cup {<<"&", "&">>, <<"\"", "a", "\"">>, <<"\"", "\\", "a", "\"">>},
           max |-> 4, arenas |-> 0 .. 7]
AllFeeds == {Characters, Numbers, Nesting, Logic, Chains, Fields, Memory}

Battery(pct, cycles) == [tag |-> "BATTERY", val |-> [pct |-> pct, temp |-> -1, cycles |-> cycles]]
Log(msg) == [tag |-> "LOG", val |-> [severity |-> 1, len |-> Len(msg), msg |-> msg]]
Config(pairs) == [tag |-> "CONFIG", val |-> pairs]
AllRecords == {Battery(1, 0), Battery(0, 0), Battery(200, 0), Log(<<"a", "NUL">>), Log(<<"a">>), Log(<<>>),
               Config(<<[key |-> <<"msg">>, value |-> <<"a", "NUL">>],
                        [key |-> <<"msg">>, value |-> <<>>]>>)}
=============================================================================
