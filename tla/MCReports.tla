---------------------------- MODULE MCReports --------------------------------
(***************************************************************************)
(* Arrays that first hold one entry, so that five callbacks grow them      *)
(* three times; for each report the records that make its cases occur.     *)
(* The doubles are -4 .. 4, of which -4 and 4 are the infinities.          *)
(***************************************************************************)
EXTENDS Reports

MCDoubles == -4 .. 4

Infinite(a) == a \in {-4, 4}

(* Infinities absorb, two that differ give NaN, and large sums round.       *)
MCPlus(a, b) ==
    CASE NaN \in {a, b}                          -> NaN
      [] Infinite(a) /\ Infinite(b) /\ a # b     -> NaN
      [] Infinite(a)                             -> a
      [] Infinite(b)                             -> b
      [] a + b > 3                               -> 4
      [] a + b < -3                              -> -4
      [] OTHER                                   -> a + b

Rec(tags, vs) == [tag : tags, v : vs, samples : {<<>>}, faults : {<<>>}]

Faulty(tag, fs) == [tag : {tag}, v : {0}, samples : {<<>>}, faults : fs]

Sampled(tag, ss) == [tag : {tag}, v : {0}, samples : ss, faults : {<<>>}]

MCInputs ==
    [timeline |-> Rec({"heartbeat"}, {0, 2, 3}) \cup Rec({"geo"}, {0}),
     validate |-> Faulty("geo", {<<>>, <<2>>}) \cup Faulty("log", {<<1, 2>>})
                    \cup Faulty("config", {<<1, 2, 4>>}),
     topk     |-> Rec({"geo"}, {0, 1, 2}) \cup Rec({"log"}, {2}),
     index    |-> Rec({"geo", "log"}, {0}),
     stats    |-> Sampled("geo", {<<-2>>, <<3>>}) \cup Rec({"log"}, {0})
                    \cup Sampled("sensor", {<<NaN>>, <<1, NaN, -4>>, <<2, 4>>})]
=============================================================================
