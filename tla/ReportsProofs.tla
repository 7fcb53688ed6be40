---------------------------- MODULE ReportsProofs ----------------------------
(***************************************************************************)
(* The theorems of the report builders, for any number of records and of   *)
(* files, every first capacity, and every failure to grow.                 *)
(***************************************************************************)
EXTENDS Reports, DataLemmas, FiniteSetTheorems

(***************************************************************************)
(* The events of the walk and the numbers it gives them.                   *)
(***************************************************************************)
Values == Doubles \cup {NaN}

Ev == [tag : Tags, v : Nat, samples : Seq(Values), faults : Seq(Nat), section : Nat,
       inSection : Nat, index : Nat]

Pos == [section : Nat, inSection : Nat, index : Nat]

WalkTypes ==
  /\ tool \in Tools /\ seen \in Seq(Ev)
  /\ pos \in Pos

(***************************************************************************)
(* The fields of an event.                                                 *)
(***************************************************************************)
LEMMA EvFields ==
  \A e \in Ev : /\ e.tag \in Tags /\ e.v \in Nat /\ e.faults \in Seq(Nat)
                /\ e.samples \in Seq(Values)
                /\ e.section \in Nat /\ e.inSection \in Nat /\ e.index \in Nat
BY DEF Ev

(***************************************************************************)
(* What the walk delivers is an event.                                     *)
(***************************************************************************)
LEMMA EventTypes ==
  ASSUME WalkTypes, NEW r \in Inputs[tool]
  PROVE  Event(r) \in Ev
<1>1. r.tag \in Tags /\ r.v \in Nat /\ r.samples \in Seq(Values) /\ r.faults \in Seq(Nat)
  BY ReportConstants DEF WalkTypes, Values
<1>2. pos.section \in Nat /\ pos.inSection \in Nat /\ pos.index \in Nat
  BY DEF WalkTypes, Pos
<1> QED BY <1>1, <1>2 DEF Event, Ev

(***************************************************************************)
(* The counters of the walk.                                               *)
(***************************************************************************)
LEMMA PosTypes ==
  /\ [section |-> 0, inSection |-> 0, index |-> 0] \in Pos
  /\ \A p \in Pos :
       /\ [p EXCEPT !.inSection = @ + 1, !.index = @ + 1] \in Pos
       /\ [p EXCEPT !.inSection = @ + 1] \in Pos
       /\ [p EXCEPT !.section = @ + 1, !.inSection = 0] \in Pos
<1>1. \A p \in Pos : \A a, b \in Nat :
        /\ [p EXCEPT !.inSection = a, !.index = b] \in Pos
        /\ [p EXCEPT !.inSection = a] \in Pos
        /\ [p EXCEPT !.section = a, !.inSection = b] \in Pos
  BY DEF Pos
<1>2. \A p \in Pos : p.section + 1 \in Nat /\ p.inSection + 1 \in Nat /\ p.index + 1 \in Nat
  BY DEF Pos
<1>3. [section |-> 0, inSection |-> 0, index |-> 0] \in Pos
  BY DEF Pos
<1> HIDE DEF Pos
<1> QED BY <1>1, <1>2, <1>3

(***************************************************************************)
(* The walk delivers events or none, and keeps its counters.               *)
(***************************************************************************)
LEMMA WalkTypesStep ==
  ASSUME WalkTypes, [Next]_vars
  PROVE  WalkTypes' /\ tool' = tool
<1>1. CASE OnRecord
  <2>1. tool' = tool /\ pos' = [pos EXCEPT !.inSection = @ + 1, !.index = @ + 1]
    BY <1>1 DEF OnRecord
  <2>2. PICK r \in Inputs[tool] :
          seen' = IF rc' = "walking" THEN Append(seen, Event(r)) ELSE seen
    BY <1>1 DEF OnRecord
  <2>3. seen' \in Seq(Ev)
    BY <2>2, EventTypes DEF WalkTypes
  <2>4. pos' \in Pos
    BY <2>1, PosTypes DEF WalkTypes
  <2> QED BY <2>1, <2>3, <2>4 DEF WalkTypes
<1>2. CASE OnError \/ NextSection \/ AnotherFile \/ WalkReturns \/ Done \/ UNCHANGED vars
  <2>1. tool' = tool /\ seen' = seen
    BY <1>2 DEF OnError, NextSection, AnotherFile, WalkReturns, Done, vars
  <2>2. \/ pos' = pos
        \/ pos' = [pos EXCEPT !.inSection = @ + 1]
        \/ pos' = [pos EXCEPT !.section = @ + 1, !.inSection = 0]
        \/ pos' = [section |-> 0, inSection |-> 0, index |-> 0]
    BY <1>2 DEF OnError, NextSection, AnotherFile, WalkReturns, Done, vars
  <2>3. pos' \in Pos
    BY <2>2, PosTypes DEF WalkTypes
  <2> QED BY <2>1, <2>3 DEF WalkTypes
<1> QED BY <1>1, <1>2 DEF Next

(***************************************************************************)
(* A subset of the positions of a sequence, and one position more.         *)
(***************************************************************************)
LEMMA CountNext ==
  ASSUME NEW n \in Nat, NEW D \in SUBSET (1 .. n)
  PROVE  /\ IsFiniteSet(D) /\ Cardinality(D) \in Nat
         /\ Cardinality(D \cup {n + 1}) = Cardinality(D) + 1
<1>1. IsFiniteSet(1 .. n)
  BY FS_Interval
<1>2. IsFiniteSet(D)
  BY <1>1, FS_Subset
<1>3. n + 1 \notin D
  OBVIOUS
<1> QED BY <1>2, <1>3, FS_AddElement, FS_CardinalityType

-----------------------------------------------------------------------------

(***************************************************************************)
(* The timeline.  A session covers the events a .. b of s.                 *)
(***************************************************************************)
Sess == [uptime : Nat, count : Nat, first : Nat, per_tag : [Tags -> Nat]]

Sessions == [sessions : Seq(Sess), cap : Nat, cur : Nat, gaps : Nat, orderings : Nat,
             unattributed : Nat]

Covers(x, s, a, b) ==
  /\ x.uptime = s[a].v /\ x.count = b - a + 1 /\ x.per_tag[Heartbeat] = 1
  /\ \A t \in Tags \ {Heartbeat} : \E g \in Garbage :
       x.per_tag[t] = g + Cardinality({i \in a .. b : s[i].tag = t})

(***************************************************************************)
(* An event behind a session changes nothing in it.                        *)
(***************************************************************************)
LEMMA CoversKept ==
  ASSUME NEW s \in Seq(Ev), NEW e \in Ev, NEW x, NEW a \in 1 .. Len(s), NEW b \in 0 .. Len(s),
         Covers(x, s, a, b)
  PROVE  Covers(x, Append(s, e), a, b)
<1>1. \A i \in 1 .. Len(s) : Append(s, e)[i] = s[i]
  OBVIOUS
<1>2. \A i \in a .. b : i \in 1 .. Len(s)
  OBVIOUS
<1>3. PICK w : w = Append(s, e)
  OBVIOUS
<1>4. \A t : {i \in a .. b : w[i].tag = t} = {i \in a .. b : s[i].tag = t}
  BY <1>1, <1>2, <1>3
<1>5. w[a].v = s[a].v
  BY <1>1, <1>3
<1>6. Covers(x, w, a, b)
  BY <1>4, <1>5 DEF Covers
<1> QED BY <1>3, <1>6

(***************************************************************************)
(* The fields of a session, and of one with one record more.               *)
(***************************************************************************)
LEMMA SessFields ==
  ASSUME NEW x \in Sess, NEW e \in Ev
  PROVE  /\ x.uptime \in Nat /\ x.count \in Nat /\ x.first \in Nat /\ x.per_tag \in [Tags -> Nat]
         /\ Extended(x, e) \in Sess
         /\ Extended(x, e).uptime = x.uptime /\ Extended(x, e).first = x.first
         /\ Extended(x, e).count = x.count + 1
         /\ Extended(x, e).per_tag = [x.per_tag EXCEPT ![e.tag] = @ + 1]
<1>1. /\ x.uptime \in Nat /\ x.count \in Nat /\ x.first \in Nat /\ x.per_tag \in [Tags -> Nat]
      /\ x = [uptime |-> x.uptime, count |-> x.count, first |-> x.first, per_tag |-> x.per_tag]
  BY DEF Sess
<1>2. e.tag \in Tags
  BY EvFields
<1>3. PICK p \in [Tags -> Nat] : p = [x.per_tag EXCEPT ![e.tag] = @ + 1]
  <2>1. [x.per_tag EXCEPT ![e.tag] = @ + 1] \in [Tags -> Nat]
    BY <1>1, <1>2
  <2> QED BY <2>1
<1>4. PICK c \in Nat : c = x.count + 1
  BY <1>1
<1>5. Extended(x, e) = [uptime |-> x.uptime, count |-> x.count + 1, first |-> x.first,
                        per_tag |-> [x.per_tag EXCEPT ![e.tag] = @ + 1]]
  <2>1. PICK w : w = Extended(x, e)
    OBVIOUS
  <2>2. w = [uptime |-> x.uptime, count |-> x.count + 1, first |-> x.first,
             per_tag |-> [x.per_tag EXCEPT ![e.tag] = @ + 1]]
    BY <1>1, <2>1 DEF Extended
  <2> QED BY <2>1, <2>2
<1>6. Extended(x, e) = [uptime |-> x.uptime, count |-> c, first |-> x.first, per_tag |-> p]
  BY <1>3, <1>4, <1>5
<1> QED BY <1>1, <1>3, <1>4, <1>6 DEF Sess

(***************************************************************************)
(* The open session takes one record more.                                 *)
(***************************************************************************)
LEMMA CoversExtended ==
  ASSUME NEW s \in Seq(Ev), NEW e \in Ev, NEW x \in Sess, NEW a \in 1 .. Len(s),
         Covers(x, s, a, Len(s)), e.tag # Heartbeat
  PROVE  Covers(Extended(x, e), Append(s, e), a, Len(s) + 1)
<1>0. PICK n \in Nat : n = Len(s)
  OBVIOUS
<1>1. PICK w, y : w = Append(s, e) /\ y = Extended(x, e) /\ n = Len(s)
  BY <1>0
<1>2. (\A i \in 1 .. n : w[i] = s[i]) /\ w[n + 1] = e
  BY <1>1
<1>3. a \in 1 .. n
  BY <1>1
<1>4. /\ y.uptime = x.uptime /\ y.count = x.count + 1 /\ x.count \in Nat
      /\ y.per_tag = [x.per_tag EXCEPT ![e.tag] = @ + 1] /\ x.per_tag \in [Tags -> Nat]
  BY <1>1, SessFields
<1>5. /\ x.uptime = s[a].v /\ x.count = n - a + 1 /\ x.per_tag[Heartbeat] = 1
  BY <1>1 DEF Covers
<1>6. y.uptime = w[a].v /\ y.count = (n + 1) - a + 1
  BY <1>2, <1>3, <1>4, <1>5
<1>7. y.per_tag[Heartbeat] = 1
  BY <1>4, <1>5
<1>8. ASSUME NEW t \in Tags \ {Heartbeat}
      PROVE  \E g \in Garbage :
               y.per_tag[t] = g + Cardinality({i \in a .. n + 1 : w[i].tag = t})
  <2> DEFINE D == {i \in a .. n : s[i].tag = t}
             E == {i \in a .. n + 1 : w[i].tag = t}
  <2>1. PICK g \in Garbage : x.per_tag[t] = g + Cardinality(D)
    BY <1>1 DEF Covers
  <2>2. g \in Nat
    BY ReportConstants
  <2>3. D \in SUBSET (1 .. n)
    BY <1>3
  <2>4. Cardinality(D) \in Nat /\ Cardinality(D \cup {n + 1}) = Cardinality(D) + 1
    BY <2>3, CountNext
  <2>5. E = IF e.tag = t THEN D \cup {n + 1} ELSE D
    BY <1>2, <1>3
  <2>6. y.per_tag[t] = IF e.tag = t THEN x.per_tag[t] + 1 ELSE x.per_tag[t]
    BY <1>4
  <2> HIDE DEF D, E
  <2>7. y.per_tag[t] = g + Cardinality(E)
    BY <2>1, <2>2, <2>4, <2>5, <2>6
  <2> QED BY <2>7 DEF E
<1>9. Covers(y, w, a, n + 1)
  BY <1>6, <1>7, <1>8 DEF Covers
<1> QED BY <1>1, <1>9

(***************************************************************************)
(* A heartbeat opens a session.                                            *)
(***************************************************************************)
LEMMA CoversOpened ==
  ASSUME NEW s \in Seq(Ev), NEW e \in Ev, e.tag = Heartbeat,
         NEW g \in [Tags \ {Heartbeat} -> Garbage]
  PROVE  /\ Session(e, g) \in Sess /\ Session(e, g).first = e.index
         /\ Covers(Session(e, g), Append(s, e), Len(s) + 1, Len(s) + 1)
<1>0. PICK n \in Nat : n = Len(s)
  OBVIOUS
<1>1. PICK w, y : w = Append(s, e) /\ y = Session(e, g) /\ n = Len(s)
  BY <1>0
<1>2. w[n + 1] = e
  BY <1>1
<1>3. e.v \in Nat /\ e.index \in Nat /\ Heartbeat \in Tags
  BY EvFields
<1>4. PICK p : p = [t \in Tags |-> IF t = Heartbeat THEN 1 ELSE g[t]]
  OBVIOUS
<1>5. y = [uptime |-> e.v, count |-> 1, first |-> e.index, per_tag |-> p]
  BY <1>1, <1>4 DEF Session
<1>6. p \in [Tags -> Nat]
  BY <1>4, ReportConstants
<1>7. y \in Sess
  BY <1>3, <1>5, <1>6 DEF Sess
<1>8. y.per_tag[Heartbeat] = 1 /\ y.uptime = w[n + 1].v /\ y.count = (n + 1) - (n + 1) + 1
  BY <1>2, <1>3, <1>4, <1>5
<1>9. ASSUME NEW t \in Tags \ {Heartbeat}
      PROVE  \E h \in Garbage :
               y.per_tag[t] = h + Cardinality({i \in n + 1 .. n + 1 : w[i].tag = t})
  <2>1. {i \in n + 1 .. n + 1 : w[i].tag = t} = {}
    BY <1>2
  <2>2. Cardinality({}) = 0
    BY FS_EmptySet
  <2>3. y.per_tag[t] = g[t] /\ g[t] \in Garbage /\ g[t] \in Nat
    BY <1>4, <1>5, ReportConstants
  <2>4. y.per_tag[t] = g[t] + 0
    BY <2>3
  <2> QED BY <2>1, <2>2, <2>3, <2>4
<1>10. Covers(y, w, n + 1, n + 1)
  BY <1>8, <1>9 DEF Covers
<1> QED BY <1>1, <1>5, <1>7, <1>10

-----------------------------------------------------------------------------
(***************************************************************************)
(* The heartbeats among the events s, the pairs of consecutive ones, and   *)
(* the pairs that are a gap or out of order.                               *)
(***************************************************************************)
BeatsOf(s) == {i \in DOMAIN s : s[i].tag = Heartbeat}

PairsOf(s) == {p \in BeatsOf(s) \X BeatsOf(s) :
                 p[1] < p[2] /\ \A b \in BeatsOf(s) : ~(p[1] < b /\ b < p[2])}

GapsOf(s) == {p \in PairsOf(s) : s[p[2]].v - s[p[1]].v > Limit}

OrderingsOf(s) == {p \in PairsOf(s) : s[p[2]].v - s[p[1]].v < 0}

(***************************************************************************)
(* The heartbeats after one event more.                                    *)
(***************************************************************************)
LEMMA BeatsNext ==
  ASSUME NEW s \in Seq(Ev), NEW e \in Ev
  PROVE  /\ BeatsOf(s) \subseteq 1 .. Len(s)
         /\ e.tag = Heartbeat => BeatsOf(Append(s, e)) = BeatsOf(s) \cup {Len(s) + 1}
         /\ e.tag # Heartbeat => BeatsOf(Append(s, e)) = BeatsOf(s)
<1>1. PICK n \in Nat : n = Len(s)
  OBVIOUS
<1>2. PICK w : w = Append(s, e)
  OBVIOUS
<1>3. /\ DOMAIN s = 1 .. n /\ DOMAIN w = 1 .. n + 1 /\ w[n + 1] = e
      /\ \A i \in 1 .. n : w[i] = s[i]
  BY <1>1, <1>2
<1> QED BY <1>1, <1>2, <1>3 DEF BeatsOf

(***************************************************************************)
(* A heartbeat is paired with the last one before it.                      *)
(***************************************************************************)
LEMMA PairsNext ==
  ASSUME NEW s \in Seq(Ev), NEW e \in Ev, e.tag = Heartbeat,
         NEW m \in BeatsOf(s), \A b \in BeatsOf(s) : b <= m
  PROVE  PairsOf(Append(s, e)) = PairsOf(s) \cup {<<m, Len(s) + 1>>}
<1>1. PICK n \in Nat : n = Len(s)
  OBVIOUS
<1>2. PICK B, C : B = BeatsOf(s) /\ C = BeatsOf(Append(s, e))
  OBVIOUS
<1>3. B \subseteq 1 .. n /\ C = B \cup {n + 1} /\ m \in B /\ \A b \in B : b <= m
  BY <1>1, <1>2, BeatsNext
<1> DEFINE P(D) == {p \in D \X D : p[1] < p[2] /\ \A b \in D : ~(p[1] < b /\ b < p[2])}
<1>4. \A b \in B : b \in Nat /\ b <= n
  BY <1>3
<1>5. ASSUME NEW p \in P(C) PROVE p \in P(B) \cup {<<m, n + 1>>}
  <2>1. PICK i \in C, j \in C : p = <<i, j>> /\ i < j /\ \A b \in C : ~(i < b /\ b < j)
    OBVIOUS
  <2>2. i \in B
    BY <1>3, <1>4, <2>1
  <2>3. CASE j \in B
    BY <1>3, <2>1, <2>2, <2>3
  <2>4. CASE j = n + 1
    <3>1. ~(i < m /\ m < j)
      BY <1>3, <2>1
    <3>2. i <= m /\ m < j /\ i \in Nat /\ m \in Nat
      BY <1>3, <1>4, <2>2, <2>4
    <3>3. i = m
      BY <3>1, <3>2
    <3> QED BY <2>1, <2>4, <3>3
  <2> QED BY <1>3, <2>3, <2>4
<1>6. ASSUME NEW p \in P(B) PROVE p \in P(C)
  <2>1. PICK i \in B, j \in B : p = <<i, j>> /\ i < j /\ \A b \in B : ~(i < b /\ b < j)
    OBVIOUS
  <2>2. \A b \in C : ~(i < b /\ b < j)
    BY <1>3, <1>4, <2>1
  <2> QED BY <1>3, <2>1, <2>2
<1>7. <<m, n + 1>> \in P(C)
  <2>1. m \in C /\ n + 1 \in C /\ m < n + 1
    BY <1>3, <1>4
  <2>2. \A b \in C : ~(m < b /\ b < n + 1)
    BY <1>3, <1>4
  <2> QED BY <2>1, <2>2
<1>8. P(C) = P(B) \cup {<<m, n + 1>>}
  <2> HIDE DEF P
  <2> QED BY <1>5, <1>6, <1>7
<1> QED BY <1>1, <1>2, <1>8 DEF PairsOf

(***************************************************************************)
(* No pair without two heartbeats.                                         *)
(***************************************************************************)
LEMMA PairsFirst ==
  ASSUME NEW s \in Seq(Ev), NEW e \in Ev, e.tag = Heartbeat, BeatsOf(s) = {}
  PROVE  PairsOf(Append(s, e)) = {}
<1>1. PICK n \in Nat : n = Len(s)
  OBVIOUS
<1>2. BeatsOf(Append(s, e)) = {n + 1}
  BY <1>1, BeatsNext
<1> QED BY <1>2 DEF PairsOf

(***************************************************************************)
(* The pairs are finite, and made of events.                               *)
(***************************************************************************)
LEMMA PairsFinite ==
  ASSUME NEW s \in Seq(Ev)
  PROVE  /\ IsFiniteSet(PairsOf(s))
         /\ \A p \in PairsOf(s) : p[1] \in 1 .. Len(s) /\ p[2] \in 1 .. Len(s)
<1>1. PICK n \in Nat : n = Len(s)
  OBVIOUS
<1>2. PairsOf(s) \subseteq (1 .. n) \X (1 .. n)
  <2>1. BeatsOf(s) \subseteq 1 .. n
    BY <1>1 DEF BeatsOf
  <2> QED BY <2>1 DEF PairsOf
<1>3. IsFiniteSet((1 .. n) \X (1 .. n))
  <2>1. IsFiniteSet(1 .. n)
    BY FS_Interval
  <2> QED BY <2>1, FS_Product
<1>4. IsFiniteSet(PairsOf(s))
  BY <1>2, <1>3, FS_Subset
<1>5. \A p \in PairsOf(s) : p[1] \in 1 .. Len(s) /\ p[2] \in 1 .. Len(s)
  BY <1>1, <1>2
<1> QED BY <1>4, <1>5

(***************************************************************************)
(* The numbers of pairs that are a gap, and out of order.                  *)
(***************************************************************************)
LEMMA AnomaliesType ==
  ASSUME NEW s \in Seq(Ev)
  PROVE  /\ IsFiniteSet(GapsOf(s)) /\ Cardinality(GapsOf(s)) \in Nat
         /\ IsFiniteSet(OrderingsOf(s)) /\ Cardinality(OrderingsOf(s)) \in Nat
<1>1. GapsOf(s) \subseteq PairsOf(s) /\ OrderingsOf(s) \subseteq PairsOf(s)
  BY DEF GapsOf, OrderingsOf
<1>2. IsFiniteSet(GapsOf(s)) /\ IsFiniteSet(OrderingsOf(s))
  BY <1>1, PairsFinite, FS_Subset
<1> QED BY <1>2, FS_CardinalityType

(***************************************************************************)
(* A record that is not a heartbeat is no part of an anomaly.              *)
(***************************************************************************)
LEMMA AnomaliesKept ==
  ASSUME NEW s \in Seq(Ev), NEW e \in Ev, e.tag # Heartbeat
  PROVE  GapsOf(Append(s, e)) = GapsOf(s) /\ OrderingsOf(Append(s, e)) = OrderingsOf(s)
<1>1. PICK w : w = Append(s, e)
  OBVIOUS
<1>2. PairsOf(w) = PairsOf(s)
  BY <1>1, BeatsNext DEF PairsOf
<1>3. \A i \in 1 .. Len(s) : w[i] = s[i]
  BY <1>1
<1>4. \A p \in PairsOf(s) : w[p[1]] = s[p[1]] /\ w[p[2]] = s[p[2]]
  BY <1>3, PairsFinite
<1> QED BY <1>1, <1>2, <1>4 DEF GapsOf, OrderingsOf

(***************************************************************************)
(* Before the second heartbeat there is no anomaly.                        *)
(***************************************************************************)
LEMMA AnomaliesFirst ==
  ASSUME NEW s \in Seq(Ev), NEW e \in Ev, e.tag = Heartbeat, BeatsOf(s) = {}
  PROVE  /\ GapsOf(Append(s, e)) = {} /\ OrderingsOf(Append(s, e)) = {}
         /\ GapsOf(s) = {} /\ OrderingsOf(s) = {}
<1>1. PairsOf(s) = {}
  BY DEF PairsOf
<1> QED BY <1>1, PairsFirst DEF GapsOf, OrderingsOf

(***************************************************************************)
(* dtl_timeline_open_session compares a heartbeat with the one before it:  *)
(* the pair is counted as what it is, once.                                *)
(***************************************************************************)
LEMMA AnomaliesNext ==
  ASSUME NEW s \in Seq(Ev), NEW e \in Ev, e.tag = Heartbeat,
         NEW m \in BeatsOf(s), \A b \in BeatsOf(s) : b <= m
  PROVE  /\ Cardinality(GapsOf(Append(s, e)))
              = IF Anomaly(s[m].v, e.v) = "gap" THEN Cardinality(GapsOf(s)) + 1
                                                ELSE Cardinality(GapsOf(s))
         /\ Cardinality(OrderingsOf(Append(s, e)))
              = IF Anomaly(s[m].v, e.v) = "ordering" THEN Cardinality(OrderingsOf(s)) + 1
                                                     ELSE Cardinality(OrderingsOf(s))
<1>0. PICK n \in Nat : n = Len(s)
  OBVIOUS
<1>1. PICK w : w = Append(s, e)
  OBVIOUS
<1>2. PICK p : p = <<m, n + 1>>
  OBVIOUS
<1>3. PairsOf(w) = PairsOf(s) \cup {p} /\ p[1] = m /\ p[2] = n + 1
  BY <1>0, <1>1, <1>2, PairsNext
<1>4. /\ \A i \in 1 .. n : w[i] = s[i]
      /\ w[n + 1] = e
  BY <1>0, <1>1
<1>5. m \in 1 .. n
  BY <1>0 DEF BeatsOf
<1>6. w[p[1]].v = s[m].v /\ w[p[2]].v = e.v
  BY <1>3, <1>4, <1>5
<1>7. \A r \in PairsOf(s) : w[r[1]] = s[r[1]] /\ w[r[2]] = s[r[2]]
  BY <1>0, <1>4, PairsFinite
<1>8. p \notin PairsOf(s)
  <2>1. ~(n + 1 \in 1 .. n)
    OBVIOUS
  <2> QED BY <1>0, <1>3, <2>1, PairsFinite
<1>9. PICK a \in Nat, b \in Nat : a = s[m].v /\ b = e.v
  BY <1>0, <1>5, EvFields
<1>10. Limit \in Nat
  BY ReportConstants
<1>11. GapsOf(w) = IF b - a > Limit THEN GapsOf(s) \cup {p} ELSE GapsOf(s)
  BY <1>3, <1>6, <1>7, <1>9 DEF GapsOf
<1>12. OrderingsOf(w) = IF b - a < 0 THEN OrderingsOf(s) \cup {p} ELSE OrderingsOf(s)
  BY <1>3, <1>6, <1>7, <1>9 DEF OrderingsOf
<1>13. p \notin GapsOf(s) /\ p \notin OrderingsOf(s)
  BY <1>8 DEF GapsOf, OrderingsOf
<1>14. /\ Cardinality(GapsOf(s) \cup {p}) = Cardinality(GapsOf(s)) + 1
       /\ Cardinality(OrderingsOf(s) \cup {p}) = Cardinality(OrderingsOf(s)) + 1
  BY <1>13, AnomaliesType, FS_AddElement
<1>15. /\ (Anomaly(a, b) = "gap") <=> (b - a > Limit)
       /\ (Anomaly(a, b) = "ordering") <=> (b - a < 0)
  BY <1>10 DEF Anomaly
<1> QED BY <1>1, <1>9, <1>11, <1>12, <1>14, <1>15

-----------------------------------------------------------------------------
(***************************************************************************)
(* The sessions q and the u records before them cut the events s.          *)
(***************************************************************************)
FromOf(q, k) == q[k].first + 1

ToOf(q, s, k) == IF k = Len(q) THEN Len(s) ELSE FromOf(q, k + 1) - 1

Cut(q, u, s) ==
  /\ {FromOf(q, k) : k \in DOMAIN q} = BeatsOf(s)
  /\ u = IF q = <<>> THEN Len(s) ELSE FromOf(q, 1) - 1
  /\ \A k \in DOMAIN q :
       /\ \A j \in 1 .. k - 1 : FromOf(q, j) < FromOf(q, k)
       /\ Covers(q[k], s, FromOf(q, k), ToOf(q, s, k))

(***************************************************************************)
(* The sessions lie within the events, the last one opened last.           *)
(***************************************************************************)
LEMMA CutBounds ==
  ASSUME NEW q \in Seq(Sess), NEW s \in Seq(Ev), NEW u, Cut(q, u, s)
  PROVE  /\ \A k \in 1 .. Len(q) : /\ FromOf(q, k) \in 1 .. Len(s)
                                   /\ FromOf(q, k) <= FromOf(q, Len(q))
                                   /\ ToOf(q, s, k) \in 0 .. Len(s)
         /\ \A b \in BeatsOf(s) : b <= FromOf(q, Len(q))
<1>0. PICK n \in Nat, N \in Nat : n = Len(q) /\ N = Len(s)
  OBVIOUS
<1>1. DOMAIN q = 1 .. n
  BY <1>0
<1>2. \A k \in 1 .. n : FromOf(q, k) \in 1 .. N
  BY <1>0, <1>1 DEF Cut, BeatsOf
<1>3. \A k \in 1 .. n : \A j \in 1 .. k - 1 : FromOf(q, j) < FromOf(q, k)
  BY <1>1 DEF Cut
<1>4. \A k \in 1 .. n : FromOf(q, k) <= FromOf(q, n)
  <2> SUFFICES ASSUME NEW k \in 1 .. n PROVE FromOf(q, k) <= FromOf(q, n)
    OBVIOUS
  <2>1. n \in 1 .. n /\ (k = n \/ k \in 1 .. n - 1)
    OBVIOUS
  <2>2. FromOf(q, n) \in Nat /\ FromOf(q, k) \in Nat
    BY <1>2, <2>1
  <2> QED BY <1>3, <2>1, <2>2
<1>5. \A k \in 1 .. n : ToOf(q, s, k) \in 0 .. N
  <2> SUFFICES ASSUME NEW k \in 1 .. n PROVE ToOf(q, s, k) \in 0 .. N
    OBVIOUS
  <2>1. CASE k = n
    BY <1>0, <2>1 DEF ToOf
  <2>2. CASE k # n
    <3>1. k + 1 \in 1 .. n
      BY <2>2
    <3>2. PICK f \in 1 .. N : f = FromOf(q, k + 1)
      BY <1>2, <3>1
    <3>3. ToOf(q, s, k) = f - 1
      BY <1>0, <2>2, <3>2 DEF ToOf
    <3> QED BY <3>2, <3>3
  <2> QED BY <2>1, <2>2
<1>6. \A b \in BeatsOf(s) : b <= FromOf(q, n)
  BY <1>1, <1>4 DEF Cut
<1> QED BY <1>0, <1>2, <1>4, <1>5, <1>6

(***************************************************************************)
(* A record before the first heartbeat.                                    *)
(***************************************************************************)
LEMMA CutUnattributed ==
  ASSUME NEW s \in Seq(Ev), NEW e \in Ev, e.tag # Heartbeat, NEW u, Cut(<<>>, u, s)
  PROVE  Cut(<<>>, u + 1, Append(s, e))
<1>1. u = Len(s) /\ BeatsOf(s) = {}
  BY DEF Cut
<1>2. BeatsOf(Append(s, e)) = {} /\ Len(Append(s, e)) = Len(s) + 1
  BY <1>1, BeatsNext
<1>3. PICK q : q = <<>>
  OBVIOUS
<1>4. DOMAIN q = {}
  BY <1>3
<1>5. {FromOf(q, k) : k \in DOMAIN q} = {}
  BY <1>4
<1>6. Cut(q, u + 1, Append(s, e))
  BY <1>1, <1>2, <1>3, <1>4, <1>5 DEF Cut
<1> QED BY <1>3, <1>6

(***************************************************************************)
(* A record of the open session.                                           *)
(***************************************************************************)
LEMMA CutAttributed ==
  ASSUME NEW q \in Seq(Sess), NEW s \in Seq(Ev), NEW e \in Ev, e.tag # Heartbeat, NEW u,
         Cut(q, u, s), Len(q) # 0
  PROVE  /\ [q EXCEPT ![Len(q)] = Extended(@, e)] \in Seq(Sess)
         /\ Len([q EXCEPT ![Len(q)] = Extended(@, e)]) = Len(q)
         /\ Cut([q EXCEPT ![Len(q)] = Extended(@, e)], u, Append(s, e))
<1>0. PICK n \in Nat, N \in Nat : n = Len(q) /\ N = Len(s)
  OBVIOUS
<1>1. n \in 1 .. n /\ DOMAIN q = 1 .. n /\ \A k \in 1 .. n : q[k] \in Sess
  BY <1>0
<1>2. PICK x \in Sess : x = Extended(q[n], e) /\ x.first = q[n].first
  <2>1. PICK z \in Sess : z = q[n]
    BY <1>1
  <2>2. Extended(z, e) \in Sess /\ Extended(z, e).first = z.first
    BY SessFields
  <2> QED BY <2>1, <2>2
<1>3. PICK r : r = [q EXCEPT ![n] = x]
  OBVIOUS
<1>4. PICK w : w = Append(s, e)
  OBVIOUS
<1>5. r = [q EXCEPT ![Len(q)] = Extended(@, e)]
  BY <1>0, <1>1, <1>2, <1>3
<1>6. /\ r \in Seq(Sess) /\ Len(r) = n /\ DOMAIN r = 1 .. n
      /\ r[n] = x /\ \A k \in 1 .. n : k # n => r[k] = q[k]
  BY <1>0, <1>1, <1>3
<1>7. \A k \in 1 .. n : FromOf(r, k) = FromOf(q, k)
  BY <1>2, <1>6 DEF FromOf
<1>8. BeatsOf(w) = BeatsOf(s)
  BY <1>4, BeatsNext
<1>9. {FromOf(r, k) : k \in DOMAIN r} = BeatsOf(w)
  BY <1>1, <1>6, <1>7, <1>8 DEF Cut
<1>10. u = IF r = <<>> THEN Len(w) ELSE FromOf(r, 1) - 1
  <2>1. r # <<>> /\ q # <<>> /\ 1 \in 1 .. n
    BY <1>0, <1>1, <1>6
  <2> QED BY <1>7, <2>1 DEF Cut
<1>11. ASSUME NEW k \in 1 .. n
       PROVE  /\ \A j \in 1 .. k - 1 : FromOf(r, j) < FromOf(r, k)
              /\ Covers(r[k], w, FromOf(r, k), ToOf(r, w, k))
  <2>1. \A j \in 1 .. k - 1 : j \in 1 .. n
    OBVIOUS
  <2>2. \A j \in 1 .. k - 1 : FromOf(r, j) < FromOf(r, k)
    BY <1>1, <1>7, <2>1 DEF Cut
  <2>3. Covers(q[k], s, FromOf(q, k), ToOf(q, s, k))
    BY <1>1 DEF Cut
  <2>4. FromOf(q, k) \in 1 .. Len(s) /\ ToOf(q, s, k) \in 0 .. Len(s)
    BY <1>0, CutBounds
  <2>5. CASE k = n
    <3>1. ToOf(q, s, k) = Len(s) /\ ToOf(r, w, k) = Len(s) + 1
      BY <1>0, <1>4, <1>6, <2>5 DEF ToOf
    <3>2. Covers(x, w, FromOf(q, k), Len(s) + 1)
      BY <1>1, <1>2, <1>4, <2>3, <2>4, <2>5, <3>1, CoversExtended
    <3> QED BY <1>6, <1>7, <2>2, <2>5, <3>1, <3>2
  <2>6. CASE k # n
    <3>1. k + 1 \in 1 .. n
      BY <2>6
    <3>2. ToOf(r, w, k) = ToOf(q, s, k)
      BY <1>0, <1>6, <1>7, <2>6, <3>1 DEF ToOf
    <3>3. Covers(q[k], w, FromOf(q, k), ToOf(q, s, k))
      BY <1>4, <2>3, <2>4, CoversKept
    <3> QED BY <1>6, <1>7, <2>2, <2>6, <3>2, <3>3
  <2> QED BY <2>5, <2>6
<1>12. Cut(r, u, w)
  BY <1>6, <1>9, <1>10, <1>11 DEF Cut
<1> QED BY <1>0, <1>4, <1>5, <1>6, <1>12

(***************************************************************************)
(* A heartbeat closes the open session and opens the next.                 *)
(***************************************************************************)
LEMMA CutOpened ==
  ASSUME NEW q \in Seq(Sess), NEW s \in Seq(Ev), NEW e \in Ev, e.tag = Heartbeat, NEW u,
         Cut(q, u, s), e.index = Len(s), NEW g \in [Tags \ {Heartbeat} -> Garbage]
  PROVE  /\ Append(q, Session(e, g)) \in Seq(Sess)
         /\ Cut(Append(q, Session(e, g)), u, Append(s, e))
<1>0. PICK n \in Nat, N \in Nat : n = Len(q) /\ N = Len(s)
  OBVIOUS
<1>1. DOMAIN q = 1 .. n /\ \A k \in 1 .. n : q[k] \in Sess
  BY <1>0
<1>2. PICK w : w = Append(s, e)
  OBVIOUS
<1>3. PICK x \in Sess : /\ x = Session(e, g) /\ x.first = N
                        /\ Covers(x, w, N + 1, N + 1)
  BY <1>0, <1>2, CoversOpened
<1>4. PICK r : r = Append(q, x)
  OBVIOUS
<1>5. /\ r \in Seq(Sess) /\ Len(r) = n + 1 /\ DOMAIN r = 1 .. n + 1
      /\ r[n + 1] = x /\ \A k \in 1 .. n : r[k] = q[k]
  BY <1>0, <1>4
<1>6. (\A k \in 1 .. n : FromOf(r, k) = FromOf(q, k)) /\ FromOf(r, n + 1) = N + 1
  BY <1>3, <1>5 DEF FromOf
<1>7. BeatsOf(w) = BeatsOf(s) \cup {N + 1}
  BY <1>0, <1>2, BeatsNext
<1>8. {FromOf(r, k) : k \in DOMAIN r} = BeatsOf(w)
  <2>1. {FromOf(q, k) : k \in 1 .. n} = BeatsOf(s)
    BY <1>1 DEF Cut
  <2>2. \A k \in 1 .. n + 1 : k \in 1 .. n \/ k = n + 1
    OBVIOUS
  <2>3. n + 1 \in 1 .. n + 1 /\ \A k \in 1 .. n : k \in 1 .. n + 1
    OBVIOUS
  <2>4. {FromOf(r, k) : k \in 1 .. n + 1} = {FromOf(q, k) : k \in 1 .. n} \cup {N + 1}
    BY <1>6, <2>2, <2>3
  <2> QED BY <1>5, <1>7, <2>1, <2>4
<1>9. \A k \in 1 .. n : FromOf(q, k) \in 1 .. N
  BY <1>0, CutBounds
<1>10. u = IF r = <<>> THEN Len(w) ELSE FromOf(r, 1) - 1
  <2>1. r # <<>>
    BY <1>5
  <2>2. CASE n = 0
    <3>0. q = <<>>
      BY <1>0, <2>2, EmptySeq
    <3>1. u = N
      BY <1>0, <3>0 DEF Cut
    <3>2. FromOf(r, 1) = N + 1
      BY <1>6, <2>2
    <3> QED BY <2>1, <3>1, <3>2
  <2>3. CASE n # 0
    <3>1. u = FromOf(q, 1) - 1
      BY <1>0, <2>3 DEF Cut
    <3>2. FromOf(r, 1) = FromOf(q, 1)
      BY <1>6, <2>3
    <3> QED BY <2>1, <3>1, <3>2
  <2> QED BY <2>2, <2>3
<1>11. ASSUME NEW k \in 1 .. n + 1
       PROVE  /\ \A j \in 1 .. k - 1 : FromOf(r, j) < FromOf(r, k)
              /\ Covers(r[k], w, FromOf(r, k), ToOf(r, w, k))
  <2>0. Len(w) = N + 1
    BY <1>0, <1>2
  <2>1. CASE k = n + 1
    <3>1. \A j \in 1 .. k - 1 : j \in 1 .. n
      BY <2>1
    <3>2. \A j \in 1 .. k - 1 : FromOf(r, j) < FromOf(r, k)
      <4>1. \A j \in 1 .. n : FromOf(r, j) \in Nat /\ FromOf(r, j) <= N
        BY <1>6, <1>9
      <4>2. FromOf(r, k) = N + 1
        BY <1>6, <2>1
      <4> HIDE DEF FromOf
      <4> QED BY <3>1, <4>1, <4>2
    <3>3. ToOf(r, w, k) = N + 1
      BY <1>5, <2>0, <2>1 DEF ToOf
    <3> QED BY <1>3, <1>5, <1>6, <2>1, <3>2, <3>3
  <2>2. CASE k # n + 1
    <3>1. k \in 1 .. n /\ \A j \in 1 .. k - 1 : j \in 1 .. n
      BY <2>2
    <3>2. \A j \in 1 .. k - 1 : FromOf(r, j) < FromOf(r, k)
      BY <1>1, <1>6, <3>1 DEF Cut
    <3>3. ToOf(r, w, k) = ToOf(q, s, k)
      <4>1. CASE k = n
        <5>1. ToOf(q, s, k) = N
          BY <1>0, <4>1 DEF ToOf
        <5>2. ToOf(r, w, k) = (N + 1) - 1
          BY <1>5, <1>6, <2>2, <4>1 DEF ToOf
        <5> QED BY <5>1, <5>2
      <4>2. CASE k # n
        <5>1. k + 1 \in 1 .. n
          BY <3>1, <4>2
        <5> QED BY <1>0, <1>5, <1>6, <2>2, <4>2, <5>1 DEF ToOf
      <4> QED BY <4>1, <4>2
    <3>4. Covers(q[k], s, FromOf(q, k), ToOf(q, s, k))
      BY <1>1, <3>1 DEF Cut
    <3>5. FromOf(q, k) \in 1 .. Len(s) /\ ToOf(q, s, k) \in 0 .. Len(s)
      BY <1>0, <3>1, CutBounds
    <3>6. Covers(q[k], w, FromOf(q, k), ToOf(q, s, k))
      BY <1>2, <3>4, <3>5, CoversKept
    <3> QED BY <1>5, <1>6, <3>1, <3>2, <3>3, <3>6
  <2> QED BY <2>1, <2>2
<1>12. Cut(r, u, w)
  BY <1>5, <1>8, <1>10, <1>11 DEF Cut
<1> QED BY <1>2, <1>3, <1>4, <1>5, <1>12

(***************************************************************************)
(* The inductive invariant of the timeline.  The cursor is on the last     *)
(* session, and while the walk runs its record counter is the number of    *)
(* records delivered: that counter is what a session keeps as its first    *)
(* record.                                                                 *)
(***************************************************************************)
TimelineOf(q, s) ==
  /\ q \in Sessions /\ q.cur = Len(q.sessions)
  /\ Cut(q.sessions, q.unattributed, s)
  /\ q.gaps = Cardinality(GapsOf(s)) /\ q.orderings = Cardinality(OrderingsOf(s))

TimelineInv ==
  /\ WalkTypes
  /\ tool = "timeline" =>
       /\ TimelineOf(tl, seen)
       /\ rc = "walking" => pos.index = Len(seen)

(***************************************************************************)
(* The timeline after a heartbeat, and after another record.               *)
(***************************************************************************)
Opened(q, e, g) ==
  LET n    == Len(q.sessions)
      full == n = q.cap
      cur  == IF full THEN n ELSE q.cur
      anom == IF cur = 0 THEN "none" ELSE Anomaly(q.sessions[cur].uptime, e.v)
  IN  [q EXCEPT !.sessions = Append(@, Session(e, g)),
                !.cap = IF full THEN NewCap(@) ELSE @,
                !.cur = n + 1,
                !.gaps = IF anom = "gap" THEN @ + 1 ELSE @,
                !.orderings = IF anom = "ordering" THEN @ + 1 ELSE @]

Attributed(q, e) ==
  IF q.cur = 0 THEN [q EXCEPT !.unattributed = @ + 1]
  ELSE [q EXCEPT !.sessions[q.cur] = Extended(@, e)]

(***************************************************************************)
(* Only dtl_timeline_on_record changes the timeline.                       *)
(***************************************************************************)
LEMMA TimelineStep ==
  ASSUME TimelineInv, [Next]_vars, tool = "timeline"
  PROVE  \/ /\ tl' = tl /\ seen' = seen
            /\ rc' = "walking" => rc = "walking" /\ pos'.index = pos.index
         \/ \E e \in Ev :
              /\ e.index = Len(seen) /\ seen' = Append(seen, e) /\ pos'.index = pos.index + 1
              /\ rc = "walking"
              /\ \/ /\ e.tag = Heartbeat
                    /\ \E g \in [Tags \ {Heartbeat} -> Garbage] : tl' = Opened(tl, e, g)
                 \/ e.tag # Heartbeat /\ tl' = Attributed(tl, e)
<1>0. /\ pos.section \in Nat /\ pos.inSection \in Nat /\ pos.index \in Nat
      /\ pos = [section |-> pos.section, inSection |-> pos.inSection, index |-> pos.index]
  BY DEF TimelineInv, WalkTypes, Pos
<1>1. CASE OnRecord
  <2>1. PICK r \in Inputs[tool] :
          /\ TimelineOnRecord(Event(r))
          /\ seen' = IF rc' = "walking" THEN Append(seen, Event(r)) ELSE seen
    BY <1>1 DEF OnRecord, StatsOnRecord, ValidateOnRecord, TopkOnRecord, IndexOnRecord
  <2>2. rc = "walking" /\ pos' = [pos EXCEPT !.inSection = @ + 1, !.index = @ + 1]
    BY <1>1 DEF OnRecord
  <2>3. PICK e \in Ev : e = Event(r)
    BY EventTypes DEF TimelineInv
  <2>4. pos'.index = pos.index + 1
    BY <1>0, <2>2
  <2>5. e.index = pos.index
    BY <2>3 DEF Event
  <2>6. e.index = Len(seen)
    BY <2>2, <2>5 DEF TimelineInv
  <2>7. CASE TimelineOom(e)
    BY <2>1, <2>3, <2>7 DEF TimelineOom
  <2>8. CASE OpenSession(e)
    <3>1. rc' = rc /\ e.tag = Heartbeat
      BY <2>8 DEF OpenSession
    <3>2. \E g \in [Tags \ {Heartbeat} -> Garbage] : tl' = Opened(tl, e, g)
      BY <2>8 DEF OpenSession, Opened
    <3> QED BY <2>1, <2>2, <2>3, <2>4, <2>6, <3>1, <3>2
  <2>9. CASE Attribute(e)
    <3>1. rc' = rc /\ e.tag # Heartbeat /\ tl' = Attributed(tl, e)
      BY <2>9 DEF Attribute, Attributed
    <3> QED BY <2>1, <2>2, <2>3, <2>4, <2>6, <3>1
  <2> QED BY <2>1, <2>3, <2>7, <2>8, <2>9 DEF TimelineOnRecord
<1>2. CASE OnError \/ NextSection \/ WalkReturns \/ AnotherFile \/ Done \/ UNCHANGED vars
  <2>1. tl' = tl /\ seen' = seen
    BY <1>2 DEF OnError, NextSection, WalkReturns, AnotherFile, Done, vars
  <2>2. rc' = "walking" => rc = "walking" /\ pos'.index = pos.index
    BY <1>0, <1>2 DEF OnError, NextSection, WalkReturns, AnotherFile, Done, vars
  <2> QED BY <2>1, <2>2
<1> QED BY <1>1, <1>2 DEF Next

(***************************************************************************)
(* The fields of a timeline.                                               *)
(***************************************************************************)
LEMMA TimelineFields ==
  ASSUME NEW q \in Sessions
  PROVE  /\ q.sessions \in Seq(Sess) /\ q.cap \in Nat /\ q.cur \in Nat /\ q.gaps \in Nat
         /\ q.orderings \in Nat /\ q.unattributed \in Nat
         /\ q = [sessions |-> q.sessions, cap |-> q.cap, cur |-> q.cur, gaps |-> q.gaps,
                 orderings |-> q.orderings, unattributed |-> q.unattributed]
BY DEF Sessions

(***************************************************************************)
(* A timeline of its parts.                                                *)
(***************************************************************************)
LEMMA TimelineParts ==
  ASSUME NEW a \in Seq(Sess), NEW c \in Nat, NEW g \in Nat, NEW o \in Nat, NEW u \in Nat,
         NEW s, Cut(a, u, s), g = Cardinality(GapsOf(s)), o = Cardinality(OrderingsOf(s)),
         NEW d \in Nat, d = Len(a)
  PROVE  TimelineOf([sessions |-> a, cap |-> c, cur |-> d, gaps |-> g, orderings |-> o,
                     unattributed |-> u], s)
<1>1. PICK q : q = [sessions |-> a, cap |-> c, cur |-> d, gaps |-> g, orderings |-> o,
                    unattributed |-> u]
  OBVIOUS
<1>2. q \in Sessions
  BY <1>1 DEF Sessions
<1>3. /\ q.sessions = a /\ q.cur = d /\ q.gaps = g /\ q.orderings = o /\ q.unattributed = u
  BY <1>1
<1>4. TimelineOf(q, s)
  BY <1>2, <1>3 DEF TimelineOf
<1> QED BY <1>1, <1>4

(***************************************************************************)
(* A record that is not a heartbeat.                                       *)
(***************************************************************************)
LEMMA TimelineAttributed ==
  ASSUME NEW q, NEW s \in Seq(Ev), NEW e \in Ev, TimelineOf(q, s), e.tag # Heartbeat
  PROVE  TimelineOf(Attributed(q, e), Append(s, e))
<1>0. PICK w : w = Append(s, e)
  OBVIOUS
<1>1. /\ q.sessions \in Seq(Sess) /\ q.cap \in Nat /\ q.cur \in Nat /\ q.gaps \in Nat
      /\ q.orderings \in Nat /\ q.unattributed \in Nat
      /\ q = [sessions |-> q.sessions, cap |-> q.cap, cur |-> q.cur, gaps |-> q.gaps,
              orderings |-> q.orderings, unattributed |-> q.unattributed]
  BY TimelineFields DEF TimelineOf
<1>2. /\ q.gaps = Cardinality(GapsOf(w)) /\ q.orderings = Cardinality(OrderingsOf(w))
  BY <1>0, AnomaliesKept DEF TimelineOf
<1>3. q.cur = Len(q.sessions) /\ Cut(q.sessions, q.unattributed, s)
  BY DEF TimelineOf
<1>4. CASE q.cur = 0
  <2>1. q.sessions = <<>>
    BY <1>1, <1>3, <1>4, EmptySeq
  <2>2. PICK u \in Nat : u = q.unattributed + 1
    BY <1>1
  <2>3. Cut(q.sessions, u, w)
    BY <1>0, <1>3, <2>1, <2>2, CutUnattributed
  <2>4. Attributed(q, e) = [sessions |-> q.sessions, cap |-> q.cap, cur |-> q.cur,
                            gaps |-> q.gaps, orderings |-> q.orderings, unattributed |-> u]
    BY <1>1, <1>4, <2>2 DEF Attributed
  <2> QED BY <1>0, <1>1, <1>2, <1>3, <2>3, <2>4, TimelineParts
<1>5. CASE q.cur # 0
  <2>1. PICK f : f = q.sessions
    OBVIOUS
  <2>2. PICK n \in Nat : n = q.cur
    BY <1>1
  <2>3. f \in Seq(Sess) /\ n = Len(f) /\ n # 0 /\ n \in DOMAIN f /\ f[n] \in Sess
    BY <1>1, <1>3, <1>5, <2>1, <2>2
  <2>4. PICK a : a = [f EXCEPT ![n] = Extended(@, e)]
    OBVIOUS
  <2>5. a \in Seq(Sess) /\ Len(a) = n /\ Cut(a, q.unattributed, w)
    BY <1>0, <1>3, <2>1, <2>3, <2>4, CutAttributed, SMTT(30)
  <2>6. Attributed(q, e) = [sessions |-> a, cap |-> q.cap, cur |-> n,
                            gaps |-> q.gaps, orderings |-> q.orderings,
                            unattributed |-> q.unattributed]
    <3>1. Attributed(q, e) = [q EXCEPT !.sessions[n] = Extended(@, e)]
      BY <1>5, <2>2 DEF Attributed
    <3>2. [q EXCEPT !.sessions[n] = Extended(@, e)] = [q EXCEPT !.sessions = a]
      BY <1>1, <2>1, <2>4
    <3> QED BY <1>1, <2>2, <3>1, <3>2
  <2> QED BY <1>0, <1>1, <1>2, <2>2, <2>5, <2>6, TimelineParts
<1> QED BY <1>4, <1>5

(***************************************************************************)
(* A heartbeat.                                                            *)
(***************************************************************************)
LEMMA TimelineOpened ==
  ASSUME NEW q, NEW s \in Seq(Ev), NEW e \in Ev, TimelineOf(q, s), e.tag = Heartbeat,
         e.index = Len(s), NEW g \in [Tags \ {Heartbeat} -> Garbage]
  PROVE  TimelineOf(Opened(q, e, g), Append(s, e))
<1>0. PICK w : w = Append(s, e)
  OBVIOUS
<1>1. /\ q.sessions \in Seq(Sess) /\ q.cap \in Nat /\ q.cur \in Nat /\ q.gaps \in Nat
      /\ q.orderings \in Nat /\ q.unattributed \in Nat
      /\ q = [sessions |-> q.sessions, cap |-> q.cap, cur |-> q.cur, gaps |-> q.gaps,
              orderings |-> q.orderings, unattributed |-> q.unattributed]
  BY TimelineFields DEF TimelineOf
<1>2. /\ q.cur = Len(q.sessions) /\ Cut(q.sessions, q.unattributed, s)
      /\ q.gaps = Cardinality(GapsOf(s)) /\ q.orderings = Cardinality(OrderingsOf(s))
  BY DEF TimelineOf
<1>3. PICK f \in Seq(Sess), n \in Nat : f = q.sessions /\ n = Len(f)
  BY <1>1
<1>4. PICK a : a = Append(f, Session(e, g))
  OBVIOUS
<1>5. a \in Seq(Sess) /\ Cut(a, q.unattributed, w) /\ Len(a) = n + 1
  <2>1. Append(f, Session(e, g)) \in Seq(Sess) /\ Cut(Append(f, Session(e, g)), q.unattributed, w)
    BY <1>0, <1>2, <1>3, CutOpened
  <2>2. Len(a) = n + 1
    BY <1>3, <1>4
  <2> QED BY <1>4, <2>1, <2>2
<1>6. PICK anom : anom = IF n = 0 THEN "none" ELSE Anomaly(f[n].uptime, e.v)
  OBVIOUS
<1>7. PICK c \in Nat : c = IF n = q.cap THEN NewCap(q.cap) ELSE q.cap
  BY SMTT(30), <1>1, ReportConstants DEF NewCap
<1>8. PICK x \in Nat, y \in Nat :
        /\ x = IF anom = "gap" THEN q.gaps + 1 ELSE q.gaps
        /\ y = IF anom = "ordering" THEN q.orderings + 1 ELSE q.orderings
  BY <1>1
<1>9. Opened(q, e, g) = [sessions |-> a, cap |-> c, cur |-> n + 1, gaps |-> x, orderings |-> y,
                         unattributed |-> q.unattributed]
  <2>1. (IF n = q.cap THEN n ELSE q.cur) = n
    BY <1>2, <1>3
  <2>2. Opened(q, e, g) = [q EXCEPT !.sessions = a, !.cap = c, !.cur = n + 1, !.gaps = x,
                                    !.orderings = y]
    BY <1>3, <1>4, <1>6, <1>7, <1>8, <2>1 DEF Opened
  <2> QED BY <1>1, <2>2
<1>10. x = Cardinality(GapsOf(w)) /\ y = Cardinality(OrderingsOf(w))
  <2>1. CASE n = 0
    <3>1. f = <<>>
      BY <1>3, <2>1, EmptySeq
    <3>2. DOMAIN f = {}
      BY <3>1
    <3>3. BeatsOf(s) = {}
      BY <1>2, <1>3, <3>2 DEF Cut
    <3>4. x = q.gaps /\ y = q.orderings
      BY <1>6, <1>8, <2>1
    <3> QED BY <1>0, <1>2, <3>3, <3>4, AnomaliesFirst
  <2>2. CASE n # 0
    <3>1. n \in DOMAIN f /\ n = Len(f)
      BY <1>3, <2>2
    <3>2. PICK m : m = FromOf(f, n)
      OBVIOUS
    <3>3. m \in BeatsOf(s)
      BY <1>2, <1>3, <3>1, <3>2 DEF Cut
    <3>4. \A b \in BeatsOf(s) : b <= m
      BY <1>2, <1>3, <3>2, CutBounds
    <3>5. f[n].uptime = s[m].v
      BY <1>2, <1>3, <3>1, <3>2 DEF Cut, Covers
    <3>6. anom = Anomaly(s[m].v, e.v)
      BY <1>6, <2>2, <3>5
    <3> QED BY <1>0, <1>2, <1>8, <3>3, <3>4, <3>6, AnomaliesNext
  <2> QED BY <2>1, <2>2
<1>11. PICK d \in Nat, u \in Nat : d = n + 1 /\ u = q.unattributed
  BY <1>1
<1>12. Opened(q, e, g) = [sessions |-> a, cap |-> c, cur |-> d, gaps |-> x, orderings |-> y,
                          unattributed |-> u]
  BY <1>9, <1>11
<1>13. Cut(a, u, w) /\ d = Len(a)
  BY <1>5, <1>11
<1>14. TimelineOf([sessions |-> a, cap |-> c, cur |-> d, gaps |-> x, orderings |-> y,
                   unattributed |-> u], w)
  BY <1>5, <1>10, <1>13, TimelineParts
<1> QED BY <1>0, <1>12, <1>14

(***************************************************************************)
(* The inductive invariant holds.                                          *)
(***************************************************************************)
LEMMA TimelineInvariant == Spec => []TimelineInv
<1>1. Init => TimelineInv
  <2> SUFFICES ASSUME Init PROVE TimelineInv
    OBVIOUS
  <2>1. WalkTypes
    BY DEF Init, WalkTypes, Pos
  <2>2. seen = <<>> /\ Len(seen) = 0 /\ pos.index = 0 /\ <<>> \in Seq(Sess) /\ Len(<<>>) = 0
    BY DEF Init
  <2>3. BeatsOf(seen) = {}
    BY <2>2 DEF BeatsOf
  <2>4. GapsOf(seen) = {} /\ OrderingsOf(seen) = {} /\ Cardinality({}) = 0
    BY <2>3, FS_EmptySet DEF GapsOf, OrderingsOf, PairsOf
  <2>5. PICK q : q = <<>>
    OBVIOUS
  <2>6. DOMAIN q = {}
    BY <2>5
  <2>7. {FromOf(q, k) : k \in DOMAIN q} = {}
    BY <2>6
  <2>8. Cut(q, 0, seen)
    BY <2>2, <2>3, <2>5, <2>6, <2>7 DEF Cut
  <2>9. tl = [sessions |-> q, cap |-> 0, cur |-> 0, gaps |-> 0, orderings |-> 0,
              unattributed |-> 0]
    BY <2>5 DEF Init
  <2>10. TimelineOf(tl, seen)
    BY <2>2, <2>4, <2>5, <2>8, <2>9, TimelineParts
  <2> QED BY <2>1, <2>2, <2>10 DEF TimelineInv
<1>2. TimelineInv /\ [Next]_vars => TimelineInv'
  <2> SUFFICES ASSUME TimelineInv, [Next]_vars PROVE TimelineInv'
    OBVIOUS
  <2>1. WalkTypes' /\ tool' = tool
    BY WalkTypesStep DEF TimelineInv
  <2>2. CASE tool # "timeline"
    BY <2>1, <2>2 DEF TimelineInv
  <2>3. CASE tool = "timeline"
    <3>1. TimelineOf(tl, seen) /\ (rc = "walking" => pos.index = Len(seen)) /\ seen \in Seq(Ev)
      BY <2>3 DEF TimelineInv, WalkTypes
    <3>2. ASSUME tl' = tl, seen' = seen,
                 rc' = "walking" => rc = "walking" /\ pos'.index = pos.index
          PROVE  TimelineOf(tl', seen') /\ (rc' = "walking" => pos'.index = Len(seen'))
      BY <3>1, <3>2
    <3>3. ASSUME NEW e \in Ev, e.index = Len(seen), seen' = Append(seen, e),
                 pos'.index = pos.index + 1, rc = "walking",
                 \/ e.tag = Heartbeat
                      /\ \E g \in [Tags \ {Heartbeat} -> Garbage] : tl' = Opened(tl, e, g)
                 \/ e.tag # Heartbeat /\ tl' = Attributed(tl, e)
          PROVE  TimelineOf(tl', seen') /\ (rc' = "walking" => pos'.index = Len(seen'))
      <4>1. pos'.index = Len(seen')
        BY <3>1, <3>3
      <4>2. TimelineOf(tl', seen')
        BY <3>1, <3>3, TimelineOpened, TimelineAttributed, ZenonT(30)
      <4> QED BY <4>1, <4>2
    <3>4. TimelineOf(tl', seen') /\ (rc' = "walking" => pos'.index = Len(seen'))
      BY <2>3, <3>2, <3>3, TimelineStep
    <3> QED BY <2>1, <3>4 DEF TimelineInv
  <2> QED BY <2>2, <2>3
<1> QED BY <1>1, <1>2, PTL DEF Spec

(***************************************************************************)
(* Sessions and unattributed records cut the delivered sequence at its     *)
(* heartbeats, whatever the growing of the session array did between.      *)
(***************************************************************************)
THEOREM SessionsCut == Spec => []SessionsPartition
<1>1. TimelineInv => SessionsPartition
  BY DEF TimelineInv, TimelineOf, Cut, Covers, SessionsPartition, FromOf, ToOf, BeatsOf,
         From, To, Beats
<1> QED BY <1>1, TimelineInvariant, PTL

(***************************************************************************)
(* The anomaly totals count the gaps and the ordering violations.          *)
(***************************************************************************)
THEOREM AnomaliesExact == Spec => []AnomaliesCounted
<1>1. TimelineInv => AnomaliesCounted
  BY DEF TimelineInv, TimelineOf, GapsOf, OrderingsOf, PairsOf, BeatsOf, AnomaliesCounted,
         BeatPairs, Beats
<1> QED BY <1>1, TimelineInvariant, PTL

-----------------------------------------------------------------------------
(***************************************************************************)
(* The validator.                                                          *)
(***************************************************************************)
Severities == {"error"} \cup {Severity(p[1], p[2]) : p \in Tags \X Nat}

Issues == [severity : Severities, section : Nat, inSection : Nat]

Reps == [issues : Seq(Issues), cap : Nat, errors : Nat, warnings : Nat, checked : Nat]

OfSeverity(q, sev) == {i \in DOMAIN q : q[i].severity = sev}

(* The totals agree with the list.                                         *)
Tallied(r) ==
  /\ r.errors = Cardinality(OfSeverity(r.issues, "error"))
  /\ r.warnings = Cardinality(OfSeverity(r.issues, "warning"))

(***************************************************************************)
(* The issues of a severity in a list with one more.                       *)
(***************************************************************************)
LEMMA TallyNext ==
  ASSUME NEW q \in Seq(Issues), NEW x \in Issues, NEW sev
  PROVE  /\ Cardinality(OfSeverity(q, sev)) \in Nat
         /\ Cardinality(OfSeverity(Append(q, x), sev))
              = IF x.severity = sev THEN Cardinality(OfSeverity(q, sev)) + 1
                                    ELSE Cardinality(OfSeverity(q, sev))
<1>1. PICK n \in Nat : n = Len(q)
  OBVIOUS
<1>2. PICK w : w = Append(q, x)
  OBVIOUS
<1>3. /\ DOMAIN q = 1 .. n /\ DOMAIN w = 1 .. n + 1 /\ w[n + 1] = x
      /\ \A i \in 1 .. n : w[i] = q[i]
  BY <1>1, <1>2
<1>4. PICK D : D = OfSeverity(q, sev)
  OBVIOUS
<1>5. D \in SUBSET (1 .. n)
  BY <1>3, <1>4 DEF OfSeverity
<1>6. Cardinality(D) \in Nat /\ Cardinality(D \cup {n + 1}) = Cardinality(D) + 1
  BY <1>5, CountNext
<1>7. OfSeverity(w, sev) = IF x.severity = sev THEN D \cup {n + 1} ELSE D
  BY <1>3, <1>4 DEF OfSeverity
<1> QED BY <1>2, <1>4, <1>6, <1>7

(* One call of dtl_validate_add.                                           *)
AddAt(r, x, k, grants) == Add(r, x, k \in grants)

(***************************************************************************)
(* dtl_validate_add keeps the totals, whether or not the list grows.       *)
(***************************************************************************)
LEMMA AddTallied ==
  ASSUME NEW r \in Reps, Tallied(r), NEW x \in Issues, NEW k, NEW grants
  PROVE  LET y == AddAt(r, x, k, grants)
         IN  /\ y \in Reps /\ Tallied(y)
             /\ y.issues = r.issues \/ y.issues = Append(r.issues, x)
<1>0. PICK y : y = AddAt(r, x, k, grants)
  OBVIOUS
<1>1. /\ r.issues \in Seq(Issues) /\ r.cap \in Nat /\ r.errors \in Nat /\ r.warnings \in Nat
      /\ r.checked \in Nat
      /\ r = [issues |-> r.issues, cap |-> r.cap, errors |-> r.errors,
              warnings |-> r.warnings, checked |-> r.checked]
  BY DEF Reps
<1>2. CASE Full(r) /\ ~(k \in grants)
  <2>1. y = r
    BY <1>0, <1>2 DEF AddAt, Add
  <2> QED BY <1>0, <2>1
<1>3. CASE ~(Full(r) /\ ~(k \in grants))
  <2>1. PICK c \in Nat : c = IF Full(r) THEN NewCap(r.cap) ELSE r.cap
    <3>1. NewCap(r.cap) \in Nat
      BY <1>1, ReportConstants DEF NewCap
    <3> QED BY <1>1, <3>1 DEF Full
  <2>2. PICK a \in Seq(Issues) : a = Append(r.issues, x)
    BY <1>1, AppendProperties
  <2>3. PICK m \in Nat, n \in Nat :
          /\ m = IF x.severity = "error" THEN r.errors + 1 ELSE r.errors
          /\ n = IF x.severity = "warning" THEN r.warnings + 1 ELSE r.warnings
    BY <1>1
  <2>4. y = [r EXCEPT !.issues = a, !.cap = c, !.errors = m, !.warnings = n]
    BY <1>0, <1>1, <1>3, <2>1, <2>2, <2>3 DEF AddAt, Add
  <2>5. y = [issues |-> a, cap |-> c, errors |-> m, warnings |-> n, checked |-> r.checked]
    BY <1>1, <2>4
  <2>6. y \in Reps
    BY <1>1, <2>5 DEF Reps
  <2>7. y.issues = a /\ y.errors = m /\ y.warnings = n
    BY <2>5
  <2>8. m = Cardinality(OfSeverity(a, "error")) /\ n = Cardinality(OfSeverity(a, "warning"))
    BY <1>1, <2>2, <2>3, TallyNext DEF Tallied
  <2>9. Tallied(y)
    BY <2>7, <2>8 DEF Tallied
  <2> QED BY <1>0, <2>2, <2>6, <2>7, <2>9
<1> QED BY <1>2, <1>3

(***************************************************************************)
(* The reports of dtl_validate_add called on the issues of f in turn.      *)
(***************************************************************************)
Adding(acc, f, r, grants, n) ==
  acc[0] = r /\ \A k \in 1 .. n : acc[k] = AddAt(acc[k - 1], f[k], k, grants)

(***************************************************************************)
(* Added is the last of them: the recursive function exists.               *)
(***************************************************************************)
LEMMA AddedChain ==
  ASSUME NEW f \in Seq(Issues), NEW r \in Reps, Tallied(r), NEW grants
  PROVE  \E acc : Adding(acc, f, r, grants, Len(f)) /\ Added(f, r, grants) = acc[Len(f)]
<1> DEFINE n == Len(f)
           rec(acc) == [k \in 0 .. n |->
                          IF k = 0 THEN r ELSE Add(acc[k - 1], f[k], k \in grants)]
           R == {x \in Reps : Tallied(x)}
           upto(m) == \E acc \in [0 .. m -> R] : Adding(acc, f, r, grants, m)
           T == {m \in Nat : m <= n => upto(m)}
<1>0. n \in Nat /\ \A i \in 1 .. n : f[i] \in Issues
  OBVIOUS
<1>1. 0 \in T
  <2> DEFINE z == [i \in 0 .. 0 |-> r]
  <2>1. z \in [0 .. 0 -> R] /\ z[0] = r
    OBVIOUS
  <2>2. Adding(z, f, r, grants, 0)
    BY <2>1 DEF Adding
  <2> HIDE DEF z
  <2>3. upto(0)
    BY <2>1, <2>2
  <2> HIDE DEF upto
  <2> QED BY <2>3
<1>2. ASSUME NEW m \in Nat, m \in T PROVE m + 1 \in T
  <2> HIDE DEF upto, n
  <2> SUFFICES ASSUME m + 1 <= n PROVE upto(m + 1)
    OBVIOUS
  <2>0. m + 1 \in 1 .. n /\ m <= n
    BY <1>0
  <2>1. PICK acc \in [0 .. m -> R] : Adding(acc, f, r, grants, m)
    BY <1>2, <2>0 DEF upto
  <2>2. PICK x \in R : x = AddAt(acc[m], f[m + 1], m + 1, grants)
    <3>1. acc[m] \in Reps /\ Tallied(acc[m]) /\ f[m + 1] \in Issues
      BY <1>0, <2>0, <2>1
    <3>2. PICK y : y = AddAt(acc[m], f[m + 1], m + 1, grants)
      OBVIOUS
    <3>3. y \in Reps /\ Tallied(y)
      BY <3>1, <3>2, AddTallied
    <3> QED BY <3>2, <3>3
  <2> DEFINE g == [i \in 0 .. m + 1 |-> IF i = m + 1 THEN x ELSE acc[i]]
  <2> HIDE DEF R
  <2>3. g \in [0 .. m + 1 -> R]
    BY <2>1, <2>2
  <2>4. /\ g[0] = acc[0] /\ g[m + 1] = x /\ g[m] = acc[m]
        /\ \A i \in 1 .. m : g[i] = acc[i] /\ g[i - 1] = acc[i - 1]
    OBVIOUS
  <2> HIDE DEF g
  <2>5. \A i \in 1 .. m + 1 : i \in 1 .. m \/ (i = m + 1 /\ i - 1 = m)
    OBVIOUS
  <2>6. \A i \in 1 .. m + 1 : g[i] = AddAt(g[i - 1], f[i], i, grants)
    <3> SUFFICES ASSUME NEW i \in 1 .. m + 1
                 PROVE  g[i] = AddAt(g[i - 1], f[i], i, grants)
      OBVIOUS
    <3>1. CASE i \in 1 .. m
      BY <2>1, <2>4, <3>1 DEF Adding
    <3>2. CASE i = m + 1 /\ i - 1 = m
      BY <2>2, <2>4, <3>2
    <3> QED BY <2>5, <3>1, <3>2
  <2>7. Adding(g, f, r, grants, m + 1)
    BY <2>1, <2>4, <2>6 DEF Adding
  <2> QED BY <2>3, <2>7 DEF upto
<1>3. upto(n)
  <2> HIDE DEF upto
  <2>1. \A m \in Nat : m \in T
    <3> HIDE DEF T
    <3> QED BY <1>1, <1>2, Induction
  <2> QED BY <2>1, <1>0
<1>4. \E acc : acc = rec(acc)
  <2>1. PICK acc \in [0 .. n -> R] : Adding(acc, f, r, grants, n)
    BY <1>3
  <2>2. \A i \in 0 .. n : i = 0 \/ i \in 1 .. n
    BY <1>0
  <2>3. \A i \in 0 .. n : acc[i] = IF i = 0 THEN r ELSE AddAt(acc[i - 1], f[i], i, grants)
    BY <2>1, <2>2 DEF Adding
  <2>4. acc = [i \in 0 .. n |-> acc[i]]
    BY <2>1
  <2>5. acc = rec(acc)
    BY <2>3, <2>4, Zenon DEF AddAt
  <2> QED BY <2>5
<1> DEFINE acc == CHOOSE a : a = rec(a)
<1>5. acc = rec(acc)
  BY <1>4
<1>6. Added(f, r, grants) = acc[n]
  BY DEF Added
<1> HIDE DEF acc
<1>7. \A i \in 0 .. n : acc[i] = IF i = 0 THEN r ELSE AddAt(acc[i - 1], f[i], i, grants)
  BY <1>5, Zenon DEF AddAt
<1>8. Adding(acc, f, r, grants, n)
  <2>1. 0 \in 0 .. n /\ \A i \in 1 .. n : i \in 0 .. n /\ i # 0
    BY <1>0
  <2> QED BY <1>7, <2>1 DEF Adding
<1> QED BY <1>6, <1>8

(***************************************************************************)
(* The list keeps what it held, and grows by at most one issue a call; if  *)
(* none is lost it is extended by f.                                       *)
(***************************************************************************)
LEMMA AddedIssues ==
  ASSUME NEW f \in Seq(Issues), NEW r \in Reps, Tallied(r), NEW grants
  PROVE  LET y == Added(f, r, grants)
         IN  /\ y \in Reps /\ Tallied(y) /\ Len(y.issues) \in Nat
             /\ Len(y.issues) <= Len(r.issues) + Len(f)
             /\ Len(y.issues) = Len(r.issues) + Len(f) => y.issues = r.issues \o f
<1>0. PICK n \in Nat : n = Len(f)
  OBVIOUS
<1>1. PICK q \in Seq(Issues) : q = r.issues
  BY DEF Reps
<1>2. PICK l \in Nat : l = Len(q)
  OBVIOUS
<1>3. PICK acc : Adding(acc, f, r, grants, n) /\ Added(f, r, grants) = acc[n]
  BY <1>0, AddedChain
<1> DEFINE good(p, k) ==
             /\ p \in Seq(Issues) /\ Len(p) <= l + k
             /\ Len(p) = l + k => /\ \A i \in 1 .. l : p[i] = q[i]
                                  /\ \A i \in 1 .. k : p[l + i] = f[i]
           T == {k \in Nat : k <= n => /\ acc[k] \in Reps /\ Tallied(acc[k])
                                       /\ good(acc[k].issues, k)}
<1>4. \A i \in 1 .. n : f[i] \in Issues
  BY <1>0
<1>5. 0 \in T
  <2>1. acc[0] = r
    BY <1>3 DEF Adding
  <2>2. good(q, 0)
    BY <1>2
  <2> HIDE DEF good
  <2> QED BY <1>1, <2>1, <2>2
<1>6. ASSUME NEW k \in Nat, k \in T PROVE k + 1 \in T
  <2> SUFFICES ASSUME k + 1 <= n
               PROVE  acc[k + 1] \in Reps /\ Tallied(acc[k + 1]) /\ good(acc[k + 1].issues, k + 1)
    BY <1>6
  <2>1. acc[k] \in Reps /\ Tallied(acc[k]) /\ good(acc[k].issues, k)
    <3> HIDE DEF good
    <3> QED BY <1>6
  <2>2. PICK x \in Issues : x = f[k + 1]
    BY <1>4
  <2>3. acc[k + 1] = AddAt(acc[k], x, k + 1, grants)
    <3>1. k + 1 \in 1 .. n /\ k + 1 - 1 = k
      OBVIOUS
    <3> QED BY <1>3, <2>2, <3>1 DEF Adding
  <2>4. PICK y : y = acc[k + 1]
    OBVIOUS
  <2>5. PICK p \in Seq(Issues) : p = acc[k].issues
    BY <2>1
  <2>6. /\ y \in Reps /\ Tallied(y)
        /\ y.issues = p \/ y.issues = Append(p, x)
    BY <2>1, <2>3, <2>4, <2>5, AddTallied, SMTT(30)
  <2>7. good(p, k)
    BY <2>1, <2>5
  <2>8. good(p, k + 1)
    BY <1>2, <2>7
  <2>9. good(Append(p, x), k + 1)
    <3>1. PICK w : w = Append(p, x)
      OBVIOUS
    <3>2. PICK m \in Nat : m = Len(p) /\ m <= l + k
      BY <2>7
    <3>3. /\ w \in Seq(Issues) /\ Len(w) = m + 1 /\ w[m + 1] = x
          /\ \A i \in 1 .. m : w[i] = p[i]
      BY <3>1, <3>2
    <3>4. ASSUME m + 1 = l + (k + 1)
          PROVE  /\ \A i \in 1 .. l : w[i] = q[i]
                 /\ \A i \in 1 .. k + 1 : w[l + i] = f[i]
      <4>1. m = l + k
        BY <3>4
      <4>2. (\A i \in 1 .. l : p[i] = q[i]) /\ \A i \in 1 .. k : p[l + i] = f[i]
        BY <2>7, <3>2, <4>1
      <4>3. \A i \in 1 .. l : w[i] = q[i]
        BY <3>3, <4>1, <4>2
      <4>4. \A i \in 1 .. k : w[l + i] = f[i]
        <5>1. \A i \in 1 .. k : l + i \in 1 .. m
          BY <4>1
        <5> QED BY <3>3, <4>2, <5>1
      <4>5. w[l + (k + 1)] = f[k + 1]
        BY <2>2, <3>3, <3>4
      <4>6. \A i \in 1 .. k + 1 : i \in 1 .. k \/ i = k + 1
        OBVIOUS
      <4> QED BY <4>3, <4>4, <4>5, <4>6
    <3>5. good(w, k + 1)
      BY <3>2, <3>3, <3>4
    <3> QED BY <3>1, <3>5
  <2> HIDE DEF good
  <2> QED BY <2>4, <2>6, <2>8, <2>9
<1>7. PICK y : y = Added(f, r, grants)
  OBVIOUS
<1>8. y \in Reps /\ Tallied(y) /\ good(y.issues, n)
  <2> HIDE DEF good
  <2>1. \A k \in Nat : k \in T
    <3> HIDE DEF T
    <3> QED BY <1>5, <1>6, Induction
  <2> QED BY <1>3, <1>7, <2>1
<1>9. PICK p \in Seq(Issues) : p = y.issues
  BY <1>8
<1>10. ASSUME Len(p) = l + n PROVE p = q \o f
  <2>1. (\A i \in 1 .. l : p[i] = q[i]) /\ \A i \in 1 .. n : p[l + i] = f[i]
    BY <1>8, <1>9, <1>10
  <2>2. PICK w : w = q \o f
    OBVIOUS
  <2>3. /\ w \in Seq(Issues) /\ Len(w) = l + n
        /\ \A i \in 1 .. l + n : w[i] = IF i <= l THEN q[i] ELSE f[i - l]
    BY <1>0, <1>2, <2>2, ConcatProperties
  <2>4. \A i \in 1 .. l + n : p[i] = w[i]
    <3> SUFFICES ASSUME NEW i \in 1 .. l + n PROVE p[i] = w[i]
      OBVIOUS
    <3>1. CASE i <= l
      BY <2>1, <2>3, <3>1
    <3>2. CASE ~(i <= l)
      <4>1. PICK j \in 1 .. n : j = i - l /\ l + j = i
        BY <3>2
      <4> QED BY <2>1, <2>3, <3>2, <4>1
    <3> QED BY <3>1, <3>2
  <2>5. p = w
    BY <1>10, <2>3, <2>4, SeqEqual
  <2> QED BY <2>2, <2>5
<1>11. Len(p) \in Nat /\ Len(p) <= l + n
  BY <1>8, <1>9
<1> HIDE DEF good
<1> QED BY <1>0, <1>1, <1>2, <1>7, <1>8, <1>9, <1>10, <1>11

(***************************************************************************)
(* The checks of a record find issues.                                     *)
(***************************************************************************)
LEMMA FindingsTypes ==
  ASSUME NEW e \in Ev
  PROVE  Findings(e) \in Seq(Issues)
<1>1. /\ e.tag \in Tags /\ e.section \in Nat /\ e.inSection \in Nat
      /\ e.faults \in Seq(Nat)
  BY EvFields
<1>2. ASSUME NEW i \in Nat PROVE Issue(Severity(e.tag, i), e.section, e.inSection) \in Issues
  <2>1. PICK p \in Tags \X Nat : p = <<e.tag, i>>
    BY <1>1
  <2>2. PICK c : c = Severity(p[1], p[2])
    OBVIOUS
  <2>3. c \in Severities /\ c = Severity(e.tag, i)
    BY <2>1, <2>2 DEF Severities
  <2>4. Issue(c, e.section, e.inSection) \in Issues
    BY <1>1, <2>3 DEF Issue, Issues
  <2> QED BY <2>3, <2>4
<1>3. PICK n \in Nat : n = Len(e.faults) /\ DOMAIN e.faults = 1 .. n
  BY <1>1
<1>4. \A k \in 1 .. n : e.faults[k] \in Nat
  BY <1>1, <1>3
<1>5. Findings(e) = [k \in 1 .. n |-> Issue(Severity(e.tag, e.faults[k]), e.section, e.inSection)]
  BY <1>3 DEF Findings
<1>6. \A k \in 1 .. n : Findings(e)[k] \in Issues
  BY <1>2, <1>4, <1>5
<1>7. Findings(e) = [k \in 1 .. n |-> Findings(e)[k]]
  BY <1>5
<1> QED BY <1>6, <1>7

(***************************************************************************)
(* The inductive invariant of the validator.                               *)
(***************************************************************************)
ReportInv ==
  /\ rep \in Reps /\ Tallied(rep) /\ raised \in Seq(Issues)
  /\ ~denied => rep.issues = raised

ValidateInv == WalkTypes /\ (tool = "validate" => ReportInv)

(***************************************************************************)
(* Reporting the issues f, to the report r as the caller left it.          *)
(***************************************************************************)
LEMMA ReportStep ==
  ASSUME ReportInv, NEW r \in Reps, Tallied(r), r.issues = rep.issues,
         NEW f \in Seq(Issues), NEW grants, Report(f, r, grants)
  PROVE  ReportInv'
<1>1. PICK y : y = Added(f, r, grants)
  OBVIOUS
<1>2. rep' = y /\ raised' = raised \o f
  BY <1>1 DEF Report
<1>3. /\ y \in Reps /\ Tallied(y) /\ Len(y.issues) \in Nat
      /\ Len(y.issues) <= Len(r.issues) + Len(f)
      /\ Len(y.issues) = Len(r.issues) + Len(f) => y.issues = r.issues \o f
  BY <1>1, AddedIssues
<1>4. raised \o f \in Seq(Issues)
  BY ConcatProperties DEF ReportInv
<1>5. ~denied' => ~denied /\ ~(Len(y.issues) < Len(r.issues) + Len(f))
  BY <1>2, Zenon DEF Report
<1>6. Len(r.issues) \in Nat /\ Len(f) \in Nat
  BY DEF Reps
<1>7. ~(Len(y.issues) < Len(r.issues) + Len(f)) => y.issues = r.issues \o f
  BY <1>3, <1>6
<1>8. ~denied => r.issues = raised
  BY DEF ReportInv
<1>9. ~denied' => y.issues = raised \o f
  BY <1>5, <1>7, <1>8
<1> QED BY <1>2, <1>3, <1>4, <1>9 DEF ReportInv

(***************************************************************************)
(* Counting a record as checked.                                           *)
(***************************************************************************)
LEMMA CheckedKeeps ==
  ASSUME NEW r \in Reps, Tallied(r)
  PROVE  LET y == [r EXCEPT !.checked = @ + 1]
         IN  y \in Reps /\ Tallied(y) /\ y.issues = r.issues
<1>1. PICK c \in Nat : c = r.checked + 1
  BY DEF Reps
<1>2. PICK y : y = [r EXCEPT !.checked = c]
  OBVIOUS
<1>3. /\ y \in Reps /\ y.issues = r.issues /\ y.errors = r.errors /\ y.warnings = r.warnings
  BY <1>2 DEF Reps
<1>4. Tallied(y)
  BY <1>3 DEF Tallied
<1>5. y = [r EXCEPT !.checked = @ + 1]
  BY <1>1, <1>2
<1> QED BY <1>3, <1>4, <1>5

(***************************************************************************)
(* The totals of the validator agree with its list, and unless growing the *)
(* list failed every issue raised is on it, in order.                      *)
(***************************************************************************)
THEOREM NoIssueLost == Spec => []IssuesComplete
<1>0. \A s \in Nat, i \in Nat : <<Issue("error", s, i)>> \in Seq(Issues)
  <2>1. \A s \in Nat, i \in Nat : Issue("error", s, i) \in Issues
    BY DEF Issue, Issues, Severities
  <2> QED BY <2>1
<1>1. Init => ValidateInv
  <2> SUFFICES ASSUME Init PROVE ValidateInv
    OBVIOUS
  <2>1. WalkTypes
    BY DEF Init, WalkTypes, Pos
  <2>2. PICK q \in Seq(Issues) : q = <<>>
    <3>1. <<>> \in Seq(Issues)
      OBVIOUS
    <3> QED BY <3>1
  <2>3. rep = [issues |-> q, cap |-> 0, errors |-> 0, warnings |-> 0, checked |-> 0]
    BY <2>2 DEF Init
  <2>4. rep \in Reps
    BY <2>3 DEF Reps
  <2>5. \A sev : OfSeverity(q, sev) = {}
    BY <2>2 DEF OfSeverity
  <2>6. Tallied(rep)
    BY <2>3, <2>5, FS_EmptySet DEF Tallied
  <2>7. rep.issues = raised /\ raised \in Seq(Issues)
    BY <2>2, <2>3 DEF Init
  <2> QED BY <2>1, <2>4, <2>6, <2>7 DEF ValidateInv, ReportInv
<1>2. ValidateInv /\ [Next]_vars => ValidateInv'
  <2> SUFFICES ASSUME ValidateInv, [Next]_vars PROVE ValidateInv'
    OBVIOUS
  <2>1. WalkTypes' /\ tool' = tool
    BY WalkTypesStep DEF ValidateInv
  <2>2. CASE tool # "validate"
    BY <2>1, <2>2 DEF ValidateInv
  <2>3. CASE tool = "validate"
    <3>0. ReportInv /\ rep \in Reps /\ Tallied(rep)
      BY <2>3 DEF ValidateInv, ReportInv
    <3>1. CASE OnRecord
      <4>1. PICK r \in Inputs[tool] : ValidateOnRecord(Event(r))
        BY <2>3, <3>1 DEF OnRecord, TimelineOnRecord, StatsOnRecord, TopkOnRecord, IndexOnRecord
      <4>2. PICK e \in Ev : e = Event(r)
        BY EventTypes DEF ValidateInv
      <4>3. PICK y : y = [rep EXCEPT !.checked = @ + 1]
        OBVIOUS
      <4>4. PICK grants : Report(Findings(e), y, grants)
        BY <4>1, <4>2, <4>3 DEF ValidateOnRecord
      <4>5. y \in Reps /\ Tallied(y) /\ y.issues = rep.issues
        BY <3>0, <4>3, CheckedKeeps
      <4>6. ReportInv'
        BY <3>0, <4>4, <4>5, FindingsTypes, ReportStep
      <4> QED BY <2>1, <4>6 DEF ValidateInv
    <3>2. CASE OnError
      <4>1. pos.section \in Nat /\ pos.inSection \in Nat
        BY DEF ValidateInv, WalkTypes, Pos
      <4>2. PICK grants : Report(<<Issue("error", pos.section, pos.inSection)>>, rep, grants)
        BY <2>3, <3>2 DEF OnError
      <4>3. <<Issue("error", pos.section, pos.inSection)>> \in Seq(Issues)
        BY <1>0, <4>1
      <4>4. ReportInv'
        BY <3>0, <4>2, <4>3, ReportStep
      <4> QED BY <2>1, <4>4 DEF ValidateInv
    <3>3. CASE WalkReturns
      <4>1. CASE \E grants \in SUBSET {1} : Report(<<Issue("error", 0, 0)>>, rep, grants)
        <5>1. PICK grants : Report(<<Issue("error", 0, 0)>>, rep, grants)
          BY <4>1
        <5>2. <<Issue("error", 0, 0)>> \in Seq(Issues)
          BY <1>0
        <5>3. ReportInv'
          BY <3>0, <5>1, <5>2, ReportStep
        <5> QED BY <2>1, <5>3 DEF ValidateInv
      <4>2. CASE UNCHANGED <<rep, raised, denied>>
        <5>1. ReportInv'
          BY <3>0, <4>2 DEF ReportInv
        <5> QED BY <2>1, <5>1 DEF ValidateInv
      <4> QED BY <3>3, <4>1, <4>2 DEF WalkReturns
    <3>4. CASE NextSection \/ AnotherFile \/ Done \/ UNCHANGED vars
      <4>1. UNCHANGED <<rep, raised, denied>>
        BY <3>4 DEF NextSection, AnotherFile, Done, vars
      <4>2. ReportInv'
        BY <3>0, <4>1 DEF ReportInv
      <4> QED BY <2>1, <4>2 DEF ValidateInv
    <3> QED BY <3>1, <3>2, <3>3, <3>4 DEF Next
  <2> QED BY <2>2, <2>3
<1>3. ValidateInv => IssuesComplete
  BY DEF ValidateInv, ReportInv, IssuesComplete, Tallied, OfSeverity
<1> QED BY <1>1, <1>2, <1>3, PTL DEF Spec

-----------------------------------------------------------------------------
(***************************************************************************)
(* The index.  f holds the events of tag t among the first of s.           *)
(***************************************************************************)
Kept(x, e, t) == IF e.tag = t THEN Append(x, e) ELSE x

Selects(f, s, t, n) ==
  f[0] = <<>> /\ \A i \in 1 .. n : f[i] = Kept(f[i - 1], s[i], t)

(***************************************************************************)
(* OfTag is the last of them: the recursive function exists.               *)
(***************************************************************************)
LEMMA OfTagSelects ==
  ASSUME NEW S, NEW s \in Seq(S), NEW t
  PROVE  \E f : /\ Selects(f, s, t, Len(s)) /\ OfTag(s, t) = f[Len(s)]
                /\ f[Len(s)] \in Seq(S)
<1> DEFINE n == Len(s)
           V == Seq(S)
           rec(f) == [i \in 0 .. n |->
                        IF i = 0 THEN <<>>
                        ELSE IF s[i].tag = t THEN Append(f[i - 1], s[i]) ELSE f[i - 1]]
           upto(m) == \E f \in [0 .. m -> V] : Selects(f, s, t, m)
           T == {m \in Nat : m <= n => upto(m)}
<1>0. n \in Nat /\ (\A i \in 1 .. n : s[i] \in S) /\ <<>> \in V
  OBVIOUS
<1>a. \A x \in V, e \in S : Kept(x, e, t) \in V
  BY AppendProperties DEF Kept
<1> HIDE DEF V
<1>1. 0 \in T
  <2> DEFINE z == [i \in 0 .. 0 |-> <<>>]
  <2>1. z \in [0 .. 0 -> V] /\ z[0] = <<>>
    BY <1>0
  <2> HIDE DEF z
  <2>2. Selects(z, s, t, 0)
    BY <2>1 DEF Selects
  <2>3. upto(0)
    BY <2>1, <2>2
  <2> HIDE DEF upto
  <2> QED BY <2>3
<1>2. ASSUME NEW m \in Nat, m \in T PROVE m + 1 \in T
  <2> HIDE DEF upto, n
  <2> SUFFICES ASSUME m + 1 <= n PROVE upto(m + 1)
    OBVIOUS
  <2>0. m + 1 \in 1 .. n /\ m <= n
    BY <1>0
  <2>1. PICK f \in [0 .. m -> V] : Selects(f, s, t, m)
    BY <1>2, <2>0 DEF upto
  <2>2. PICK x \in V : x = Kept(f[m], s[m + 1], t)
    BY <1>0, <1>a, <2>0, <2>1
  <2> DEFINE g == [i \in 0 .. m + 1 |-> IF i = m + 1 THEN x ELSE f[i]]
  <2>3. g \in [0 .. m + 1 -> V]
    BY <2>1, <2>2
  <2>4. /\ g[0] = f[0] /\ g[m + 1] = x /\ g[m] = f[m]
        /\ \A i \in 1 .. m : g[i] = f[i] /\ g[i - 1] = f[i - 1]
    OBVIOUS
  <2> HIDE DEF g
  <2>5. \A i \in 1 .. m + 1 : i \in 1 .. m \/ (i = m + 1 /\ i - 1 = m)
    OBVIOUS
  <2>6. \A i \in 1 .. m + 1 : g[i] = Kept(g[i - 1], s[i], t)
    <3> SUFFICES ASSUME NEW i \in 1 .. m + 1 PROVE g[i] = Kept(g[i - 1], s[i], t)
      OBVIOUS
    <3>1. CASE i \in 1 .. m
      BY <2>1, <2>4, <3>1 DEF Selects
    <3>2. CASE i = m + 1 /\ i - 1 = m
      BY <2>2, <2>4, <3>2
    <3> QED BY <2>5, <3>1, <3>2
  <2>7. Selects(g, s, t, m + 1)
    BY <2>1, <2>4, <2>6 DEF Selects
  <2> QED BY <2>3, <2>7 DEF upto
<1>3. upto(n)
  <2> HIDE DEF upto
  <2>1. \A m \in Nat : m \in T
    <3> HIDE DEF T
    <3> QED BY <1>1, <1>2, Induction
  <2> QED BY <2>1, <1>0
<1>4. \E f : f = rec(f)
  <2>1. PICK f \in [0 .. n -> V] : Selects(f, s, t, n)
    BY <1>3
  <2>2. \A i \in 0 .. n : i = 0 \/ i \in 1 .. n
    BY <1>0
  <2>3. \A i \in 0 .. n : f[i] = IF i = 0 THEN <<>> ELSE Kept(f[i - 1], s[i], t)
    BY <2>1, <2>2 DEF Selects
  <2>4. f = [i \in 0 .. n |-> f[i]]
    BY <2>1
  <2>5. f = rec(f)
    BY <2>3, <2>4, Zenon DEF Kept
  <2> QED BY <2>5
<1> DEFINE sel == CHOOSE f : f = rec(f)
<1>5. sel = rec(sel)
  BY <1>4
<1>6. OfTag(s, t) = sel[n]
  BY DEF OfTag
<1> HIDE DEF sel
<1>7. \A i \in 0 .. n : sel[i] = IF i = 0 THEN <<>> ELSE Kept(sel[i - 1], s[i], t)
  BY <1>5, Zenon DEF Kept
<1>8. Selects(sel, s, t, n)
  <2>1. 0 \in 0 .. n /\ \A i \in 1 .. n : i \in 0 .. n /\ i # 0
    BY <1>0
  <2> QED BY <1>7, <2>1 DEF Selects
<1> DEFINE W == {k \in Nat : k <= n => sel[k] \in V}
<1>9. \A k \in Nat : k \in W
  <2> HIDE DEF n
  <2>1. 0 \in W
    BY <1>0, <1>8 DEF Selects
  <2>2. ASSUME NEW k \in Nat, k \in W PROVE k + 1 \in W
    <3> SUFFICES ASSUME k + 1 <= n PROVE sel[k + 1] \in V
      OBVIOUS
    <3>1. k + 1 \in 1 .. n /\ k <= n /\ k + 1 - 1 = k
      BY <1>0
    <3>2. sel[k + 1] = Kept(sel[k], s[k + 1], t) /\ sel[k] \in V /\ s[k + 1] \in S
      BY <1>0, <1>8, <2>2, <3>1 DEF Selects
    <3> QED BY <1>a, <3>2
  <2> HIDE DEF W
  <2> QED BY <2>1, <2>2, Induction
<1>10. sel[n] \in Seq(S)
  BY <1>0, <1>9 DEF V
<1> QED BY <1>6, <1>8, <1>10

(***************************************************************************)
(* The events of a tag after one event more.                               *)
(***************************************************************************)
LEMMA OfTagNext ==
  ASSUME NEW S, NEW s \in Seq(S), NEW e \in S, NEW t
  PROVE  OfTag(s, t) \in Seq(S) /\ OfTag(Append(s, e), t) = Kept(OfTag(s, t), e, t)
<1>0. PICK n \in Nat : n = Len(s)
  OBVIOUS
<1>1. PICK w : w = Append(s, e)
  OBVIOUS
<1>2. /\ w \in Seq(S) /\ Len(w) = n + 1 /\ w[n + 1] = e
      /\ \A i \in 1 .. n : w[i] = s[i]
  BY <1>0, <1>1, AppendProperties
<1>3. PICK f : Selects(f, s, t, n) /\ OfTag(s, t) = f[n] /\ f[n] \in Seq(S)
  BY <1>0, OfTagSelects
<1>4. PICK g : Selects(g, w, t, n + 1) /\ OfTag(w, t) = g[n + 1]
  BY <1>2, OfTagSelects
<1> DEFINE T == {k \in Nat : k <= n => f[k] = g[k]}
<1>5. 0 \in T
  BY <1>3, <1>4 DEF Selects
<1>6. ASSUME NEW k \in Nat, k \in T PROVE k + 1 \in T
  <2> SUFFICES ASSUME k + 1 <= n PROVE f[k + 1] = g[k + 1]
    OBVIOUS
  <2>1. k + 1 \in 1 .. n /\ k + 1 \in 1 .. n + 1 /\ (k + 1) - 1 = k /\ k <= n
    OBVIOUS
  <2>2. f[k + 1] = Kept(f[k], s[k + 1], t) /\ g[k + 1] = Kept(g[k], w[k + 1], t)
    BY <1>3, <1>4, <2>1 DEF Selects
  <2> QED BY <1>2, <1>6, <2>1, <2>2
<1>7. f[n] = g[n]
  <2>1. \A k \in Nat : k \in T
    <3> HIDE DEF T
    <3> QED BY <1>5, <1>6, Induction
  <2> QED BY <2>1
<1>8. g[n + 1] = Kept(g[n], e, t)
  <2>1. n + 1 \in 1 .. n + 1 /\ (n + 1) - 1 = n
    OBVIOUS
  <2> QED BY <1>2, <1>4, <2>1 DEF Selects
<1> QED BY <1>1, <1>3, <1>4, <1>7, <1>8

Entries == [tag : Tags, section : Nat, inSection : Nat, index : Nat]

Indexes == [chunks : Seq(Seq(Entries)), per_tag : [Tags -> Nat], total : Nat]

Listed(w) == [i \in DOMAIN w |-> Entry(w[i])]

(***************************************************************************)
(* The entry of an event, and the list of entries with one more.           *)
(***************************************************************************)
LEMMA ListedNext ==
  ASSUME NEW w \in Seq(Ev), NEW e \in Ev
  PROVE  /\ Entry(e) \in Entries /\ Entry(e).tag = e.tag
         /\ Listed(Append(w, e)) = Append(Listed(w), Entry(e))
<1>1. PICK n \in Nat : n = Len(w)
  OBVIOUS
<1>2. PICK v : v = Append(w, e)
  OBVIOUS
<1>3. /\ DOMAIN w = 1 .. n /\ DOMAIN v = 1 .. n + 1 /\ v[n + 1] = e
      /\ \A i \in 1 .. n : v[i] = w[i] /\ w[i] \in Ev
  BY <1>1, <1>2
<1>4. \A d \in Ev : Entry(d) \in Entries /\ Entry(d).tag = d.tag
  BY EvFields DEF Entry, Entries
<1>5. PICK a \in Seq(Entries) : a = Listed(w) /\ Len(a) = n /\ \A i \in 1 .. n : a[i] = Entry(w[i])
  <2>1. PICK a : a = [i \in 1 .. n |-> Entry(w[i])]
    OBVIOUS
  <2>2. \A i \in 1 .. n : Entry(w[i]) \in Entries
    BY <1>3, <1>4
  <2>3. a \in Seq(Entries) /\ Len(a) = n
    BY <2>1, <2>2
  <2> QED BY <1>3, <2>1, <2>3 DEF Listed
<1>6. PICK b \in Seq(Entries) :
        b = Listed(v) /\ Len(b) = n + 1 /\ \A i \in 1 .. n + 1 : b[i] = Entry(v[i])
  <2>1. PICK b : b = [i \in 1 .. n + 1 |-> Entry(v[i])]
    OBVIOUS
  <2>2. \A i \in 1 .. n + 1 : i \in 1 .. n \/ i = n + 1
    OBVIOUS
  <2>3. \A i \in 1 .. n + 1 : Entry(v[i]) \in Entries
    BY <1>3, <1>4, <2>2
  <2>4. b \in Seq(Entries) /\ Len(b) = n + 1
    BY <2>1, <2>3
  <2> QED BY <1>3, <2>1, <2>4 DEF Listed
<1>7. PICK x \in Entries : x = Entry(e)
  BY <1>4
<1>8. PICK c : c = Append(a, x)
  OBVIOUS
<1>9. /\ c \in Seq(Entries) /\ Len(c) = n + 1 /\ c[n + 1] = x /\ \A i \in 1 .. n : c[i] = a[i]
  BY <1>5, <1>8
<1>10. \A i \in 1 .. n + 1 : b[i] = c[i]
  <2>1. \A i \in 1 .. n : i \in 1 .. n + 1 /\ b[i] = c[i]
    BY <1>3, <1>5, <1>6, <1>9
  <2>2. b[n + 1] = c[n + 1]
    BY <1>3, <1>6, <1>7, <1>9
  <2> QED BY <2>1, <2>2
<1>11. b = c
  BY <1>6, <1>9, <1>10, SeqEqual
<1> QED BY <1>2, <1>4, <1>5, <1>6, <1>7, <1>8, <1>11

(***************************************************************************)
(* dtl_index_append posts behind everything posted before, whether or not  *)
(* it starts a chunk.                                                      *)
(***************************************************************************)
LEMMA PostedLast ==
  ASSUME idx.chunks \in Seq(Seq(Entries)), NEW x \in Entries
  PROVE  /\ Posted(idx.chunks, x) \in Seq(Seq(Entries))
         /\ FlattenSeq(Posted(idx.chunks, x)) = Append(FlattenSeq(idx.chunks), x)
         /\ FlattenSeq(idx.chunks) \in Seq(Entries)
<1>1. PICK q \in Seq(Seq(Entries)) : q = idx.chunks
  OBVIOUS
<1>2. PICK z \in Seq(Entries) : z = FlattenSeq(q)
  BY FlattenPlaces
<1>3. CASE ChunkFull
  <2>1. PICK y \in Seq(Entries) : y = <<x>>
    <3>1. <<x>> \in Seq(Entries)
      OBVIOUS
    <3> QED BY <3>1
  <2>2. Posted(q, x) = Append(q, y)
    BY <1>3, <2>1 DEF Posted
  <2>3. Append(q, y) \in Seq(Seq(Entries))
    BY AppendProperties
  <2>4. FlattenSeq(Append(q, y)) = z \o y
    BY <1>2, FlattenAppend
  <2>5. z \o <<x>> = Append(z, x)
    BY AppendIsConcat
  <2> QED BY <1>1, <1>2, <2>1, <2>2, <2>3, <2>4, <2>5
<1>4. CASE ~ChunkFull
  <2>1. q # <<>>
    BY <1>1, <1>4 DEF ChunkFull
  <2>2. Posted(q, x) = [q EXCEPT ![Len(q)] = Append(@, x)]
    BY <1>4 DEF Posted
  <2>3. /\ [q EXCEPT ![Len(q)] = Append(@, x)] \in Seq(Seq(Entries))
        /\ FlattenSeq([q EXCEPT ![Len(q)] = Append(@, x)]) = Append(z, x)
    BY <1>2, <2>1, FlattenExtended
  <2> QED BY <1>1, <1>2, <2>2, <2>3
<1> QED BY <1>3, <1>4

(***************************************************************************)
(* The inductive invariant of the index: each lookup finds the events of   *)
(* its tag.                                                                *)
(***************************************************************************)
Found(c, n, s, t) ==
  /\ OfTag(FlattenSeq(c), t) = Listed(OfTag(s, t))
  /\ n = Len(OfTag(s, t))

IndexInv ==
  /\ WalkTypes
  /\ tool = "index" =>
       /\ idx \in Indexes
       /\ \A t \in Tags : Found(idx.chunks, idx.per_tag[t], seen, t)

(***************************************************************************)
(* Only dtl_index_on_record changes the index.                             *)
(***************************************************************************)
LEMMA IndexStep ==
  ASSUME IndexInv, [Next]_vars, tool = "index"
  PROVE  \/ idx' = idx /\ seen' = seen
         \/ \E e \in Ev :
              /\ seen' = Append(seen, e)
              /\ idx' = [idx EXCEPT !.chunks = Posted(@, Entry(e)),
                                    !.per_tag[e.tag] = @ + 1, !.total = @ + 1]
<1>1. CASE OnRecord
  <2>1. PICK r \in Inputs[tool] :
          /\ IndexOnRecord(Event(r))
          /\ seen' = IF rc' = "walking" THEN Append(seen, Event(r)) ELSE seen
    BY <1>1 DEF OnRecord, TimelineOnRecord, StatsOnRecord, ValidateOnRecord, TopkOnRecord
  <2>2. rc = "walking"
    BY <1>1 DEF OnRecord
  <2>3. PICK e \in Ev : e = Event(r)
    BY EventTypes DEF IndexInv
  <2> QED BY <2>1, <2>2, <2>3 DEF IndexOnRecord
<1>2. CASE OnError \/ NextSection \/ WalkReturns \/ AnotherFile \/ Done \/ UNCHANGED vars
  BY <1>2 DEF OnError, NextSection, WalkReturns, AnotherFile, Done, vars
<1> QED BY <1>1, <1>2 DEF Next

(***************************************************************************)
(* One record more is found under its tag, and under no other.             *)
(***************************************************************************)
LEMMA FoundNext ==
  ASSUME NEW c \in Seq(Entries), NEW s \in Seq(Ev), NEW e \in Ev, NEW t \in Tags, NEW n \in Nat,
         OfTag(c, t) = Listed(OfTag(s, t)), n = Len(OfTag(s, t)), NEW m,
         m = IF t = e.tag THEN n + 1 ELSE n
  PROVE  /\ OfTag(Append(c, Entry(e)), t) = Listed(OfTag(Append(s, e), t))
         /\ m = Len(OfTag(Append(s, e), t))
<1>1. PICK x \in Entries : x = Entry(e) /\ x.tag = e.tag
  BY ListedNext
<1>2. PICK w \in Seq(Ev) : w = OfTag(s, t)
  BY OfTagNext
<1>3. OfTag(Append(c, x), t) = Kept(Listed(w), x, t)
  BY <1>2, OfTagNext
<1>4. OfTag(Append(s, e), t) = Kept(w, e, t)
  BY <1>2, OfTagNext
<1>5. Listed(Append(w, e)) = Append(Listed(w), x)
  BY <1>1, ListedNext
<1>6. Len(Append(w, e)) = Len(w) + 1
  OBVIOUS
<1> QED BY <1>1, <1>2, <1>3, <1>4, <1>5, <1>6 DEF Kept

(***************************************************************************)
(* Looking a tag up finds every record of that tag, in wire order, across  *)
(* chunks.                                                                 *)
(***************************************************************************)
THEOREM LookupComplete == Spec => []IndexFindsAll
<1>1. Init => IndexInv
  <2> SUFFICES ASSUME Init PROVE IndexInv
    OBVIOUS
  <2>1. WalkTypes
    BY DEF Init, WalkTypes, Pos
  <2>2. PICK q \in Seq(Seq(Entries)) : q = <<>>
    <3>1. <<>> \in Seq(Seq(Entries))
      OBVIOUS
    <3> QED BY <3>1
  <2>3. PICK p \in [Tags -> Nat] : p = [t \in Tags |-> 0]
    OBVIOUS
  <2>4. idx = [chunks |-> q, per_tag |-> p, total |-> 0] /\ seen = <<>>
    BY <2>2, <2>3 DEF Init
  <2>5. idx \in Indexes
    BY <2>4 DEF Indexes
  <2>6. FlattenSeq(q) = <<>>
    BY <2>2 DEF FlattenSeq
  <2>7. ASSUME NEW t PROVE OfTag(<<>>, t) = <<>>
    <3>1. PICK e \in Seq(Ev) : e = <<>>
      <4>1. <<>> \in Seq(Ev)
        OBVIOUS
      <4> QED BY <4>1
    <3>2. Len(e) = 0
      BY <3>1
    <3>3. PICK f : Selects(f, e, t, 0) /\ OfTag(e, t) = f[0]
      BY <3>2, OfTagSelects
    <3> QED BY <3>1, <3>3 DEF Selects
  <2>8. Listed(<<>>) = <<>>
    BY DEF Listed
  <2>9. ASSUME NEW t \in Tags PROVE Found(idx.chunks, idx.per_tag[t], seen, t)
    <3>1. idx.chunks = q /\ idx.per_tag[t] = 0 /\ Len(<<>>) = 0
      BY <2>3, <2>4
    <3> QED BY <2>4, <2>6, <2>7, <2>8, <3>1 DEF Found
  <2> QED BY <2>1, <2>5, <2>9 DEF IndexInv
<1>2. IndexInv /\ [Next]_vars => IndexInv'
  <2> SUFFICES ASSUME IndexInv, [Next]_vars PROVE IndexInv'
    OBVIOUS
  <2>1. WalkTypes' /\ tool' = tool
    BY WalkTypesStep DEF IndexInv
  <2>2. CASE tool # "index"
    BY <2>1, <2>2 DEF IndexInv
  <2>3. CASE tool = "index"
    <3>0. /\ idx \in Indexes /\ seen \in Seq(Ev)
          /\ \A t \in Tags : Found(idx.chunks, idx.per_tag[t], seen, t)
      BY <2>3 DEF IndexInv, WalkTypes
    <3>1. CASE idx' = idx /\ seen' = seen
      BY <2>1, <3>0, <3>1 DEF IndexInv
    <3>2. ASSUME NEW e \in Ev, seen' = Append(seen, e),
                 idx' = [idx EXCEPT !.chunks = Posted(@, Entry(e)),
                                    !.per_tag[e.tag] = @ + 1, !.total = @ + 1]
          PROVE  IndexInv'
      <4>1. /\ idx.chunks \in Seq(Seq(Entries)) /\ idx.per_tag \in [Tags -> Nat]
            /\ idx.total \in Nat
            /\ idx = [chunks |-> idx.chunks, per_tag |-> idx.per_tag, total |-> idx.total]
        BY <3>0 DEF Indexes
      <4>2. PICK x \in Entries : x = Entry(e)
        BY <3>0, <3>2, ListedNext
      <4>3. PICK c \in Seq(Seq(Entries)) :
              /\ c = Posted(idx.chunks, x)
              /\ FlattenSeq(c) = Append(FlattenSeq(idx.chunks), x)
              /\ FlattenSeq(idx.chunks) \in Seq(Entries)
        BY <4>1, PostedLast
      <4>4. e.tag \in Tags
        BY <3>2, EvFields
      <4>5. PICK p \in [Tags -> Nat] : p = [idx.per_tag EXCEPT ![e.tag] = @ + 1]
        <5>1. [idx.per_tag EXCEPT ![e.tag] = @ + 1] \in [Tags -> Nat]
          BY <4>1, <4>4
        <5> QED BY <5>1
      <4>6. PICK n \in Nat : n = idx.total + 1
        BY <4>1
      <4>7. idx' = [chunks |-> Posted(idx.chunks, Entry(e)),
                    per_tag |-> [idx.per_tag EXCEPT ![e.tag] = @ + 1],
                    total |-> idx.total + 1]
        BY <3>2, <4>1
      <4>8. idx' = [chunks |-> c, per_tag |-> p, total |-> n]
        BY <4>2, <4>3, <4>5, <4>6, <4>7
      <4>9. idx' \in Indexes
        BY <4>8 DEF Indexes
      <4>10. idx'.chunks = c /\ idx'.per_tag = p
        BY <4>8
      <4>11. ASSUME NEW t \in Tags PROVE Found(c, p[t], Append(seen, e), t)
        <5>1. p[t] = IF t = e.tag THEN idx.per_tag[t] + 1 ELSE idx.per_tag[t]
          BY <4>1, <4>5
        <5>2. idx.per_tag[t] \in Nat
          BY <4>1
        <5>3. /\ OfTag(FlattenSeq(idx.chunks), t) = Listed(OfTag(seen, t))
              /\ idx.per_tag[t] = Len(OfTag(seen, t))
          BY <3>0 DEF Found
        <5>4. /\ OfTag(Append(FlattenSeq(idx.chunks), x), t) = Listed(OfTag(Append(seen, e), t))
              /\ p[t] = Len(OfTag(Append(seen, e), t))
          BY <3>0, <3>2, <4>2, <4>3, <5>1, <5>2, <5>3, FoundNext, SMTT(30)
        <5> QED BY <4>3, <5>4 DEF Found
      <4>12. \A t \in Tags : Found(idx'.chunks, idx'.per_tag[t], seen', t)
        BY <3>2, <4>10, <4>11
      <4> QED BY <2>1, <4>9, <4>12 DEF IndexInv
    <3> QED BY <2>3, <3>1, <3>2, IndexStep
  <2> QED BY <2>2, <2>3
<1>3. IndexInv => IndexFindsAll
  BY DEF IndexInv, Found, Listed, IndexFindsAll, ForeachTag
<1> QED BY <1>1, <1>2, <1>3, PTL DEF Spec

-----------------------------------------------------------------------------
(***************************************************************************)
(* Top-k.  Descends: the order of the report.  Rises: the order in which   *)
(* the walk delivers.                                                      *)
(***************************************************************************)
Rows == [value : Nat, index : Nat]

Outranks(e, f) == e.value > f.value \/ (e.value = f.value /\ e.index < f.index)

Descends(p) == \A i, j \in DOMAIN p : i < j => Outranks(p[i], p[j])

Rises(p) == \A i, j \in DOMAIN p : i < j => p[i].index < p[j].index

(***************************************************************************)
(* One step of dtl_topk_sort: below the entries of an equal or a greater   *)
(* value, all of them earlier on the wire, above the others.               *)
(***************************************************************************)
LEMMA PlacedSorted ==
  ASSUME NEW p \in Seq(Rows), Descends(p), NEW key \in Rows,
         \A i \in DOMAIN p : p[i].index < key.index
  PROVE  LET w == Placed(p, key)
         IN  /\ w \in Seq(Rows) /\ Len(w) = Len(p) + 1 /\ Descends(w)
             /\ Range(w) = Range(p) \cup {key}
<1>0. PICK n \in Nat : n = Len(p)
  OBVIOUS
<1>1. DOMAIN p = 1 .. n /\ \A i \in 1 .. n : p[i] \in Rows /\ p[i].value \in Nat /\ p[i].index \in Nat
  <2>1. \A i \in 1 .. n : p[i] \in Rows
    BY <1>0
  <2>2. \A r \in Rows : r.value \in Nat /\ r.index \in Nat
    BY DEF Rows
  <2> QED BY <1>0, <2>1, <2>2
<1>2. key.value \in Nat /\ key.index \in Nat
  BY DEF Rows
<1> DEFINE stays == {j \in DOMAIN p : ~ (p[j].value < key.value)}
           last == CHOOSE j \in stays : \A k \in stays : k <= j
<1>3. PICK a \in 1 .. n + 1 :
        /\ Placed(p, key) = InsertAt(p, a, key)
        /\ \A i \in 1 .. a - 1 : ~(p[i].value < key.value)
        /\ \A i \in a .. n : p[i].value < key.value
  <2>1. CASE stays = {}
    <3>1. Placed(p, key) = InsertAt(p, 1, key)
      BY <2>1 DEF Placed
    <3>2. \A i \in 1 .. n : p[i].value < key.value
      BY <1>1, <2>1
    <3> QED BY <3>1, <3>2
  <2>2. CASE stays # {}
    <3>1. stays \subseteq 0 .. n
      BY <1>1
    <3>2. \E j \in stays : \A k \in stays : k <= j
      <4> HIDE DEF stays
      <4> QED BY <2>2, <3>1, GreatestNatural
    <3>3. last \in stays /\ \A k \in stays : k <= last
      BY <3>2
    <3>4. Placed(p, key) = InsertAt(p, 1 + last, key)
      BY <2>2 DEF Placed
    <3> HIDE DEF last
    <3>5. last \in 1 .. n /\ ~(p[last].value < key.value)
      BY <1>1, <3>3
    <3>6. ASSUME NEW i \in 1 .. last PROVE ~(p[i].value < key.value)
      <4>1. i \in 1 .. n /\ (i = last \/ i < last)
        BY <3>5
      <4>2. i = last \/ Outranks(p[i], p[last])
        <5>1. \A j, k \in 1 .. n : j < k => Outranks(p[j], p[k])
          BY <1>1 DEF Descends
        <5> QED BY <3>5, <4>1, <5>1
      <4>3. p[i].value \in Nat /\ p[last].value \in Nat
        BY <1>1, <3>5, <4>1
      <4> QED BY <1>2, <3>5, <4>2, <4>3 DEF Outranks
    <3>7. \A i \in last + 1 .. n : p[i].value < key.value
      <4>1. \A i \in last + 1 .. n : i \in 1 .. n /\ ~(i <= last)
        BY <3>5
      <4>2. \A i \in last + 1 .. n : i \notin stays
        BY <3>3, <4>1
      <4> QED BY <1>1, <4>1, <4>2
    <3>8. PICK a \in 1 .. n + 1 : a = 1 + last
      BY <3>5
    <3>9. a - 1 = last /\ a = last + 1
      BY <3>5, <3>8
    <3> QED BY <3>4, <3>6, <3>7, <3>8, <3>9
  <2> QED BY <2>1, <2>2
<1>4. PICK w : w = Placed(p, key)
  OBVIOUS
<1> HIDE DEF stays, last
<1>5. /\ w \in Seq(Rows) /\ Len(w) = n + 1 /\ w[a] = key
      /\ \A i \in 1 .. a - 1 : w[i] = p[i]
      /\ \A i \in a + 1 .. n + 1 : w[i] = p[i - 1]
  <2>1. w = InsertAt(p, a, key)
    BY <1>3, <1>4
  <2>2. p \in Seq(Rows) /\ key \in Rows /\ n \in Nat /\ n = Len(p) /\ a \in 1 .. n + 1
    BY <1>0
  <2>3. w \in Seq(Rows) /\ InsertedAt(w, p, n, a, key)
    BY <2>1, <2>2, Inserted
  <2> QED BY <2>3 DEF InsertedAt
<1>6. DOMAIN w = 1 .. n + 1
  BY <1>5
<1>7. ASSUME NEW i \in 1 .. n + 1, NEW j \in 1 .. n + 1, i < j PROVE Outranks(w[i], w[j])
  <2>1. CASE j < a
    <3>1. i \in 1 .. a - 1 /\ j \in 1 .. a - 1 /\ i \in 1 .. n /\ j \in 1 .. n
      BY <1>7, <2>1
    <3> QED BY <1>1, <1>5, <1>7, <3>1 DEF Descends
  <2>2. CASE j = a
    <3>1. i \in 1 .. a - 1 /\ i \in 1 .. n
      BY <1>7, <2>2
    <3>2. ~(p[i].value < key.value) /\ p[i].index < key.index /\ p[i].value \in Nat
      BY <1>1, <1>3, <3>1
    <3>3. Outranks(p[i], key)
      BY <1>2, <3>2 DEF Outranks
    <3> QED BY <1>5, <2>2, <3>1, <3>3
  <2>3. CASE a < j
    <3>1. j \in a + 1 .. n + 1 /\ j - 1 \in 1 .. n /\ j - 1 \in a .. n
      BY <2>3
    <3>2. w[j] = p[j - 1]
      BY <1>5, <3>1
    <3>3. CASE i < a
      <4>1. i \in 1 .. a - 1 /\ i \in 1 .. n /\ i < j - 1
        BY <2>3, <3>3
      <4>2. Outranks(p[i], p[j - 1])
        BY <1>1, <3>1, <4>1 DEF Descends
      <4> QED BY <1>5, <3>2, <4>1, <4>2
    <3>4. CASE i = a
      <4>1. p[j - 1].value < key.value /\ p[j - 1].value \in Nat
        BY <1>1, <1>3, <3>1
      <4>2. Outranks(key, p[j - 1])
        BY <1>2, <4>1 DEF Outranks
      <4> QED BY <1>5, <3>2, <3>4, <4>2
    <3>5. CASE a < i
      <4>1. i \in a + 1 .. n + 1 /\ i - 1 \in 1 .. n /\ i - 1 < j - 1
        BY <1>7, <3>5
      <4>2. Outranks(p[i - 1], p[j - 1])
        BY <1>1, <3>1, <4>1 DEF Descends
      <4> QED BY <1>5, <3>2, <4>1, <4>2
    <3> QED BY <3>3, <3>4, <3>5
  <2> QED BY <2>1, <2>2, <2>3
<1>8. Descends(w)
  BY <1>6, <1>7 DEF Descends
<1>9. Range(w) = Range(p) \cup {key}
  <2>1. ASSUME NEW i \in 1 .. n + 1 PROVE w[i] \in Range(p) \cup {key}
    <3>1. i \in 1 .. a - 1 \/ i = a \/ i \in a + 1 .. n + 1
      OBVIOUS
    <3>2. \A k \in 1 .. n : p[k] \in Range(p)
      BY <1>1 DEF Range
    <3>3. i \in 1 .. a - 1 => i \in 1 .. n
      OBVIOUS
    <3>4. i \in a + 1 .. n + 1 => i - 1 \in 1 .. n
      OBVIOUS
    <3> QED BY <1>5, <3>1, <3>2, <3>3, <3>4
  <2>2. key \in Range(w)
    BY <1>5, <1>6 DEF Range
  <2>3. ASSUME NEW i \in 1 .. n PROVE p[i] \in Range(w)
    <3>1. CASE i < a
      <4>1. i \in 1 .. a - 1 /\ i \in 1 .. n + 1
        BY <3>1
      <4> QED BY <1>5, <1>6, <4>1 DEF Range
    <3>2. CASE ~(i < a)
      <4>1. i + 1 \in a + 1 .. n + 1 /\ i + 1 \in 1 .. n + 1 /\ (i + 1) - 1 = i
        BY <3>2
      <4>2. w[i + 1] = p[i]
        BY <1>5, <4>1
      <4> QED BY <1>6, <4>1, <4>2 DEF Range
    <3> QED BY <3>1, <3>2
  <2> QED BY <1>1, <1>6, <2>1, <2>2, <2>3 DEF Range
<1> QED BY <1>0, <1>4, <1>5, <1>8, <1>9

(***************************************************************************)
(* The first k entries, sorted.                                            *)
(***************************************************************************)
SortedTo(p, q, k) ==
  /\ p \in Seq(Rows) /\ Len(p) = k /\ Descends(p)
  /\ Range(p) = {q[i] : i \in 1 .. k}

(***************************************************************************)
(* dtl_topk_sort sorts its next entry in.                                  *)
(***************************************************************************)
LEMMA SortedNext ==
  ASSUME NEW q \in Seq(Rows), Rises(q), NEW k \in Nat, k + 1 <= Len(q), NEW p,
         SortedTo(p, q, k)
  PROVE  SortedTo(Placed(p, q[k + 1]), q, k + 1)
<1>0. PICK n \in Nat : n = Len(q)
  OBVIOUS
<1>1. DOMAIN q = 1 .. n /\ k + 1 \in 1 .. n
  BY <1>0
<1>2. PICK key \in Rows : key = q[k + 1]
  BY <1>0, <1>1
<1>3. p \in Seq(Rows) /\ Len(p) = k /\ Descends(p) /\ Range(p) = {q[i] : i \in 1 .. k}
  BY DEF SortedTo
<1>4. \A i \in DOMAIN p : p[i].index < key.index
  <2>1. \A j \in 1 .. k : q[j].index < key.index
    <3>1. \A j \in 1 .. k : j \in 1 .. n /\ j < k + 1
      BY <1>1
    <3> QED BY <1>1, <1>2, <3>1 DEF Rises
  <2>2. \A i \in DOMAIN p : p[i] \in {q[j] : j \in 1 .. k}
    BY <1>3 DEF Range
  <2> QED BY <2>1, <2>2
<1>5. PICK w : w = Placed(p, key)
  OBVIOUS
<1>6. w \in Seq(Rows) /\ Len(w) = Len(p) + 1 /\ Descends(w) /\ Range(w) = Range(p) \cup {key}
  BY <1>3, <1>4, <1>5, PlacedSorted
<1>7. Len(w) = k + 1
  BY <1>3, <1>6
<1>8. Range(w) = {q[i] : i \in 1 .. k + 1}
  <2>1. \A i \in 1 .. k + 1 : i \in 1 .. k \/ i = k + 1
    OBVIOUS
  <2>2. k + 1 \in 1 .. k + 1 /\ \A i \in 1 .. k : i \in 1 .. k + 1
    OBVIOUS
  <2>3. {q[i] : i \in 1 .. k + 1} = {q[i] : i \in 1 .. k} \cup {key}
    BY <1>2, <2>1, <2>2
  <2> QED BY <1>3, <1>6, <2>3
<1>9. SortedTo(w, q, k + 1)
  BY <1>6, <1>7, <1>8 DEF SortedTo
<1> QED BY <1>2, <1>5, <1>9

(***************************************************************************)
(* f holds the entries of q sorted so far.                                 *)
(***************************************************************************)
Sorting(f, q, n) == f[0] = <<>> /\ \A i \in 1 .. n : f[i] = Placed(f[i - 1], q[i])

(***************************************************************************)
(* dtl_topk_sort: all entries, in the order of the report.                 *)
(***************************************************************************)
LEMMA TopkSorted ==
  ASSUME NEW q \in Seq(Rows), Rises(q)
  PROVE  SortedTo(TopkSort(q), q, Len(q))
<1> DEFINE n == Len(q)
           V == Seq(Rows)
           rec(f) == [i \in 0 .. n |-> IF i = 0 THEN <<>> ELSE Placed(f[i - 1], q[i])]
           upto(m) == \E f \in [0 .. m -> V] : Sorting(f, q, m) /\ SortedTo(f[m], q, m)
           T == {m \in Nat : m <= n => upto(m)}
<1>0. n \in Nat /\ <<>> \in V
  OBVIOUS
<1>a. SortedTo(<<>>, q, 0)
  <2>1. PICK z : z = <<>>
    OBVIOUS
  <2>2. z \in Seq(Rows) /\ Len(z) = 0 /\ DOMAIN z = {}
    BY <2>1
  <2>3. Range(z) = {} /\ {q[i] : i \in 1 .. 0} = {}
    BY <2>2 DEF Range
  <2>4. SortedTo(z, q, 0)
    BY <2>2, <2>3 DEF SortedTo, Descends
  <2> QED BY <2>1, <2>4
<1>b. \A p, m : SortedTo(p, q, m) => p \in V
  BY DEF SortedTo
<1> HIDE DEF V
<1>1. 0 \in T
  <2> DEFINE z == [i \in 0 .. 0 |-> <<>>]
  <2>1. z \in [0 .. 0 -> V] /\ z[0] = <<>>
    BY <1>0
  <2> HIDE DEF z
  <2>2. Sorting(z, q, 0)
    BY <2>1 DEF Sorting
  <2>3. upto(0)
    BY <1>a, <2>1, <2>2
  <2> HIDE DEF upto
  <2> QED BY <2>3
<1>2. ASSUME NEW m \in Nat, m \in T PROVE m + 1 \in T
  <2> HIDE DEF upto, n
  <2> SUFFICES ASSUME m + 1 <= n PROVE upto(m + 1)
    OBVIOUS
  <2>0. m + 1 \in 1 .. n /\ m <= n
    BY <1>0
  <2>1. PICK f \in [0 .. m -> V] : Sorting(f, q, m) /\ SortedTo(f[m], q, m)
    BY <1>2, <2>0 DEF upto
  <2>2. PICK x \in V : x = Placed(f[m], q[m + 1]) /\ SortedTo(x, q, m + 1)
    <3>1. SortedTo(Placed(f[m], q[m + 1]), q, m + 1)
      BY <2>1, SortedNext DEF n
    <3> QED BY <1>b, <3>1
  <2> DEFINE g == [i \in 0 .. m + 1 |-> IF i = m + 1 THEN x ELSE f[i]]
  <2>3. g \in [0 .. m + 1 -> V]
    BY <2>1, <2>2
  <2>4. /\ g[0] = f[0] /\ g[m + 1] = x /\ g[m] = f[m]
        /\ \A i \in 1 .. m : g[i] = f[i] /\ g[i - 1] = f[i - 1]
    OBVIOUS
  <2> HIDE DEF g
  <2>5. \A i \in 1 .. m + 1 : i \in 1 .. m \/ (i = m + 1 /\ i - 1 = m)
    OBVIOUS
  <2>6. \A i \in 1 .. m + 1 : g[i] = Placed(g[i - 1], q[i])
    <3> SUFFICES ASSUME NEW i \in 1 .. m + 1 PROVE g[i] = Placed(g[i - 1], q[i])
      OBVIOUS
    <3>1. CASE i \in 1 .. m
      BY <2>1, <2>4, <3>1 DEF Sorting
    <3>2. CASE i = m + 1 /\ i - 1 = m
      BY <2>2, <2>4, <3>2
    <3> QED BY <2>5, <3>1, <3>2
  <2>7. Sorting(g, q, m + 1) /\ SortedTo(g[m + 1], q, m + 1)
    BY <2>1, <2>2, <2>4, <2>6 DEF Sorting
  <2> QED BY <2>3, <2>7 DEF upto
<1>3. upto(n)
  <2> HIDE DEF upto
  <2>1. \A m \in Nat : m \in T
    <3> HIDE DEF T
    <3> QED BY <1>1, <1>2, Induction
  <2> QED BY <2>1, <1>0
<1>4. \E f : f = rec(f)
  <2>1. PICK f \in [0 .. n -> V] : Sorting(f, q, n)
    BY <1>3
  <2>2. \A i \in 0 .. n : i = 0 \/ i \in 1 .. n
    BY <1>0
  <2>3. \A i \in 0 .. n : f[i] = IF i = 0 THEN <<>> ELSE Placed(f[i - 1], q[i])
    BY <2>1, <2>2 DEF Sorting
  <2>4. f = [i \in 0 .. n |-> f[i]]
    BY <2>1
  <2>5. f = rec(f)
    BY <2>3, <2>4, Zenon
  <2> QED BY <2>5
<1> DEFINE sorted == CHOOSE f : f = rec(f)
<1>5. sorted = rec(sorted)
  BY <1>4
<1>6. TopkSort(q) = sorted[n]
  BY DEF TopkSort
<1> HIDE DEF sorted
<1>7. \A i \in 0 .. n : sorted[i] = IF i = 0 THEN <<>> ELSE Placed(sorted[i - 1], q[i])
  BY <1>5, Zenon
<1> DEFINE W == {k \in Nat : k <= n => SortedTo(sorted[k], q, k)}
<1>8. \A k \in Nat : k \in W
  <2> HIDE DEF n
  <2>1. 0 \in W
    BY <1>0, <1>7, <1>a
  <2>2. ASSUME NEW k \in Nat, k \in W PROVE k + 1 \in W
    <3> SUFFICES ASSUME k + 1 <= n PROVE SortedTo(sorted[k + 1], q, k + 1)
      OBVIOUS
    <3>1. k + 1 \in 0 .. n /\ k + 1 # 0 /\ k <= n /\ k + 1 - 1 = k
      BY <1>0
    <3>2. sorted[k + 1] = Placed(sorted[k], q[k + 1]) /\ SortedTo(sorted[k], q, k)
      BY <1>7, <2>2, <3>1
    <3> QED BY <3>2, SortedNext DEF n
  <2> HIDE DEF W
  <2> QED BY <2>1, <2>2, Induction
<1> QED BY <1>0, <1>6, <1>8

(***************************************************************************)
(* The events that carry the field, as rows, and the rows collected.       *)
(***************************************************************************)
Row(e) == [value |-> e.v, index |-> e.index]

Carrying(s) == {Row(s[i]) : i \in {j \in DOMAIN s : s[j].tag = TopField}}

Collected(q, s) ==
  /\ q \in Seq(Rows) /\ Rises(q)
  /\ Range(q) = Carrying(s) /\ IsFiniteSet(Carrying(s)) /\ Cardinality(Carrying(s)) = Len(q)

Below(q, n) == \A i \in DOMAIN q : q[i].index < n

(***************************************************************************)
(* The rows after one event more.                                          *)
(***************************************************************************)
LEMMA CarryingNext ==
  ASSUME NEW s \in Seq(Ev), NEW e \in Ev
  PROVE  /\ Row(e) \in Rows /\ Row(e).index = e.index
         /\ e.tag = TopField => Carrying(Append(s, e)) = Carrying(s) \cup {Row(e)}
         /\ e.tag # TopField => Carrying(Append(s, e)) = Carrying(s)
<1>1. PICK n \in Nat : n = Len(s)
  OBVIOUS
<1>2. PICK w : w = Append(s, e)
  OBVIOUS
<1>3. /\ DOMAIN s = 1 .. n /\ DOMAIN w = 1 .. n + 1 /\ w[n + 1] = e
      /\ \A i \in 1 .. n : w[i] = s[i]
  BY <1>1, <1>2
<1> DEFINE D == {j \in DOMAIN s : s[j].tag = TopField}
           E == {j \in DOMAIN w : w[j].tag = TopField}
<1>4. D \subseteq 1 .. n /\ E = IF e.tag = TopField THEN D \cup {n + 1} ELSE D
  BY <1>3
<1>5. Row(e) \in Rows /\ Row(e).index = e.index
  BY EvFields DEF Row, Rows
<1>6. Carrying(s) = {Row(s[i]) : i \in D} /\ Carrying(w) = {Row(w[i]) : i \in E}
  BY DEF Carrying
<1> HIDE DEF D, E
<1>7. \A i \in D : w[i] = s[i]
  BY <1>3, <1>4
<1>8. CASE e.tag = TopField
  <2>1. \A i \in E : i \in D \/ i = n + 1
    BY <1>4, <1>8
  <2>2. n + 1 \in E /\ \A i \in D : i \in E
    BY <1>4, <1>8
  <2>3. {Row(w[i]) : i \in E} = {Row(s[i]) : i \in D} \cup {Row(e)}
    BY <1>3, <1>7, <2>1, <2>2
  <2> QED BY <1>2, <1>5, <1>6, <1>8, <2>3
<1>9. CASE e.tag # TopField
  <2>1. E = D
    BY <1>4, <1>9
  <2>2. {Row(w[i]) : i \in D} = {Row(s[i]) : i \in D}
    BY <1>7
  <2> QED BY <1>2, <1>5, <1>6, <1>9, <2>1, <2>2
<1> QED BY <1>8, <1>9

(***************************************************************************)
(* dtl_topk_on_record collects a record that carries the field.            *)
(***************************************************************************)
LEMMA CollectedNext ==
  ASSUME NEW q, NEW s \in Seq(Ev), NEW e \in Ev, Collected(q, s), e.tag = TopField,
         Below(q, e.index)
  PROVE  Collected(Append(q, Row(e)), Append(s, e)) /\ Below(Append(q, Row(e)), e.index + 1)
<1>0. /\ q \in Seq(Rows) /\ Rises(q) /\ Range(q) = Carrying(s) /\ IsFiniteSet(Carrying(s))
      /\ Cardinality(Carrying(s)) = Len(q)
  BY DEF Collected
<1>1. PICK n \in Nat : n = Len(q)
  BY <1>0
<1>2. PICK x \in Rows : x = Row(e) /\ x.index = e.index
  BY CarryingNext
<1>3. PICK w : w = Append(q, x)
  OBVIOUS
<1>4. /\ w \in Seq(Rows) /\ Len(w) = n + 1 /\ DOMAIN w = 1 .. n + 1 /\ DOMAIN q = 1 .. n
      /\ w[n + 1] = x /\ \A i \in 1 .. n : w[i] = q[i]
  BY <1>0, <1>1, <1>3
<1>5. e.index \in Nat /\ \A i \in 1 .. n : q[i].index \in Nat /\ q[i].index < e.index
  <2>1. \A i \in 1 .. n : q[i] \in Rows
    BY <1>0, <1>1
  <2>2. \A r \in Rows : r.index \in Nat
    BY DEF Rows
  <2> QED BY <1>4, <2>1, <2>2, EvFields DEF Below
<1>6. Rises(w)
  <2> SUFFICES ASSUME NEW i \in 1 .. n + 1, NEW j \in 1 .. n + 1, i < j
               PROVE  w[i].index < w[j].index
    BY <1>4 DEF Rises
  <2>1. i \in 1 .. n
    OBVIOUS
  <2>2. CASE j = n + 1
    BY <1>2, <1>4, <1>5, <2>1, <2>2
  <2>3. CASE j # n + 1
    <3>1. j \in 1 .. n
      BY <2>3
    <3> QED BY <1>0, <1>4, <2>1, <3>1 DEF Rises
  <2> QED BY <2>2, <2>3
<1>7. Range(w) = Range(q) \cup {x}
  <2>1. \A i \in 1 .. n + 1 : i \in 1 .. n \/ i = n + 1
    OBVIOUS
  <2>2. n + 1 \in 1 .. n + 1 /\ \A i \in 1 .. n : i \in 1 .. n + 1
    OBVIOUS
  <2> QED BY <1>4, <2>1, <2>2 DEF Range
<1>8. x \notin Range(q)
  <2>1. \A i \in 1 .. n : q[i] # x
    BY <1>2, <1>5
  <2> QED BY <1>4, <2>1 DEF Range
<1>9. Carrying(Append(s, e)) = Carrying(s) \cup {x}
  BY <1>2, CarryingNext
<1>10. /\ IsFiniteSet(Carrying(s) \cup {x})
       /\ Cardinality(Carrying(s) \cup {x}) = n + 1
  <2>1. x \notin Carrying(s)
    BY <1>0, <1>8
  <2>2. PICK C : C = Carrying(s)
    OBVIOUS
  <2>3. IsFiniteSet(C \cup {x}) /\ Cardinality(C \cup {x}) = Cardinality(C) + 1
    BY <1>0, <2>1, <2>2, FS_AddElement
  <2> QED BY <1>0, <1>1, <2>2, <2>3
<1>11. Collected(w, Append(s, e))
  BY <1>0, <1>4, <1>6, <1>7, <1>9, <1>10 DEF Collected
<1>12. Below(w, e.index + 1)
  <2> SUFFICES ASSUME NEW i \in 1 .. n + 1 PROVE w[i].index < e.index + 1
    BY <1>4 DEF Below
  <2>1. CASE i = n + 1
    BY <1>2, <1>4, <1>5, <2>1
  <2>2. CASE i \in 1 .. n
    BY <1>4, <1>5, <2>2
  <2> QED BY <2>1, <2>2
<1> QED BY <1>2, <1>3, <1>11, <1>12

(***************************************************************************)
(* The inductive invariant of topk: while the walk runs the rows are below *)
(* its record counter, and once it has returned the report is printed from *)
(* the sorted rows.                                                        *)
(***************************************************************************)
Printed(q) == SubSeq(TopkSort(q), 1, Shown(Len(q)))

Tops == [entries : Seq(Rows), cap : Nat, shown : Seq(Rows)]

TopkInv ==
  /\ WalkTypes
  /\ tool = "topk" =>
       /\ top \in Tops /\ Collected(top.entries, seen)
       /\ rc = "walking" => Below(top.entries, pos.index)
       /\ rc = "ok" => top.shown = Printed(top.entries)

(***************************************************************************)
(* The printed rows are rows.                                              *)
(***************************************************************************)
LEMMA PrintedTypes ==
  ASSUME NEW q \in Seq(Rows), Rises(q)
  PROVE  /\ SortedTo(TopkSort(q), q, Len(q)) /\ Shown(Len(q)) \in 0 .. Len(q)
         /\ Printed(q) \in Seq(Rows) /\ Len(Printed(q)) = Shown(Len(q))
         /\ \A i \in 1 .. Shown(Len(q)) : Printed(q)[i] = TopkSort(q)[i]
<1>1. PICK n \in Nat : n = Len(q)
  OBVIOUS
<1>2. PICK t : t = TopkSort(q)
  OBVIOUS
<1>3. SortedTo(t, q, n)
  BY <1>1, <1>2, TopkSorted
<1>4. t \in Seq(Rows) /\ Len(t) = n
  BY <1>3 DEF SortedTo
<1>5. PICK k \in 0 .. n : k = Shown(n)
  BY ReportConstants DEF Shown
<1>6. PICK w : w = SubSeq(t, 1, k)
  OBVIOUS
<1>7. w \in Seq(Rows) /\ Len(w) = k /\ \A i \in 1 .. k : w[i] = t[i]
  BY <1>4, <1>5, <1>6
<1>8. w = Printed(q)
  BY <1>1, <1>2, <1>5, <1>6 DEF Printed
<1> QED BY <1>1, <1>2, <1>3, <1>5, <1>7, <1>8

(***************************************************************************)
(* Only dtl_topk_on_record, and dtl_topk_file when the walk has returned,  *)
(* change the rows.                                                        *)
(***************************************************************************)
LEMMA TopkStep ==
  ASSUME TopkInv, [Next]_vars, tool = "topk"
  PROVE  \/ /\ top' = top /\ seen' = seen /\ (rc' = "ok" => rc = "ok")
            /\ rc' = "walking" => rc = "walking" /\ pos'.index = pos.index
         \/ \E e \in Ev :
              /\ rc = "walking" /\ rc' = "walking" /\ e.index = pos.index
              /\ seen' = Append(seen, e) /\ pos'.index = pos.index + 1
              /\ \/ e.tag # TopField /\ top' = top
                 \/ /\ e.tag = TopField
                    /\ top' = [top EXCEPT
                                 !.entries = Append(@, Row(e)),
                                 !.cap = IF Len(top.entries) = @ THEN NewCap(@) ELSE @]
         \/ /\ seen' = seen /\ rc' = "ok"
            /\ top' = [top EXCEPT !.shown = Printed(top.entries)]
<1>0. /\ pos.section \in Nat /\ pos.inSection \in Nat /\ pos.index \in Nat
      /\ pos = [section |-> pos.section, inSection |-> pos.inSection, index |-> pos.index]
  BY DEF TopkInv, WalkTypes, Pos
<1>1. CASE OnRecord
  <2>1. PICK r \in Inputs[tool] :
          /\ TopkOnRecord(Event(r))
          /\ seen' = IF rc' = "walking" THEN Append(seen, Event(r)) ELSE seen
    BY <1>1 DEF OnRecord, StatsOnRecord, ValidateOnRecord, TimelineOnRecord, IndexOnRecord
  <2>2. rc = "walking" /\ pos' = [pos EXCEPT !.inSection = @ + 1, !.index = @ + 1]
    BY <1>1 DEF OnRecord
  <2>3. PICK e \in Ev : e = Event(r)
    BY EventTypes DEF TopkInv
  <2>4. pos'.index = pos.index + 1
    BY <1>0, <2>2
  <2>5. e.index = pos.index
    BY <2>3 DEF Event
  <2>6. CASE e.tag # TopField
    <3>1. rc' = rc /\ top' = top
      BY <2>1, <2>3, <2>6 DEF TopkOnRecord
    <3> QED BY <2>1, <2>2, <2>3, <2>4, <2>5, <2>6, <3>1
  <2>7. CASE e.tag = TopField /\ rc' = "OOM"
    <3>1. top' = top
      BY <2>1, <2>2, <2>3, <2>7 DEF TopkOnRecord
    <3>2. seen' = seen
      BY <2>1, <2>7
    <3> QED BY <2>7, <3>1, <3>2
  <2>8. CASE e.tag = TopField /\ rc' # "OOM"
    <3>1. /\ rc' = rc
          /\ top' = [top EXCEPT !.entries = Append(@, [value |-> e.v, index |-> e.index]),
                                !.cap = IF Len(top.entries) = @ THEN NewCap(@) ELSE @]
      BY <2>1, <2>3, <2>8 DEF TopkOnRecord
    <3>2. seen' = Append(seen, e)
      BY <2>1, <2>2, <2>3, <3>1
    <3> QED BY <2>2, <2>4, <2>5, <2>8, <3>1, <3>2 DEF Row
  <2> QED BY <2>6, <2>7, <2>8
<1>2. CASE WalkReturns
  <2>1. seen' = seen /\ rc' \in {"ok", "rejected"}
    BY <1>2 DEF WalkReturns
  <2>2. top' = IF rc' = "ok" THEN [top EXCEPT !.shown = Printed(top.entries)] ELSE top
    BY <1>2 DEF WalkReturns, Printed
  <2> QED BY <2>1, <2>2
<1>3. CASE OnError \/ NextSection \/ AnotherFile \/ Done \/ UNCHANGED vars
  <2>1. top' = top /\ seen' = seen
    BY <1>3 DEF OnError, NextSection, AnotherFile, Done, vars
  <2>2. /\ rc' = "ok" => rc = "ok"
        /\ rc' = "walking" => rc = "walking" /\ pos'.index = pos.index
    BY <1>0, <1>3 DEF OnError, NextSection, AnotherFile, Done, vars
  <2> QED BY <2>1, <2>2
<1> QED BY <1>1, <1>2, <1>3 DEF Next

(***************************************************************************)
(* The rows printed from what was collected are the first of their order.  *)
(***************************************************************************)
LEMMA PrintedRanked ==
  ASSUME NEW q, NEW s \in Seq(Ev), Collected(q, s), NEW w, w = Printed(q)
  PROVE  /\ Len(w) = Shown(Cardinality(Carrying(s)))
         /\ \A i \in DOMAIN w : w[i] \in Carrying(s)
         /\ \A i, j \in DOMAIN w : i < j => Outranks(w[i], w[j])
         /\ \A e \in Carrying(s) : \A i \in DOMAIN w : Outranks(e, w[i]) => e \in Range(w)
<1>0. /\ q \in Seq(Rows) /\ Rises(q) /\ Range(q) = Carrying(s)
      /\ Cardinality(Carrying(s)) = Len(q)
  BY DEF Collected
<1>1. PICK n \in Nat : n = Len(q)
  BY <1>0
<1>2. PICK t : t = TopkSort(q)
  OBVIOUS
<1>3. PICK k \in 0 .. n : k = Shown(n)
  BY <1>0, <1>1, PrintedTypes
<1>4. /\ SortedTo(t, q, n) /\ w \in Seq(Rows) /\ Len(w) = k
      /\ \A i \in 1 .. k : w[i] = t[i]
  BY <1>0, <1>1, <1>2, <1>3, PrintedTypes
<1>5. /\ t \in Seq(Rows) /\ Len(t) = n /\ Descends(t) /\ Range(t) = {q[i] : i \in 1 .. n}
  BY <1>4 DEF SortedTo
<1>6. DOMAIN t = 1 .. n /\ DOMAIN w = 1 .. k /\ DOMAIN q = 1 .. n
  BY <1>0, <1>1, <1>4, <1>5
<1>7. Range(t) = Carrying(s)
  BY <1>0, <1>5, <1>6 DEF Range
<1>8. \A i \in 1 .. k : i \in 1 .. n
  OBVIOUS
<1>9. Len(w) = Shown(Cardinality(Carrying(s)))
  BY <1>0, <1>1, <1>3, <1>4
<1>10. \A i \in DOMAIN w : w[i] \in Carrying(s)
  BY <1>4, <1>6, <1>7, <1>8 DEF Range
<1>11. \A i, j \in DOMAIN w : i < j => Outranks(w[i], w[j])
  BY <1>4, <1>5, <1>6, <1>8 DEF Descends
<1>12. ASSUME NEW e \in Carrying(s), NEW i \in 1 .. k, Outranks(e, w[i]) PROVE e \in Range(w)
  <2>1. PICK j \in 1 .. n : e = t[j]
    BY <1>6, <1>7 DEF Range
  <2>2. \A r \in Rows : r.value \in Nat /\ r.index \in Nat
    BY DEF Rows
  <2>3. e \in Rows /\ w[i] \in Rows /\ w[i] = t[i] /\ i \in 1 .. n
    BY <1>4, <1>5, <1>8, <2>1
  <2>4. ~(i = j)
    BY <1>12, <2>1, <2>2, <2>3 DEF Outranks
  <2>5. ~(i < j)
    <3>1. i < j => Outranks(w[i], e)
      BY <1>5, <1>6, <2>1, <2>3 DEF Descends
    <3>2. ~ Outranks(w[i], e)
      BY <1>12, <2>2, <2>3 DEF Outranks
    <3> QED BY <3>1, <3>2
  <2>6. j \in 1 .. k
    BY <2>4, <2>5
  <2> QED BY <1>4, <1>6, <2>1, <2>6 DEF Range
<1> QED BY <1>6, <1>9, <1>10, <1>11, <1>12

(***************************************************************************)
(* The report ranks the records that carry the field, and leaves out none  *)
(* that ranks above one it prints.                                         *)
(***************************************************************************)
THEOREM TopkRanks == Spec => []Ranked
<1>1. Init => TopkInv
  <2> SUFFICES ASSUME Init PROVE TopkInv
    OBVIOUS
  <2>1. WalkTypes /\ rc = "walking" /\ seen = <<>>
    BY DEF Init, WalkTypes, Pos
  <2>2. PICK q \in Seq(Rows) : q = <<>>
    <3>1. <<>> \in Seq(Rows)
      OBVIOUS
    <3> QED BY <3>1
  <2>3. top = [entries |-> q, cap |-> 0, shown |-> q]
    BY <2>2 DEF Init
  <2>4. top \in Tops /\ top.entries = q
    BY <2>3 DEF Tops
  <2>5. DOMAIN q = {} /\ Len(q) = 0
    BY <2>2
  <2>6. Range(q) = {}
    BY <2>5 DEF Range
  <2>7. DOMAIN seen = {}
    BY <2>1
  <2>8. Carrying(seen) = {}
    BY <2>7 DEF Carrying
  <2>9. IsFiniteSet({}) /\ Cardinality({}) = 0
    BY FS_EmptySet
  <2>10. Collected(q, seen)
    BY <2>5, <2>6, <2>8, <2>9 DEF Collected, Rises
  <2>11. Below(q, pos.index)
    BY <2>5 DEF Below
  <2> QED BY <2>1, <2>4, <2>10, <2>11 DEF TopkInv
<1>2. TopkInv /\ [Next]_vars => TopkInv'
  <2> SUFFICES ASSUME TopkInv, [Next]_vars PROVE TopkInv'
    OBVIOUS
  <2>1. WalkTypes' /\ tool' = tool
    BY WalkTypesStep DEF TopkInv
  <2>2. CASE tool # "topk"
    BY <2>1, <2>2 DEF TopkInv
  <2>3. CASE tool = "topk"
    <3>0. /\ top \in Tops /\ Collected(top.entries, seen) /\ seen \in Seq(Ev)
          /\ rc = "walking" => Below(top.entries, pos.index)
          /\ rc = "ok" => top.shown = Printed(top.entries)
      BY <2>3 DEF TopkInv, WalkTypes
    <3>a. /\ top.entries \in Seq(Rows) /\ top.cap \in Nat /\ top.shown \in Seq(Rows)
          /\ top = [entries |-> top.entries, cap |-> top.cap, shown |-> top.shown]
      BY <3>0 DEF Tops
    <3>1. CASE /\ top' = top /\ seen' = seen /\ (rc' = "ok" => rc = "ok")
               /\ rc' = "walking" => rc = "walking" /\ pos'.index = pos.index
      BY <2>1, <3>0, <3>1 DEF TopkInv
    <3>2. ASSUME NEW e \in Ev, rc = "walking", rc' = "walking", e.index = pos.index,
                 seen' = Append(seen, e), pos'.index = pos.index + 1,
                 e.tag # TopField, top' = top
          PROVE  TopkInv'
      <4>1. Carrying(seen') = Carrying(seen)
        BY <3>0, <3>2, CarryingNext
      <4>2. Collected(top'.entries, seen')
        BY <3>0, <3>2, <4>1 DEF Collected
      <4>3. Below(top.entries, e.index) /\ e.index \in Nat
        BY <3>0, <3>2, EvFields
      <4>4. \A i \in DOMAIN top.entries : top.entries[i].index \in Nat
        <5>1. \A i \in DOMAIN top.entries : top.entries[i] \in Rows
          BY <3>a
        <5>2. \A r \in Rows : r.index \in Nat
          BY DEF Rows
        <5> QED BY <5>1, <5>2
      <4>5. Below(top.entries, e.index + 1)
        BY <4>3, <4>4 DEF Below
      <4>6. Below(top'.entries, pos'.index)
        BY <3>2, <4>5
      <4> QED BY <2>1, <3>0, <3>2, <4>2, <4>6 DEF TopkInv
    <3>3. ASSUME NEW e \in Ev, rc = "walking", rc' = "walking", e.index = pos.index,
                 seen' = Append(seen, e), pos'.index = pos.index + 1, e.tag = TopField,
                 top' = [top EXCEPT !.entries = Append(@, Row(e)),
                                    !.cap = IF Len(top.entries) = @ THEN NewCap(@) ELSE @]
          PROVE  TopkInv'
      <4>1. PICK c \in Nat : c = IF Len(top.entries) = top.cap THEN NewCap(top.cap) ELSE top.cap
        BY <3>a, ReportConstants DEF NewCap
      <4>2. PICK q : q = Append(top.entries, Row(e))
        OBVIOUS
      <4>3. top' = [entries |-> q, cap |-> c, shown |-> top.shown]
        BY <3>3, <3>a, <4>1, <4>2
      <4>4. Below(top.entries, e.index)
        BY <3>0, <3>3
      <4>5. Collected(q, seen') /\ Below(q, e.index + 1)
        BY <3>0, <3>3, <4>2, <4>4, CollectedNext
      <4>6. q \in Seq(Rows)
        BY <4>5 DEF Collected
      <4>7. top' \in Tops /\ top'.entries = q
        BY <3>a, <4>3, <4>6 DEF Tops
      <4>8. Below(q, pos'.index)
        BY <3>3, <4>5
      <4> QED BY <2>1, <3>3, <4>5, <4>7, <4>8 DEF TopkInv
    <3>4. ASSUME seen' = seen, rc' = "ok", top' = [top EXCEPT !.shown = Printed(top.entries)]
          PROVE  TopkInv'
      <4>1. PICK w \in Seq(Rows) : w = Printed(top.entries)
        BY <3>0, PrintedTypes DEF Collected
      <4>2. top' = [entries |-> top.entries, cap |-> top.cap, shown |-> w]
        BY <3>4, <3>a, <4>1
      <4>3. top' \in Tops /\ top'.entries = top.entries /\ top'.shown = w
        BY <3>a, <4>2 DEF Tops
      <4>4. Collected(top'.entries, seen')
        BY <3>0, <3>4, <4>3
      <4> QED BY <2>1, <3>4, <4>1, <4>3, <4>4 DEF TopkInv
    <3> QED BY <2>3, <3>1, <3>2, <3>3, <3>4, TopkStep
  <2> QED BY <2>2, <2>3
<1>3. TopkInv => Ranked
  <2> SUFFICES ASSUME TopkInv, tool = "topk", rc = "ok" PROVE Ranked
    BY DEF Ranked
  <2>1. Collected(top.entries, seen) /\ top.shown = Printed(top.entries) /\ seen \in Seq(Ev)
    BY DEF TopkInv, WalkTypes
  <2>2. PICK w : w = top.shown
    OBVIOUS
  <2>3. /\ Len(w) = Shown(Cardinality(Carrying(seen)))
        /\ \A i \in DOMAIN w : w[i] \in Carrying(seen)
        /\ \A i, j \in DOMAIN w : i < j => Outranks(w[i], w[j])
        /\ \A e \in Carrying(seen) : \A i \in DOMAIN w : Outranks(e, w[i]) => e \in Range(w)
    BY <2>1, <2>2, PrintedRanked
  <2> QED BY <2>2, <2>3, Zenon DEF Ranked, Carrying, Row, Outranks
<1> QED BY <1>1, <1>2, <1>3, PTL DEF Spec

-----------------------------------------------------------------------------
(***************************************************************************)
(* Stats.                                                                  *)
(***************************************************************************)
Num == [count : Nat, min : Values, max : Values, sum : Values]

Stats == [total : Nat, per_tag : [Tags -> Nat], parse_errors : Nat, num : [Tags -> Num]]

(* f holds the sums of the first values of all.                            *)
Sums(f, all, n) == f[0] = 0 /\ \A k \in 1 .. n : f[k] = Plus(f[k - 1], all[k])

(***************************************************************************)
(* Addition stays among the doubles.                                       *)
(***************************************************************************)
LEMMA PlusValues ==
  /\ 0 \in Values /\ NaN \in Values
  /\ \A a, b \in Values : Plus(a, b) \in Values
BY ReportConstants DEF Values

(***************************************************************************)
(* Summed is the last of the sums: the recursive function exists.          *)
(***************************************************************************)
LEMMA SummedSums ==
  ASSUME NEW all \in Seq(Values)
  PROVE  \E f : /\ Sums(f, all, Len(all)) /\ Summed(all) = f[Len(all)]
                /\ \A k \in 0 .. Len(all) : f[k] \in Values
<1>0. PICK n \in Nat : n = Len(all)
  OBVIOUS
<1> DEFINE rec(f) == [k \in 0 .. n |-> IF k = 0 THEN 0 ELSE Plus(f[k - 1], all[k])]
           step == [k \in 1 .. n |-> [x \in Values |-> Plus(x, all[k])]]
<1>1. \A k \in 1 .. n : all[k] \in Values
  BY <1>0
<1>2. step \in [1 .. n -> [Values -> Values]]
  BY <1>1, PlusValues
<1>3. \A k \in 1 .. n, x \in Values : step[k][x] = Plus(x, all[k])
  OBVIOUS
<1> HIDE DEF step
<1>4. PICK f \in [0 .. n -> Values] : Runs(f, 0, step, n)
  BY <1>2, PlusValues, RunExists
<1>5. \A k \in 1 .. n : f[k] = Plus(f[k - 1], all[k])
  <2>1. \A k \in 1 .. n : k - 1 \in 0 .. n /\ f[k] = step[k][f[k - 1]]
    BY <1>4 DEF Runs
  <2> QED BY <1>3, <1>4, <2>1
<1>6. \A k \in 0 .. n : k = 0 \/ k \in 1 .. n
  OBVIOUS
<1>7. f = rec(f)
  <2>1. \A k \in 0 .. n : f[k] = IF k = 0 THEN 0 ELSE Plus(f[k - 1], all[k])
    BY <1>4, <1>5, <1>6 DEF Runs
  <2>2. f = [k \in 0 .. n |-> f[k]]
    BY <1>4
  <2> QED BY <2>1, <2>2, Zenon
<1> DEFINE g == CHOOSE h : h = rec(h)
<1>8. g = rec(g)
  BY <1>7
<1>9. Summed(all) = g[n]
  BY <1>0 DEF Summed
<1> HIDE DEF g
<1>10. \A k \in 0 .. n : g[k] = IF k = 0 THEN 0 ELSE Plus(g[k - 1], all[k])
  BY <1>8, Zenon
<1>11. Sums(g, all, n)
  <2>1. 0 \in 0 .. n /\ \A k \in 1 .. n : k \in 0 .. n /\ k # 0
    OBVIOUS
  <2> QED BY <1>10, <2>1 DEF Sums
<1>12. \A k \in 0 .. n : g[k] \in Values
  <2> DEFINE T == {k \in Nat : k <= n => g[k] \in Values}
  <2>1. 0 \in T
    BY <1>11, PlusValues DEF Sums
  <2>2. ASSUME NEW k \in Nat, k \in T PROVE k + 1 \in T
    <3> SUFFICES ASSUME k + 1 <= n PROVE g[k + 1] \in Values
      OBVIOUS
    <3>1. k + 1 \in 1 .. n /\ (k + 1) - 1 = k /\ g[k] \in Values
      BY <2>2
    <3>2. g[k + 1] = Plus(g[k], all[k + 1])
      BY <1>11, <3>1 DEF Sums
    <3> QED BY <1>1, <3>1, <3>2, PlusValues
  <2>3. \A k \in Nat : k \in T
    <3> HIDE DEF T
    <3> QED BY <2>1, <2>2, Induction
  <2> QED BY <2>3
<1> QED BY <1>0, <1>9, <1>11, <1>12

(***************************************************************************)
(* The sum with one value more.                                            *)
(***************************************************************************)
LEMMA SummedNext ==
  ASSUME NEW all \in Seq(Values), NEW v \in Values
  PROVE  /\ Summed(all) \in Values /\ Summed(Append(all, v)) = Plus(Summed(all), v)
         /\ all = <<>> => Summed(all) = 0
<1>0. PICK n \in Nat : n = Len(all)
  OBVIOUS
<1>1. PICK w \in Seq(Values) : w = Append(all, v)
  BY AppendProperties
<1>2. Len(w) = n + 1 /\ w[n + 1] = v /\ \A k \in 1 .. n : w[k] = all[k]
  BY <1>0, <1>1, AppendProperties
<1>3. PICK f : /\ Sums(f, all, n) /\ Summed(all) = f[n]
               /\ \A k \in 0 .. n : f[k] \in Values
  BY <1>0, SummedSums
<1>4. PICK g : Sums(g, w, n + 1) /\ Summed(w) = g[n + 1]
  BY <1>2, SummedSums
<1> DEFINE T == {k \in Nat : k <= n => f[k] = g[k]}
<1>5. 0 \in T
  BY <1>3, <1>4 DEF Sums
<1>6. ASSUME NEW k \in Nat, k \in T PROVE k + 1 \in T
  <2> SUFFICES ASSUME k + 1 <= n PROVE f[k + 1] = g[k + 1]
    OBVIOUS
  <2>1. k + 1 \in 1 .. n /\ k + 1 \in 1 .. n + 1 /\ (k + 1) - 1 = k /\ k <= n
    OBVIOUS
  <2>2. f[k + 1] = Plus(f[k], all[k + 1]) /\ g[k + 1] = Plus(g[k], w[k + 1])
    BY <1>3, <1>4, <2>1 DEF Sums
  <2> QED BY <1>2, <1>6, <2>1, <2>2
<1>7. f[n] = g[n]
  <2>1. \A k \in Nat : k \in T
    <3> HIDE DEF T
    <3> QED BY <1>5, <1>6, Induction
  <2> QED BY <2>1
<1>8. g[n + 1] = Plus(g[n], v)
  <2>1. n + 1 \in 1 .. n + 1 /\ (n + 1) - 1 = n
    OBVIOUS
  <2> QED BY <1>2, <1>4, <2>1 DEF Sums
<1>9. all = <<>> => n = 0
  BY <1>0
<1> QED BY <1>1, <1>3, <1>4, <1>7, <1>8, <1>9 DEF Sums

(***************************************************************************)
(* dtl_num_add keeps the aggregate that of the values, the first included. *)
(***************************************************************************)
LEMMA NumAddNext ==
  ASSUME NEW ns \in Num, NEW all \in Seq(Values), NEW v \in Values, AggregateOf(ns, all)
  PROVE  NumAdd(ns, v) \in Num /\ AggregateOf(NumAdd(ns, v), Append(all, v))
<1>0. PICK n \in Nat : n = Len(all)
  OBVIOUS
<1>1. PICK w \in Seq(Values) : w = Append(all, v)
  BY AppendProperties
<1>2. /\ Len(w) = n + 1 /\ w[n + 1] = v /\ (\A k \in 1 .. n : w[k] = all[k])
      /\ DOMAIN w = 1 .. n + 1 /\ DOMAIN all = 1 .. n
  BY <1>0, <1>1, AppendProperties
<1>3. Range(w) = Range(all) \cup {v}
  BY <1>2 DEF Range
<1>4. w # <<>> /\ (all = <<>> <=> n = 0) /\ w[1] = (IF n = 0 THEN v ELSE all[1])
  BY <1>0, <1>1, <1>2
<1>5. PICK R : R = Range(all) \ {NaN}
  OBVIOUS
<1>6. /\ R \subseteq Doubles /\ (n = 0 => R = {})
      /\ n # 0 /\ all[1] # NaN => R # {}
  BY <1>0, <1>2, <1>5 DEF Range, Values
<1>7. Doubles \subseteq Int /\ NaN \notin Int
  BY ReportConstants
<1>8. /\ ns.count = n /\ ns.sum = Summed(all)
      /\ IF n # 0 /\ all[1] = NaN THEN ns.min = NaN /\ ns.max = NaN
         ELSE /\ n # 0 => ns.min \in R /\ ns.max \in R
              /\ \A x \in R : ns.min <= x /\ x <= ns.max
  BY <1>0, <1>4, <1>5 DEF AggregateOf
<1>9. PICK m : m = NumAdd(ns, v)
  OBVIOUS
<1>10. /\ m.count = n + 1 /\ m.sum = Plus(ns.sum, v)
       /\ m.min = IF n = 0 \/ Less(v, ns.min) THEN v ELSE ns.min
       /\ m.max = IF n = 0 \/ Less(ns.max, v) THEN v ELSE ns.max
  BY <1>8, <1>9 DEF NumAdd
<1>11. m \in Num
  <2>1. ns.min \in Values /\ ns.max \in Values /\ ns.sum \in Values
    BY DEF Num
  <2>2. PICK a \in Values, b \in Values, c \in Values, k \in Nat :
          a = m.min /\ b = m.max /\ c = m.sum /\ k = m.count
    BY <1>10, <2>1, PlusValues
  <2>3. m = [count |-> k, min |-> a, max |-> b, sum |-> c]
    BY <1>9, <2>2 DEF NumAdd
  <2> QED BY <2>3 DEF Num
<1>12. m.sum = Summed(w)
  BY <1>1, <1>8, <1>10, SummedNext
<1>13. PICK Q : Q = Range(w) \ {NaN}
  OBVIOUS
<1>14. Q = IF v = NaN THEN R ELSE R \cup {v}
  BY <1>3, <1>5, <1>13
<1>15. v = NaN \/ v \in Doubles
  BY DEF Values
<1>16. IF w[1] = NaN THEN m.min = NaN /\ m.max = NaN
       ELSE /\ m.min \in Q /\ m.max \in Q
            /\ \A x \in Q : m.min <= x /\ x <= m.max
  <2>1. CASE n = 0
    <3>1. m.min = v /\ m.max = v /\ w[1] = v /\ R = {}
      BY <1>4, <1>6, <1>10, <2>1
    <3>2. CASE v = NaN
      BY <3>1, <3>2
    <3>3. CASE v # NaN
      <4>1. Q = {v}
        BY <1>14, <3>1, <3>3
      <4>2. PICK c \in Int : c = v
        BY <1>7, <1>15, <3>3
      <4>3. c <= c
        OBVIOUS
      <4> QED BY <3>1, <3>3, <4>1, <4>2, <4>3
    <3> QED BY <3>2, <3>3
  <2>2. CASE n # 0 /\ all[1] = NaN
    BY <1>4, <1>8, <1>10, <2>2 DEF Less
  <2>3. CASE n # 0 /\ all[1] # NaN
    <3>1. /\ ns.min \in R /\ ns.max \in R /\ w[1] # NaN
          /\ \A x \in R : ns.min <= x /\ x <= ns.max
      BY <1>4, <1>8, <2>3
    <3>2. CASE v = NaN
      <4>1. m.min = ns.min /\ m.max = ns.max /\ Q = R
        BY <1>10, <1>14, <2>3, <3>2 DEF Less
      <4> QED BY <3>1, <4>1
    <3>3. CASE v # NaN
      <4>1. PICK a \in Int, b \in Int, c \in Int : a = ns.min /\ b = ns.max /\ c = v
        BY <1>6, <1>7, <1>15, <3>1, <3>3
      <4>2. /\ m.min = (IF c < a THEN c ELSE a) /\ m.max = (IF b < c THEN c ELSE b)
        BY <1>7, <1>10, <2>3, <4>1 DEF Less
      <4>3. Q = R \cup {c} /\ a \in R /\ b \in R
        BY <1>14, <3>1, <3>3, <4>1
      <4>4. \A x \in R : x \in Int /\ a <= x /\ x <= b
        BY <1>6, <1>7, <3>1, <4>1
      <4>5. a <= b
        BY <4>3, <4>4
      <4>6. m.min \in Q /\ m.max \in Q
        BY <4>2, <4>3
      <4>7. \A x \in Q : m.min <= x /\ x <= m.max
        BY <4>2, <4>3, <4>4, <4>5
      <4> QED BY <3>1, <4>6, <4>7
    <3> QED BY <3>2, <3>3
  <2> QED BY <2>1, <2>2, <2>3
<1>17. AggregateOf(m, w)
  BY <1>2, <1>4, <1>10, <1>12, <1>13, <1>16 DEF AggregateOf
<1> QED BY <1>1, <1>9, <1>11, <1>17

(* acc holds the aggregates as the values of vs are added to ns.           *)
Accumulates(acc, ns, vs, n) ==
  acc[0] = ns /\ \A k \in 1 .. n : acc[k] = NumAdd(acc[k - 1], vs[k])

(***************************************************************************)
(* A value added to an aggregate gives an aggregate.                       *)
(***************************************************************************)
LEMMA NumAddType ==
  ASSUME NEW ns \in Num, NEW v \in Values
  PROVE  NumAdd(ns, v) \in Num
<1>1. ns.min \in Values /\ ns.max \in Values /\ ns.sum \in Values /\ ns.count \in Nat
  BY DEF Num
<1>2. PICK m : m = NumAdd(ns, v)
  OBVIOUS
<1>3. PICK a \in Values, b \in Values, c \in Values, k \in Nat :
        a = m.min /\ b = m.max /\ c = m.sum /\ k = m.count
  BY <1>1, <1>2, PlusValues DEF NumAdd
<1>4. m = [count |-> k, min |-> a, max |-> b, sum |-> c]
  BY <1>2, <1>3 DEF NumAdd
<1> QED BY <1>2, <1>4 DEF Num

(***************************************************************************)
(* NumAddAll is the last of them: the recursive function exists.           *)
(***************************************************************************)
LEMMA NumAddAllRuns ==
  ASSUME NEW ns \in Num, NEW vs \in Seq(Values)
  PROVE  \E acc : Accumulates(acc, ns, vs, Len(vs)) /\ NumAddAll(ns, vs) = acc[Len(vs)]
<1>0. PICK n \in Nat : n = Len(vs)
  OBVIOUS
<1> DEFINE rec(f) == [k \in 0 .. n |-> IF k = 0 THEN ns ELSE NumAdd(f[k - 1], vs[k])]
           step == [k \in 1 .. n |-> [x \in Num |-> NumAdd(x, vs[k])]]
<1>1. \A k \in 1 .. n : vs[k] \in Values
  BY <1>0
<1>2. step \in [1 .. n -> [Num -> Num]]
  BY <1>1, NumAddType
<1>3. \A k \in 1 .. n, x \in Num : step[k][x] = NumAdd(x, vs[k])
  OBVIOUS
<1> HIDE DEF step
<1>4. PICK f \in [0 .. n -> Num] : Runs(f, ns, step, n)
  BY <1>2, RunExists
<1>5. \A k \in 1 .. n : f[k] = NumAdd(f[k - 1], vs[k])
  <2>1. \A k \in 1 .. n : k - 1 \in 0 .. n /\ f[k] = step[k][f[k - 1]]
    BY <1>4 DEF Runs
  <2> QED BY <1>3, <1>4, <2>1
<1>6. \A k \in 0 .. n : k = 0 \/ k \in 1 .. n
  OBVIOUS
<1>7. f = rec(f)
  <2>1. \A k \in 0 .. n : f[k] = IF k = 0 THEN ns ELSE NumAdd(f[k - 1], vs[k])
    BY <1>4, <1>5, <1>6 DEF Runs
  <2>2. f = [k \in 0 .. n |-> f[k]]
    BY <1>4
  <2> QED BY <2>1, <2>2, Zenon
<1> DEFINE g == CHOOSE h : h = rec(h)
<1>8. g = rec(g)
  BY <1>7
<1>9. NumAddAll(ns, vs) = g[n]
  BY <1>0 DEF NumAddAll
<1> HIDE DEF g
<1>10. \A k \in 0 .. n : g[k] = IF k = 0 THEN ns ELSE NumAdd(g[k - 1], vs[k])
  BY <1>8, Zenon
<1>11. Accumulates(g, ns, vs, n)
  <2>1. 0 \in 0 .. n /\ \A k \in 1 .. n : k \in 0 .. n /\ k # 0
    OBVIOUS
  <2> QED BY <1>10, <2>1 DEF Accumulates
<1> QED BY <1>0, <1>9, <1>11

(***************************************************************************)
(* The first k values of vs behind those of all.                           *)
(***************************************************************************)
Extension(all, vs, k) == all \o SubSeq(vs, 1, k)

(***************************************************************************)
(* It grows by one value, from all to all of both.                         *)
(***************************************************************************)
LEMMA ExtensionNext ==
  ASSUME NEW all \in Seq(Values), NEW vs \in Seq(Values)
  PROVE  /\ Extension(all, vs, 0) = all /\ Extension(all, vs, Len(vs)) = all \o vs
         /\ \A k \in 0 .. Len(vs) : Extension(all, vs, k) \in Seq(Values)
         /\ \A k \in 0 .. Len(vs) - 1 :
              Extension(all, vs, k + 1) = Append(Extension(all, vs, k), vs[k + 1])
<1>0. PICK n \in Nat : n = Len(vs)
  OBVIOUS
<1>1. PICK l \in Nat : l = Len(all)
  OBVIOUS
<1>2. \A k \in 0 .. n : /\ SubSeq(vs, 1, k) \in Seq(Values) /\ Len(SubSeq(vs, 1, k)) = k
                        /\ \A i \in 1 .. k : SubSeq(vs, 1, k)[i] = vs[i]
  BY <1>0
<1>3. ASSUME NEW k \in 0 .. n
      PROVE  /\ Extension(all, vs, k) \in Seq(Values) /\ Len(Extension(all, vs, k)) = l + k
             /\ \A i \in 1 .. l : Extension(all, vs, k)[i] = all[i]
             /\ \A i \in 1 .. k : Extension(all, vs, k)[l + i] = vs[i]
  <2>1. PICK u \in Seq(Values) : u = SubSeq(vs, 1, k)
    BY <1>2
  <2>2. Len(u) = k /\ \A i \in 1 .. k : u[i] = vs[i]
    BY <1>2, <2>1
  <2>3. PICK w : w = all \o u
    OBVIOUS
  <2>4. /\ w \in Seq(Values) /\ Len(w) = l + k
        /\ \A i \in 1 .. l + k : w[i] = IF i <= l THEN all[i] ELSE u[i - l]
    BY <1>1, <2>2, <2>3, ConcatProperties
  <2>5. \A i \in 1 .. l : w[i] = all[i]
    BY <2>4
  <2>6. \A i \in 1 .. k : w[l + i] = u[i]
    <3> SUFFICES ASSUME NEW i \in 1 .. k PROVE w[l + i] = u[i]
      OBVIOUS
    <3>1. PICK j \in 1 .. l + k : j = l + i /\ ~(j <= l) /\ j - l = i
      OBVIOUS
    <3> QED BY <2>4, <3>1
  <2>7. Extension(all, vs, k) = w
    BY <2>1, <2>3 DEF Extension
  <2> QED BY <2>2, <2>4, <2>5, <2>6, <2>7
<1>4. Extension(all, vs, 0) = all
  <2>1. SubSeq(vs, 1, 0) = <<>>
    BY <1>2
  <2> QED BY <2>1, ConcatProperties DEF Extension
<1>5. Extension(all, vs, n) = all \o vs
  <2>1. SubSeq(vs, 1, n) = vs
    BY <1>0
  <2> QED BY <2>1 DEF Extension
<1>6. ASSUME NEW k \in 0 .. n - 1
      PROVE  Extension(all, vs, k + 1) = Append(Extension(all, vs, k), vs[k + 1])
  <2>0. k \in 0 .. n /\ k + 1 \in 0 .. n /\ k + 1 \in 1 .. n /\ vs[k + 1] \in Values
    BY <1>0
  <2>1. PICK x \in Seq(Values) : x = Extension(all, vs, k)
    BY <1>3, <2>0
  <2>2. PICK y \in Seq(Values) : y = Extension(all, vs, k + 1)
    BY <1>3, <2>0
  <2>3. PICK z \in Seq(Values) : z = Append(x, vs[k + 1])
    BY <2>0, AppendProperties
  <2>4. /\ Len(x) = l + k /\ (\A i \in 1 .. l : x[i] = all[i])
        /\ \A i \in 1 .. k : x[l + i] = vs[i]
    BY <1>3, <2>0, <2>1
  <2>5. /\ Len(y) = l + (k + 1) /\ (\A i \in 1 .. l : y[i] = all[i])
        /\ \A i \in 1 .. k + 1 : y[l + i] = vs[i]
    BY <1>3, <2>0, <2>2
  <2>6. /\ Len(z) = l + (k + 1) /\ (\A i \in 1 .. l + k : z[i] = x[i])
        /\ z[l + (k + 1)] = vs[k + 1]
    BY <2>0, <2>3, <2>4, AppendProperties
  <2>7. ASSUME NEW i \in 1 .. l + (k + 1) PROVE y[i] = z[i]
    <3>1. CASE i <= l
      BY <2>4, <2>5, <2>6, <3>1
    <3>2. CASE ~(i <= l) /\ i <= l + k
      <4>1. PICK j \in 1 .. k : l + j = i
        <5>1. i - l \in 1 .. k /\ l + (i - l) = i
          BY <2>0, <3>2
        <5> QED BY <5>1
      <4>2. j \in 1 .. k + 1 /\ i \in 1 .. l + k
        BY <2>0, <3>2
      <4>3. y[i] = vs[j]
        BY <2>5, <4>1, <4>2
      <4>4. z[i] = x[i] /\ x[i] = vs[j]
        BY <2>4, <2>6, <4>1, <4>2
      <4> QED BY <4>3, <4>4
    <3>3. CASE i = l + (k + 1)
      <4>1. PICK j \in 1 .. k + 1 : j = k + 1
        BY <2>0
      <4>2. y[l + j] = vs[j]
        BY <2>5
      <4>3. z[l + j] = vs[j]
        BY <2>6, <4>1
      <4> QED BY <3>3, <4>1, <4>2, <4>3
    <3> QED BY <3>1, <3>2, <3>3
  <2>8. y = z
    BY <2>5, <2>6, <2>7, SeqEqual
  <2> QED BY <2>1, <2>2, <2>3, <2>8
<1> QED BY <1>0, <1>3, <1>4, <1>5, <1>6

(***************************************************************************)
(* The loop over the samples of a record keeps the aggregate exact.        *)
(***************************************************************************)
LEMMA NumAddAllNext ==
  ASSUME NEW ns \in Num, NEW all \in Seq(Values), NEW vs \in Seq(Values), AggregateOf(ns, all)
  PROVE  NumAddAll(ns, vs) \in Num /\ AggregateOf(NumAddAll(ns, vs), all \o vs)
<1>0. PICK n \in Nat : n = Len(vs)
  OBVIOUS
<1>1. PICK acc : Accumulates(acc, ns, vs, n) /\ NumAddAll(ns, vs) = acc[n]
  BY <1>0, NumAddAllRuns
<1> DEFINE T == {k \in Nat : k <= n => /\ acc[k] \in Num
                                       /\ AggregateOf(acc[k], Extension(all, vs, k))}
<1>2. 0 \in T
  BY <1>1, ExtensionNext DEF Accumulates
<1>3. ASSUME NEW k \in Nat, k \in T PROVE k + 1 \in T
  <2> SUFFICES ASSUME k + 1 <= n
               PROVE  acc[k + 1] \in Num /\ AggregateOf(acc[k + 1], Extension(all, vs, k + 1))
    OBVIOUS
  <2>1. /\ k \in 0 .. n /\ k \in 0 .. n - 1 /\ k + 1 \in 1 .. n /\ (k + 1) - 1 = k
        /\ vs[k + 1] \in Values
    BY <1>0
  <2>2. acc[k] \in Num /\ AggregateOf(acc[k], Extension(all, vs, k))
    BY <1>3, <2>1
  <2>3. acc[k + 1] = NumAdd(acc[k], vs[k + 1])
    BY <1>1, <2>1 DEF Accumulates
  <2>4. PICK x \in Seq(Values) : /\ x = Extension(all, vs, k)
                                 /\ Extension(all, vs, k + 1) = Append(x, vs[k + 1])
    BY <1>0, <2>1, ExtensionNext
  <2> QED BY <2>1, <2>2, <2>3, <2>4, NumAddNext
<1>4. \A k \in Nat : k \in T
  <2> HIDE DEF T
  <2> QED BY <1>2, <1>3, Induction
<1>5. acc[n] \in Num /\ AggregateOf(acc[n], Extension(all, vs, n))
  BY <1>4
<1> QED BY <1>0, <1>1, <1>5, ExtensionNext

(***************************************************************************)
(* The values of a tag after one event more.                               *)
(***************************************************************************)
LEMMA SamplesNext ==
  ASSUME NEW s \in Seq(Ev), NEW e \in Ev, NEW t
  PROVE  /\ Samples(s, t) \in Seq(Values)
         /\ Samples(Append(s, e), t) = IF e.tag = t THEN Samples(s, t) \o e.samples
                                       ELSE Samples(s, t)
<1> DEFINE lists(w) == [i \in DOMAIN w |-> w[i].samples]
<1>1. PICK w \in Seq(Ev) : w = OfTag(s, t)
  BY OfTagNext
<1>2. OfTag(Append(s, e), t) = Kept(w, e, t)
  BY <1>1, OfTagNext
<1>3. PICK n \in Nat : n = Len(w) /\ DOMAIN w = 1 .. n
  OBVIOUS
<1>4. e.samples \in Seq(Values) /\ \A i \in 1 .. n : w[i].samples \in Seq(Values)
  BY <1>3, EvFields
<1>5. PICK p : p = lists(w)
  OBVIOUS
<1>6. p \in Seq(Seq(Values)) /\ Len(p) = n /\ \A i \in 1 .. n : p[i] = w[i].samples
  <2>1. p = [i \in 1 .. n |-> w[i].samples]
    BY <1>3, <1>5
  <2>2. \A i \in 1 .. n : p[i] \in Seq(Values)
    BY <1>4, <2>1
  <2>3. p = [i \in 1 .. n |-> p[i]]
    BY <2>1
  <2> QED BY <2>1, <2>2, <2>3
<1>7. FlattenSeq(Append(p, e.samples)) = FlattenSeq(p) \o e.samples /\ FlattenSeq(p) \in Seq(Values)
  BY <1>4, <1>6, FlattenAppend
<1>8. lists(Append(w, e)) = Append(p, e.samples)
  <2>1. PICK y \in Seq(Ev) : y = Append(w, e)
    BY AppendProperties
  <2>2. /\ Len(y) = n + 1 /\ y[n + 1] = e /\ (\A i \in 1 .. n : y[i] = w[i])
        /\ DOMAIN y = 1 .. n + 1
    BY <1>3, <2>1, AppendProperties
  <2>3. PICK V : V = Seq(Values)
    OBVIOUS
  <2>4. PICK z \in Seq(V) : z = Append(p, e.samples)
    BY <1>4, <1>6, <2>3, AppendProperties
  <2>5. /\ Len(z) = n + 1 /\ z[n + 1] = e.samples /\ (\A i \in 1 .. n : z[i] = p[i])
    BY <1>4, <1>6, <2>3, <2>4, AppendProperties
  <2>6. \A i \in 1 .. n + 1 : i \in 1 .. n \/ i = n + 1
    OBVIOUS
  <2>7. \A i \in 1 .. n + 1 : z[i] = y[i].samples
    BY <1>6, <2>2, <2>5, <2>6
  <2>8. z = [i \in 1 .. n + 1 |-> z[i]]
    BY <2>4, <2>5
  <2>9. lists(y) = [i \in 1 .. n + 1 |-> y[i].samples]
    BY <2>2
  <2>10. lists(y) = z
    BY <2>7, <2>8, <2>9, Zenon
  <2> QED BY <2>1, <2>4, <2>10
<1>9. Samples(s, t) = FlattenSeq(p) /\ Samples(Append(s, e), t) = FlattenSeq(lists(Kept(w, e, t)))
  BY <1>1, <1>2, <1>5 DEF Samples
<1> HIDE DEF lists
<1> QED BY <1>5, <1>7, <1>8, <1>9 DEF Kept

(* The statistics with one record more.                                    *)
Counted(q, e) == [q EXCEPT !.total = @ + 1,
                           !.per_tag[e.tag] = @ + 1,
                           !.num[e.tag] = NumAddAll(@, e.samples)]

(***************************************************************************)
(* StatsExact, of the statistics q and the events s.                       *)
(***************************************************************************)
StatsOf(q, s) ==
  /\ q.total = Len(s)
  /\ \A t \in Tags : q.per_tag[t] = Len(OfTag(s, t)) /\ AggregateOf(q.num[t], Samples(s, t))

StatsInv == WalkTypes /\ (tool = "stats" => st \in Stats /\ StatsOf(st, seen))

(***************************************************************************)
(* Only dtl_stats_on_record and dtl_stats_on_error change the statistics.  *)
(***************************************************************************)
LEMMA StatsStep ==
  ASSUME StatsInv, [Next]_vars, tool = "stats"
  PROVE  \/ \E e \in Ev : seen' = Append(seen, e) /\ st' = Counted(st, e)
         \/ seen' = seen /\ (st' = st \/ st' = [st EXCEPT !.parse_errors = @ + 1])
<1>1. CASE OnRecord
  <2>1. PICK r \in Inputs[tool] :
          /\ StatsOnRecord(Event(r))
          /\ seen' = IF rc' = "walking" THEN Append(seen, Event(r)) ELSE seen
    BY <1>1 DEF OnRecord, TimelineOnRecord, ValidateOnRecord, TopkOnRecord, IndexOnRecord
  <2>2. rc = "walking" /\ rc' = rc
    BY <1>1, <2>1 DEF OnRecord, StatsOnRecord
  <2>3. Event(r) \in Ev
    BY EventTypes DEF StatsInv
  <2> QED BY <2>1, <2>2, <2>3 DEF StatsOnRecord, Counted
<1>2. CASE OnError
  BY <1>2 DEF OnError
<1>3. CASE NextSection \/ AnotherFile \/ WalkReturns \/ Done \/ UNCHANGED vars
  BY <1>3 DEF NextSection, AnotherFile, WalkReturns, Done, vars
<1> QED BY <1>1, <1>2, <1>3 DEF Next

(***************************************************************************)
(* One record more.                                                        *)
(***************************************************************************)
LEMMA StatsOfNext ==
  ASSUME NEW q \in Stats, NEW s \in Seq(Ev), NEW e \in Ev, StatsOf(q, s)
  PROVE  Counted(q, e) \in Stats /\ StatsOf(Counted(q, e), Append(s, e))
<1>0. PICK w : w = Counted(q, e)
  OBVIOUS
<1>1. /\ q.total \in Nat /\ q.per_tag \in [Tags -> Nat] /\ q.parse_errors \in Nat
      /\ q.num \in [Tags -> Num]
      /\ q = [total |-> q.total, per_tag |-> q.per_tag, parse_errors |-> q.parse_errors,
              num |-> q.num]
  BY DEF Stats
<1>2. e.tag \in Tags /\ e.samples \in Seq(Values)
  BY EvFields
<1>3. w = [total |-> q.total + 1, per_tag |-> [q.per_tag EXCEPT ![e.tag] = @ + 1],
           parse_errors |-> q.parse_errors,
           num |-> [q.num EXCEPT ![e.tag] = NumAddAll(@, e.samples)]]
  BY <1>0, <1>1 DEF Counted
<1>4. q.num[e.tag] \in Num /\ NumAddAll(q.num[e.tag], e.samples) \in Num
  <2>1. q.num[e.tag] \in Num /\ AggregateOf(q.num[e.tag], Samples(s, e.tag))
    BY <1>1, <1>2 DEF StatsOf
  <2>2. Samples(s, e.tag) \in Seq(Values)
    BY SamplesNext
  <2> QED BY <1>2, <2>1, <2>2, NumAddAllNext
<1>5. w \in Stats
  <2>0. q.per_tag[e.tag] + 1 \in Nat
    BY <1>1, <1>2
  <2>1. PICK a \in [Tags -> Nat] : a = [q.per_tag EXCEPT ![e.tag] = @ + 1]
    BY <1>1, <1>2, <2>0
  <2>2. PICK b \in [Tags -> Num] : b = [q.num EXCEPT ![e.tag] = NumAddAll(@, e.samples)]
    BY <1>1, <1>2, <1>4
  <2>3. PICK c \in Nat, d \in Nat : c = q.total + 1 /\ d = q.parse_errors
    BY <1>1
  <2>4. w = [total |-> c, per_tag |-> a, parse_errors |-> d, num |-> b]
    BY <1>3, <2>1, <2>2, <2>3
  <2> QED BY <2>4 DEF Stats
<1>6. w.total = Len(Append(s, e))
  BY <1>1, <1>3 DEF StatsOf
<1>7. ASSUME NEW t \in Tags
      PROVE  /\ w.per_tag[t] = Len(OfTag(Append(s, e), t))
             /\ AggregateOf(w.num[t], Samples(Append(s, e), t))
  <2>1. /\ q.per_tag[t] = Len(OfTag(s, t)) /\ q.num[t] \in Num
        /\ AggregateOf(q.num[t], Samples(s, t))
    BY <1>1 DEF StatsOf
  <2>2. /\ w.per_tag[t] = IF t = e.tag THEN q.per_tag[t] + 1 ELSE q.per_tag[t]
        /\ w.num[t] = IF t = e.tag THEN NumAddAll(q.num[t], e.samples) ELSE q.num[t]
    BY <1>1, <1>2, <1>3
  <2>3. w.per_tag[t] = Len(OfTag(Append(s, e), t))
    <3>1. PICK x \in Seq(Ev) : x = OfTag(s, t) /\ OfTag(Append(s, e), t) = Kept(x, e, t)
      BY OfTagNext
    <3>2. Len(Append(x, e)) = Len(x) + 1
      OBVIOUS
    <3> QED BY <2>1, <2>2, <3>1, <3>2 DEF Kept
  <2>4. PICK all \in Seq(Values) :
          /\ all = Samples(s, t)
          /\ Samples(Append(s, e), t) = IF e.tag = t THEN all \o e.samples ELSE all
    BY SamplesNext
  <2>5. AggregateOf(w.num[t], Samples(Append(s, e), t))
    <3>1. CASE e.tag = t
      BY <1>2, <2>1, <2>2, <2>4, <3>1, NumAddAllNext
    <3>2. CASE e.tag # t
      BY <2>1, <2>2, <2>4, <3>2
    <3> QED BY <3>1, <3>2
  <2> QED BY <2>3, <2>5
<1> QED BY <1>0, <1>5, <1>6, <1>7 DEF StatsOf

(***************************************************************************)
(* Nothing is the aggregate of no values.                                  *)
(***************************************************************************)
LEMMA NothingAggregated ==
  /\ Nothing \in Num /\ AggregateOf(Nothing, <<>>)
  /\ \A t : Len(OfTag(<<>>, t)) = 0 /\ Samples(<<>>, t) = <<>>
<1>1. Nothing \in Num
  BY PlusValues DEF Nothing, Num
<1>2. <<>> \in Seq(Values) /\ <<>> \in Seq(Ev) /\ Len(<<>>) = 0 /\ Range(<<>>) = {}
  BY DEF Range
<1>3. Summed(<<>>) = 0
  BY <1>2, PlusValues, SummedNext
<1>4. AggregateOf(Nothing, <<>>)
  BY <1>2, <1>3 DEF AggregateOf, Nothing
<1>5. ASSUME NEW t PROVE OfTag(<<>>, t) = <<>>
  <2>1. PICK f : Selects(f, <<>>, t, Len(<<>>)) /\ OfTag(<<>>, t) = f[Len(<<>>)]
    BY <1>2, OfTagSelects
  <2> QED BY <1>2, <2>1 DEF Selects
<1>6. FlattenSeq(<<>>) = <<>>
  <2>1. PICK q \in Seq(Seq(Values)) : q = <<>> /\ Len(q) = 0
    <3>1. PICK V : V = Seq(Values)
      OBVIOUS
    <3>2. <<>> \in Seq(V) /\ Len(<<>>) = 0
      OBVIOUS
    <3> QED BY <3>1, <3>2
  <2>2. FlattenSeq(q) \in Seq(Values) /\ Len(FlattenSeq(q)) = Ahead(q, 0)
    BY <2>1, FlattenPlaces
  <2>3. Ahead(q, 0) = 0
    BY AheadNext
  <2> QED BY <2>1, <2>2, <2>3
<1>7. ASSUME NEW t PROVE Samples(<<>>, t) = <<>>
  <2>1. [i \in DOMAIN <<>> |-> <<>>[i].samples] = <<>>
    OBVIOUS
  <2> QED BY <1>5, <1>6, <2>1 DEF Samples
<1> QED BY <1>1, <1>2, <1>4, <1>5, <1>7

(***************************************************************************)
(* Counts, sums and extremes of dtl_stats are those of all values          *)
(* delivered, over every container combined into them; a NaN that comes    *)
(* first stays minimum and maximum.                                        *)
(***************************************************************************)
THEOREM StatisticsExact == Spec => []StatsExact
<1>1. Init => StatsInv
  <2> SUFFICES ASSUME Init PROVE StatsInv
    OBVIOUS
  <2>1. WalkTypes
    BY DEF Init, WalkTypes, Pos
  <2>2. [t \in Tags |-> 0] \in [Tags -> Nat] /\ [t \in Tags |-> Nothing] \in [Tags -> Num]
    BY NothingAggregated
  <2>3. st \in Stats
    BY <2>2 DEF Init, Stats
  <2>4. seen = <<>> /\ Len(seen) = 0 /\ st.total = 0
    BY DEF Init
  <2>5. \A t \in Tags : st.per_tag[t] = 0 /\ st.num[t] = Nothing
    BY DEF Init
  <2>6. StatsOf(st, seen)
    BY <2>4, <2>5, NothingAggregated DEF StatsOf
  <2> QED BY <2>1, <2>3, <2>6 DEF StatsInv
<1>2. StatsInv /\ [Next]_vars => StatsInv'
  <2> SUFFICES ASSUME StatsInv, [Next]_vars PROVE StatsInv'
    OBVIOUS
  <2>1. WalkTypes' /\ tool' = tool
    BY WalkTypesStep DEF StatsInv
  <2>2. CASE tool # "stats"
    BY <2>1, <2>2 DEF StatsInv
  <2>3. CASE tool = "stats"
    <3>1. st \in Stats /\ StatsOf(st, seen) /\ seen \in Seq(Ev)
      BY <2>3 DEF StatsInv, WalkTypes
    <3>2. ASSUME seen' = seen, st' = st \/ st' = [st EXCEPT !.parse_errors = @ + 1]
          PROVE  st' \in Stats /\ StatsOf(st', seen')
      <4>1. st.parse_errors + 1 \in Nat
        BY <3>1 DEF Stats
      <4>2. /\ st' \in Stats /\ st'.total = st.total /\ st'.per_tag = st.per_tag
            /\ st'.num = st.num
        BY <3>1, <3>2, <4>1 DEF Stats
      <4> QED BY <3>1, <3>2, <4>2 DEF StatsOf
    <3>3. st' \in Stats /\ StatsOf(st', seen')
      BY <2>3, <3>1, <3>2, StatsStep, StatsOfNext
    <3> QED BY <2>1, <2>3, <3>3 DEF StatsInv
  <2> QED BY <2>2, <2>3
<1>3. StatsInv => StatsExact
  BY DEF StatsInv, StatsExact, StatsOf
<1> QED BY <1>1, <1>2, <1>3, PTL DEF Spec
=============================================================================
