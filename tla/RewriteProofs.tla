---------------------------- MODULE RewriteProofs ----------------------------
(***************************************************************************)
(* The rewriting tools keep their promises, for every input, every set of  *)
(* records a query may match, every codec and every sample size, as far as *)
(* the payloads they keep references to are alive.                         *)
(***************************************************************************)
EXTENDS Rewrite, WriterProofs, FiniteSetTheorems

(***************************************************************************)
(* p picks the numbers of K, one after the other.                          *)
(***************************************************************************)
Picks(p, K, n) ==
  /\ p[0] = <<>>
  /\ \A k \in 1 .. n : p[k] = IF k \in K THEN Append(p[k - 1], k) ELSE p[k - 1]

(***************************************************************************)
(* The recursive function behind Ascending exists.                         *)
(***************************************************************************)
LEMMA AscendingPicks ==
  ASSUME NEW K, NEW n \in Nat
  PROVE  \E p : /\ Picks(p, K, n) /\ Ascending(K, n) = p[n]
                /\ \A k \in 0 .. n : p[k] \in Seq(1 .. n)
<1> DEFINE V == Seq(1 .. n)
           st == [k \in 1 .. n |-> [q \in V |-> IF k \in K THEN Append(q, k) ELSE q]]
           rec(f) == [k \in 0 .. n |-> IF k = 0 THEN <<>>
                                       ELSE IF k \in K THEN Append(f[k - 1], k) ELSE f[k - 1]]
<1>1. <<>> \in V /\ \A k \in 1 .. n, q \in V : Append(q, k) \in V
  BY AppendProperties
<1>2. PICK W : W = V
  OBVIOUS
<1>3. st \in [1 .. n -> [W -> W]] /\ <<>> \in W
  BY <1>1, <1>2
<1>4. \A k \in 1 .. n, q \in W : st[k][q] = IF k \in K THEN Append(q, k) ELSE q
  BY <1>2
<1> HIDE DEF st, V
<1>5. PICK f \in [0 .. n -> W] : Runs(f, <<>>, st, n)
  BY <1>3, RunExists
<1>6. f = rec(f)
  <2>1. ASSUME NEW k \in 0 .. n
        PROVE  f[k] = IF k = 0 THEN <<>> ELSE IF k \in K THEN Append(f[k - 1], k) ELSE f[k - 1]
    <3>1. CASE k = 0
      BY <1>5, <3>1 DEF Runs
    <3>2. CASE k # 0
      <4>1. k \in 1 .. n /\ k - 1 \in 0 .. n
        BY <3>2
      <4>2. f[k - 1] \in W
        BY <4>1
      <4> QED BY <1>4, <1>5, <3>2, <4>1, <4>2 DEF Runs
    <3> QED BY <3>1, <3>2
  <2> QED BY <1>5, <2>1
<1> DEFINE p == CHOOSE g : g = rec(g)
<1>7. p = rec(p)
  BY <1>6
<1>8. Ascending(K, n) = p[n]
  BY DEF Ascending
<1> HIDE DEF p
<1>9. p[0] = <<>> /\ \A k \in 1 .. n : p[k] = IF k \in K THEN Append(p[k - 1], k) ELSE p[k - 1]
  <2>1. \A k \in 0 .. n : p[k] = IF k = 0 THEN <<>>
                              ELSE IF k \in K THEN Append(p[k - 1], k) ELSE p[k - 1]
    BY <1>7, Zenon
  <2>2. 0 \in 0 .. n /\ \A k \in 1 .. n : k \in 0 .. n /\ k # 0
    OBVIOUS
  <2> QED BY <2>1, <2>2
<1>10. \A k \in 0 .. n : p[k] \in W
  <2> DEFINE S == {m \in Nat : m <= n => p[m] \in W}
  <2>1. 0 \in S
    BY <1>3, <1>9
  <2>2. ASSUME NEW m \in Nat, m \in S PROVE m + 1 \in S
    <3> SUFFICES ASSUME m + 1 <= n PROVE p[m + 1] \in W
      OBVIOUS
    <3>1. m + 1 \in 1 .. n /\ m + 1 - 1 = m /\ p[m] \in W
      BY <2>2
    <3>2. p[m + 1] = IF m + 1 \in K THEN Append(p[m], m + 1) ELSE p[m]
      BY <1>9, <3>1
    <3>3. Append(p[m], m + 1) \in W
      BY <1>1, <1>2, <3>1
    <3> QED BY <3>1, <3>2, <3>3
  <2>3. \A m \in Nat : m \in S
    <3> HIDE DEF S
    <3> QED BY <2>1, <2>2, Induction
  <2> QED BY <2>3
<1> QED BY <1>2, <1>8, <1>9, <1>10 DEF Picks, V
(***************************************************************************)
(* What has been picked up to k.                                           *)
(***************************************************************************)
PickedTo(q, K, k) ==
  /\ \A j \in 1 .. Len(q) : q[j] \in K /\ q[j] \in 1 .. k
  /\ \A x \in 1 .. k : x \in K => \E j \in 1 .. Len(q) : q[j] = x
  /\ \A a, b \in 1 .. Len(q) : a < b => q[a] < q[b]

(***************************************************************************)
(* One number further.                                                     *)
(***************************************************************************)
LEMMA PickedNext ==
  ASSUME NEW n \in Nat, NEW K, NEW k \in 0 .. n - 1, NEW q \in Seq(1 .. n), PickedTo(q, K, k)
  PROVE  PickedTo(IF k + 1 \in K THEN Append(q, k + 1) ELSE q, K, k + 1)
<1>1. \A x \in 1 .. k + 1 : x \in 1 .. k \/ x = k + 1
  OBVIOUS
<1>2. CASE k + 1 \notin K
  BY <1>1, <1>2 DEF PickedTo
<1>3. CASE k + 1 \in K
  <2> DEFINE r == Append(q, k + 1)
  <2>1. /\ Len(q) \in Nat /\ Len(r) = Len(q) + 1 /\ r[Len(q) + 1] = k + 1
        /\ \A j \in 1 .. Len(q) : r[j] = q[j]
    BY AppendProperties
  <2>2. \A j \in 1 .. Len(r) : j \in 1 .. Len(q) \/ j = Len(q) + 1
    BY <2>1
  <2> HIDE DEF r
  <2>3. \A j \in 1 .. Len(r) : r[j] \in K /\ r[j] \in 1 .. k + 1
    BY <1>3, <2>1, <2>2, SMTT(30) DEF PickedTo
  <2>4. \A x \in 1 .. k + 1 : x \in K => \E j \in 1 .. Len(r) : r[j] = x
    BY <1>1, <2>1, SMTT(30) DEF PickedTo
  <2>5. \A a, b \in 1 .. Len(r) : a < b => r[a] < r[b]
    <3> SUFFICES ASSUME NEW a \in 1 .. Len(r), NEW b \in 1 .. Len(r), a < b
                 PROVE  r[a] < r[b]
      OBVIOUS
    <3>1. a \in 1 .. Len(q) /\ r[a] = q[a] /\ q[a] \in 1 .. k
      BY <2>1 DEF PickedTo
    <3>2. CASE b = Len(q) + 1
      BY <2>1, <3>1, <3>2
    <3>3. CASE b \in 1 .. Len(q)
      BY <2>1, <3>1, <3>3 DEF PickedTo
    <3> QED BY <2>2, <3>2, <3>3
  <2> QED BY <1>3, <2>3, <2>4, <2>5 DEF PickedTo, r
<1> QED BY <1>2, <1>3

(***************************************************************************)
(* Ascending(K, n) lists K, in order and without repetition.               *)
(***************************************************************************)
LEMMA AscendingLists ==
  ASSUME NEW n \in Nat, NEW K, K \subseteq 1 .. n
  PROVE  /\ Ascending(K, n) \in Seq(1 .. n)
         /\ \A j \in 1 .. Len(Ascending(K, n)) : Ascending(K, n)[j] \in K
         /\ \A x \in K : \E j \in 1 .. Len(Ascending(K, n)) : Ascending(K, n)[j] = x
         /\ \A a, b \in 1 .. Len(Ascending(K, n)) :
              a < b => Ascending(K, n)[a] < Ascending(K, n)[b]
<1>1. PICK p : /\ Picks(p, K, n) /\ Ascending(K, n) = p[n]
               /\ \A k \in 0 .. n : p[k] \in Seq(1 .. n)
  BY AscendingPicks
<1> DEFINE S == {k \in Nat : k <= n => PickedTo(p[k], K, k)}
<1>2. 0 \in S
  BY <1>1 DEF Picks, PickedTo
<1>3. ASSUME NEW k \in Nat, k \in S PROVE k + 1 \in S
  <2> SUFFICES ASSUME k + 1 <= n PROVE PickedTo(p[k + 1], K, k + 1)
    OBVIOUS
  <2>1. k \in 0 .. n - 1 /\ k + 1 \in 1 .. n /\ k + 1 - 1 = k /\ p[k] \in Seq(1 .. n)
    BY <1>1
  <2>2. PickedTo(p[k], K, k)
    BY <1>3
  <2>3. p[k + 1] = IF k + 1 \in K THEN Append(p[k], k + 1) ELSE p[k]
    BY <1>1, <2>1 DEF Picks
  <2>4. PickedTo(IF k + 1 \in K THEN Append(p[k], k + 1) ELSE p[k], K, k + 1)
    BY <2>1, <2>2, PickedNext
  <2> QED BY <2>3, <2>4
<1>4. \A k \in Nat : k \in S
  <2> HIDE DEF S
  <2> QED BY <1>2, <1>3, Induction
<1>5. PickedTo(p[n], K, n)
  BY <1>4
<1> QED BY <1>1, <1>5 DEF PickedTo

(***************************************************************************)
(* A number above all of K goes to the end.                                *)
(***************************************************************************)
LEMMA AscendingAdd ==
  ASSUME NEW n \in Nat, NEW K, K \subseteq 1 .. n, NEW x \in 1 .. n, \A k \in K : k < x
  PROVE  Ascending(K \cup {x}, n) = Append(Ascending(K, n), x)
<1>1. PICK p : /\ Picks(p, K, n) /\ Ascending(K, n) = p[n]
               /\ \A k \in 0 .. n : p[k] \in Seq(1 .. n)
  BY AscendingPicks
<1>2. PICK L : L = K \cup {x}
  OBVIOUS
<1>3. PICK q : Picks(q, L, n) /\ Ascending(L, n) = q[n]
  BY AscendingPicks
<1> DEFINE S == {k \in Nat : k <= n => q[k] = IF k < x THEN p[k] ELSE Append(p[k], x)}
<1>4. 0 \in S
  BY <1>1, <1>3 DEF Picks
<1>5. ASSUME NEW k \in Nat, k \in S PROVE k + 1 \in S
  <2> SUFFICES ASSUME k + 1 <= n
               PROVE  q[k + 1] = IF k + 1 < x THEN p[k + 1] ELSE Append(p[k + 1], x)
    OBVIOUS
  <2>1. k + 1 \in 1 .. n /\ k + 1 - 1 = k
    OBVIOUS
  <2>2. q[k] = IF k < x THEN p[k] ELSE Append(p[k], x)
    BY <1>5
  <2>3. /\ p[k + 1] = IF k + 1 \in K THEN Append(p[k], k + 1) ELSE p[k]
        /\ q[k + 1] = IF k + 1 \in L THEN Append(q[k], k + 1) ELSE q[k]
    BY SMTT(30), <1>1, <1>3, <2>1 DEF Picks
  <2>4. CASE k + 1 < x
    <3>1. (k + 1 \in L <=> k + 1 \in K) /\ k < x
      BY <1>2, <2>4
    <3> QED BY <2>2, <2>3, <2>4, <3>1
  <2>5. CASE k + 1 = x
    <3>1. k + 1 \in L /\ k + 1 \notin K /\ k < x /\ ~(k + 1 < x)
      BY <1>2, <2>5
    <3> QED BY <2>2, <2>3, <2>5, <3>1
  <2>6. CASE k + 1 > x
    <3>1. k + 1 \notin L /\ k + 1 \notin K /\ ~(k < x) /\ ~(k + 1 < x)
      BY <1>2, <2>6
    <3> QED BY <2>2, <2>3, <3>1
  <2> QED BY <2>1, <2>4, <2>5, <2>6
<1>6. \A k \in Nat : k \in S
  <2> HIDE DEF S
  <2> QED BY <1>4, <1>5, Induction
<1>7. q[n] = Append(p[n], x)
  <2>1. n <= n /\ ~(n < x)
    OBVIOUS
  <2> QED BY <1>6, <2>1
<1> QED BY <1>1, <1>2, <1>3, <1>7

(***************************************************************************)
(* Of nothing, nothing.                                                    *)
(***************************************************************************)
LEMMA AscendingNone == ASSUME NEW n \in Nat PROVE Ascending({}, n) = <<>>
<1>1. PICK q \in Seq(1 .. n) : q = Ascending({}, n)
  BY AscendingLists
<1>2. Len(q) = 0
  <2>1. \A j \in 1 .. Len(q) : FALSE
    BY <1>1, AscendingLists
  <2> QED BY <2>1
<1> QED BY <1>1, <1>2, EmptySeq

(***************************************************************************)
(* All numbers up to m are their own places.                               *)
(***************************************************************************)
LEMMA AscendingAll ==
  ASSUME NEW n \in Nat, NEW m \in 0 .. n
  PROVE  Len(Ascending(1 .. m, n)) = m /\ \A j \in 1 .. m : Ascending(1 .. m, n)[j] = j
<1> DEFINE is(k) == LET q == Ascending(1 .. k, n) IN
                      q \in Seq(1 .. n) /\ Len(q) = k /\ \A j \in 1 .. k : q[j] = j
           S == {k \in Nat : k <= n => is(k)}
<1>1. 0 \in S
  <2>1. 1 .. 0 = {} /\ Ascending({}, n) = <<>>
    BY AscendingNone
  <2>2. <<>> \in Seq(1 .. n) /\ Len(<<>>) = 0 /\ \A j \in 1 .. 0 : <<>>[j] = j
    OBVIOUS
  <2>3. is(0)
    BY <2>1, <2>2
  <2> HIDE DEF is
  <2> QED BY <2>3
<1>2. ASSUME NEW k \in Nat, k \in S PROVE k + 1 \in S
  <2> HIDE DEF is
  <2> SUFFICES ASSUME k + 1 <= n PROVE is(k + 1)
    OBVIOUS
  <2>1. is(k)
    BY <1>2
  <2>2. 1 .. k + 1 = (1 .. k) \cup {k + 1} /\ 1 .. k \subseteq 1 .. n /\ k + 1 \in 1 .. n
        /\ \A j \in 1 .. k : j < k + 1
    OBVIOUS
  <2>3. PICK q \in Seq(1 .. n) : q = Ascending(1 .. k, n)
    BY <2>1 DEF is
  <2>4. Ascending(1 .. k + 1, n) = Append(q, k + 1)
    <3>1. PICK K : K = 1 .. k
      OBVIOUS
    <3>2. PICK x \in 1 .. n : x = k + 1
      BY <2>2
    <3>3. Ascending(K \cup {x}, n) = Append(Ascending(K, n), x)
      BY <2>2, <3>1, <3>2, AscendingAdd
    <3> QED BY <2>2, <2>3, <3>1, <3>2, <3>3
  <2>5. Len(q) = k /\ \A j \in 1 .. k : q[j] = j
    BY <2>1, <2>3 DEF is
  <2>6. /\ Append(q, k + 1) \in Seq(1 .. n) /\ Len(Append(q, k + 1)) = k + 1
        /\ \A j \in 1 .. k + 1 : Append(q, k + 1)[j] = j
    BY <2>2, <2>5, AppendProperties
  <2> QED BY <2>4, <2>6 DEF is
<1>3. \A k \in Nat : k \in S
  <2> HIDE DEF S
  <2> QED BY <1>1, <1>2, Induction
<1> HIDE DEF is
<1>4. is(m)
  BY <1>3
<1> QED BY <1>4 DEF is

(***************************************************************************)
(* More numbers make no shorter list.                                      *)
(***************************************************************************)
LEMMA AscendingLonger ==
  ASSUME NEW n \in Nat, NEW K, NEW L, K \subseteq L
  PROVE  Len(Ascending(K, n)) <= Len(Ascending(L, n))
<1>1. PICK p : /\ Picks(p, K, n) /\ Ascending(K, n) = p[n]
               /\ \A k \in 0 .. n : p[k] \in Seq(1 .. n)
  BY AscendingPicks
<1>2. PICK q : /\ Picks(q, L, n) /\ Ascending(L, n) = q[n]
               /\ \A k \in 0 .. n : q[k] \in Seq(1 .. n)
  BY AscendingPicks
<1> DEFINE S == {k \in Nat : k <= n => Len(p[k]) <= Len(q[k])}
<1>3. 0 \in S
  BY <1>1, <1>2 DEF Picks
<1>4. ASSUME NEW k \in Nat, k \in S PROVE k + 1 \in S
  <2> SUFFICES ASSUME k + 1 <= n PROVE Len(p[k + 1]) <= Len(q[k + 1])
    OBVIOUS
  <2>1. k + 1 \in 1 .. n /\ k + 1 - 1 = k /\ k \in 0 .. n /\ Len(p[k]) <= Len(q[k])
    BY <1>4
  <2>2. PICK s \in Seq(1 .. n) : s = p[k]
    BY <1>1, <2>1
  <2>3. PICK t \in Seq(1 .. n) : t = q[k]
    BY <1>2, <2>1
  <2>4. /\ p[k + 1] = IF k + 1 \in K THEN Append(s, k + 1) ELSE s
        /\ q[k + 1] = IF k + 1 \in L THEN Append(t, k + 1) ELSE t
    BY <1>1, <1>2, <2>1, <2>2, <2>3 DEF Picks
  <2>5. /\ Len(Append(s, k + 1)) = Len(s) + 1 /\ Len(Append(t, k + 1)) = Len(t) + 1
        /\ Len(s) \in Nat /\ Len(t) \in Nat /\ Len(s) <= Len(t)
    BY <2>1, <2>2, <2>3, AppendProperties
  <2> QED BY <2>4, <2>5
<1>5. \A k \in Nat : k \in S
  <2> HIDE DEF S
  <2> QED BY <1>3, <1>4, Induction
<1>6. Len(p[n]) <= Len(q[n])
  BY <1>5
<1> QED BY <1>1, <1>2, <1>6
-----------------------------------------------------------------------------
(***************************************************************************)
(* A record as the walk delivers it.                                       *)
(***************************************************************************)
Got == [section_index : 1 .. Len(src), section_type : Types, codec_id : CodecIds,
        rec : DOMAIN Contents]

(***************************************************************************)
(* An input, and what the payloads of its records read as.                 *)
(***************************************************************************)
Loaded ==
  /\ src \in Sources
  /\ held \in [DOMAIN Delivered -> DOMAIN Contents]
  /\ seen \in [DOMAIN Delivered -> DOMAIN Contents]

(***************************************************************************)
(* The walk delivers the records of section after section.                 *)
(***************************************************************************)
LEMMA DeliveredRecords ==
  ASSUME src \in Sources
  PROVE  /\ Delivered \in Seq(Got) /\ Len(src) \in Nat /\ DOMAIN src = 1 .. Len(src)
         /\ \A p \in 1 .. Len(Delivered) :
              LET s == Delivered[p].section_index IN
                Delivered[p].section_type = src[s].type /\ Delivered[p].codec_id = src[s].codec_id
         /\ \A p, r \in 1 .. Len(Delivered) :
              p < r => Delivered[p].section_index <= Delivered[r].section_index
<1> DEFINE n == Len(src)
           got(s, k) == [section_index |-> s, section_type |-> src[s].type,
                         codec_id |-> src[s].codec_id, rec |-> src[s].stream[k]]
           q == [s \in DOMAIN src |-> [k \in DOMAIN src[s].stream |-> got(s, k)]]
<1>1. src \in Seq([type : Types, codec_id : CodecIds, stream : Seq(DOMAIN Contents)])
  BY RewriteConstants
<1>2. /\ n \in Nat /\ DOMAIN src = 1 .. n
      /\ \A s \in 1 .. n : /\ src[s].type \in Types /\ src[s].codec_id \in CodecIds
                           /\ src[s].stream \in Seq(DOMAIN Contents)
  <2>1. PICK R : R = [type : Types, codec_id : CodecIds, stream : Seq(DOMAIN Contents)]
    OBVIOUS
  <2>2. src \in Seq(R)
    BY <1>1, <2>1
  <2>3. n \in Nat /\ DOMAIN src = 1 .. n /\ \A s \in 1 .. n : src[s] \in R
    BY <2>2
  <2> QED BY <2>1, <2>3
<1>3. ASSUME NEW s \in 1 .. n
      PROVE  [k \in DOMAIN src[s].stream |-> got(s, k)] \in Seq(Got)
  <2>1. PICK t \in Seq(DOMAIN Contents) : t = src[s].stream
    BY <1>2
  <2>2. \A k \in 1 .. Len(t) : got(s, k) \in Got
    BY <1>2, <2>1 DEF Got
  <2> HIDE DEF got
  <2>3. [k \in 1 .. Len(t) |-> got(s, k)] \in Seq(Got)
    BY <2>2
  <2> QED BY <2>1, <2>3
<1>4. q \in Seq(Seq(Got)) /\ Len(q) = n
  <2> HIDE DEF got
  <2>1. PICK V : V = Seq(Got)
    OBVIOUS
  <2>2. [s \in 1 .. n |-> [k \in DOMAIN src[s].stream |-> got(s, k)]] \in Seq(V)
    BY <1>2, <1>3, <2>1
  <2> QED BY <1>2, <2>1, <2>2
<1>5. ASSUME NEW s \in 1 .. n, NEW k \in 1 .. Len(q[s]) PROVE q[s][k] = got(s, k)
  <2>1. q[s] = [l \in DOMAIN src[s].stream |-> got(s, l)] /\ q[s] \in Seq(Got)
    BY <1>2, <1>3
  <2>2. DOMAIN q[s] = 1 .. Len(q[s])
    BY <2>1
  <2> HIDE DEF got, q
  <2> QED BY <2>1, <2>2
<1>6. Delivered = FlattenSeq(q)
  BY DEF Delivered
<1> HIDE DEF q
<1>7. Delivered \in Seq(Got)
  BY <1>4, <1>6, FlattenPlaces
<1>8. ASSUME NEW p \in 1 .. Len(Delivered)
      PROVE  \E s \in 1 .. n :
               /\ Ahead(q, s - 1) < p /\ p <= Ahead(q, s)
               /\ Delivered[p].section_index = s /\ Delivered[p].section_type = src[s].type
               /\ Delivered[p].codec_id = src[s].codec_id
  <2>1. PICK k \in 0 .. n - 1 : \E j \in 1 .. Len(q[k + 1]) :
               p = Ahead(q, k) + j /\ p <= Ahead(q, k + 1) /\ Delivered[p] = q[k + 1][j]
    <3>1. p \in 1 .. Len(FlattenSeq(q))
      BY <1>6
    <3>2. \E k \in 0 .. Len(q) - 1 : \E j \in 1 .. Len(q[k + 1]) :
            p = Ahead(q, k) + j /\ p <= Ahead(q, k + 1) /\ FlattenSeq(q)[p] = q[k + 1][j]
      BY <1>4, <3>1, FlattenOrigin
    <3> QED BY <1>4, <1>6, <3>2
  <2>2. PICK j \in 1 .. Len(q[k + 1]) :
               p = Ahead(q, k) + j /\ p <= Ahead(q, k + 1) /\ Delivered[p] = q[k + 1][j]
    BY <2>1
  <2>3. PICK s \in 1 .. n : s = k + 1 /\ s - 1 = k
    BY <1>2
  <2>4. Delivered[p] = got(s, j)
    BY <1>5, <2>2, <2>3
  <2>5. Ahead(q, k) \in Nat
    BY <1>2, <1>4, AheadNext
  <2>6. Ahead(q, s - 1) < p
    BY <2>2, <2>3, <2>5
  <2> QED BY <2>2, <2>3, <2>4, <2>6
<1>9. ASSUME NEW p \in 1 .. Len(Delivered), NEW r \in 1 .. Len(Delivered), p < r
      PROVE  Delivered[p].section_index <= Delivered[r].section_index
  <2>1. PICK s \in 1 .. n : Ahead(q, s - 1) < p /\ Delivered[p].section_index = s
    BY <1>8
  <2>2. PICK t \in 1 .. n : r <= Ahead(q, t) /\ Delivered[r].section_index = t
    BY <1>8
  <2>3. SUFFICES ASSUME t < s PROVE FALSE
    BY <1>2, <2>1, <2>2
  <2>4. PICK l \in 0 .. n : l = s - 1 /\ t <= l
    BY <1>2, <2>3
  <2>5. t \in 0 .. n /\ l \in t .. n
    BY <1>2, <2>4
  <2>6. Ahead(q, t) <= Ahead(q, l) /\ Ahead(q, t) \in Nat /\ Ahead(q, l) \in Nat
    BY <1>2, <1>4, <2>5, AheadGrows, AheadNext
  <2>7. p \in Nat /\ r \in Nat
    OBVIOUS
  <2> QED BY <1>9, <2>1, <2>2, <2>4, <2>6, <2>7
<1> QED BY <1>2, <1>7, <1>8, <1>9

(***************************************************************************)
(* The same of an input whose payloads can be read.                        *)
(***************************************************************************)
LEMMA DeliveredTypes ==
  ASSUME Loaded
  PROVE  /\ Delivered \in Seq(Got) /\ Len(src) \in Nat /\ DOMAIN src = 1 .. Len(src)
         /\ \A p \in 1 .. Len(Delivered) :
              LET s == Delivered[p].section_index IN
                Delivered[p].section_type = src[s].type /\ Delivered[p].codec_id = src[s].codec_id
         /\ \A p, r \in 1 .. Len(Delivered) :
              p < r => Delivered[p].section_index <= Delivered[r].section_index
  BY DeliveredRecords DEF Loaded
(***************************************************************************)
(* A mapped list, one element longer.                                      *)
(***************************************************************************)
LEMMA MapAppend ==
  ASSUME NEW S, NEW T, NEW g \in [S -> T], NEW q \in Seq(S), NEW x \in S
  PROVE  /\ [k \in DOMAIN q |-> g[q[k]]] \in Seq(T)
         /\ [k \in DOMAIN Append(q, x) |-> g[Append(q, x)[k]]]
              = Append([k \in DOMAIN q |-> g[q[k]]], g[x])
<1> DEFINE m == [k \in DOMAIN q |-> g[q[k]]]
           r == Append(q, x)
           w == [k \in DOMAIN r |-> g[r[k]]]
<1>1. /\ Len(q) \in Nat /\ DOMAIN q = 1 .. Len(q) /\ \A k \in 1 .. Len(q) : q[k] \in S
      /\ r \in Seq(S) /\ Len(r) = Len(q) + 1 /\ DOMAIN r = 1 .. Len(q) + 1
      /\ r[Len(q) + 1] = x /\ \A k \in 1 .. Len(q) : r[k] = q[k]
  BY AppendProperties
<1>2. m \in Seq(T) /\ Len(m) = Len(q) /\ \A k \in 1 .. Len(q) : m[k] = g[q[k]]
  BY <1>1
<1>3. PICK l \in Nat : l = Len(q)
  BY <1>1
<1>4. PICK t \in T : t = g[x]
  OBVIOUS
<1> HIDE DEF r
<1>5. \A k \in 1 .. l + 1 : r[k] \in S
  BY <1>1, <1>3
<1>6. w \in Seq(T) /\ Len(w) = l + 1 /\ \A k \in 1 .. l + 1 : w[k] = g[r[k]]
  BY <1>1, <1>3, <1>5
<1> HIDE DEF m, w
<1>7. /\ Append(m, t) \in Seq(T) /\ Len(Append(m, t)) = l + 1
      /\ Append(m, t)[l + 1] = t /\ \A k \in 1 .. l : Append(m, t)[k] = m[k]
  BY <1>2, <1>3, AppendProperties
<1>8. \A k \in 1 .. l + 1 : w[k] = Append(m, t)[k]
  <2> SUFFICES ASSUME NEW k \in 1 .. l + 1 PROVE w[k] = Append(m, t)[k]
    OBVIOUS
  <2>1. CASE k = l + 1
    BY <1>1, <1>3, <1>4, <1>6, <1>7, <2>1
  <2>2. CASE k \in 1 .. l
    BY <1>1, <1>2, <1>3, <1>6, <1>7, <2>2
  <2>3. k = l + 1 \/ k \in 1 .. l
    OBVIOUS
  <2> QED BY <2>1, <2>2, <2>3
<1>9. w = Append(m, t)
  BY <1>6, <1>7, <1>8, SeqEqual
<1> QED BY <1>2, <1>4, <1>9 DEF m, w, r

-----------------------------------------------------------------------------
(***************************************************************************)
(* The sections the records at the places V of the input make up, each     *)
(* with the TLVs of its records in order.                                  *)
(***************************************************************************)
Places == 1 .. Len(Delivered)

Tlv(p) == LET r == Rewritten(held[p]) IN [tag |-> r.tag, plen |-> r.plen]

SecOf(p) == Delivered[p].section_index

InSec(V, s) == {k \in V : SecOf(k) = s}

StreamOf(V, s) ==
  LET a == Ascending(InSec(V, s), Len(Delivered)) IN [k \in DOMAIN a |-> Tlv(a[k])]

SectionAt(V, s) == [type |-> src[s].type, stream |-> StreamOf(V, s)]

SectionList(V, K) ==
  LET full == Ascending(K, Len(src)) IN [f \in DOMAIN full |-> SectionAt(V, full[f])]

SecsOf(V) == {SecOf(k) : k \in V}

SectionsOf(V) == SectionList(V, SecsOf(V))

Sec == [type : Types, stream : Seq(Item)]

(***************************************************************************)
(* What the tools write for a record is a TLV the writer takes.            *)
(***************************************************************************)
LEMMA PlaceTypes ==
  ASSUME Loaded
  PROVE  /\ Len(Delivered) \in Nat /\ Len(src) \in Nat
         /\ \A p \in Places : /\ Delivered[p] \in Got /\ SecOf(p) \in 1 .. Len(src)
                              /\ Rewritten(held[p]) \in Items /\ Tlv(p) \in Item
         /\ \A s \in 1 .. Len(src) : src[s].type \in Types
<1>1. Delivered \in Seq(Got) /\ Len(src) \in Nat
  BY DeliveredTypes
<1>2. Len(Delivered) \in Nat /\ \A p \in Places : Delivered[p] \in Got
  BY <1>1 DEF Places
<1>3. ASSUME NEW p \in Places
      PROVE  /\ SecOf(p) \in 1 .. Len(src) /\ Rewritten(held[p]) \in Items
             /\ Tlv(p) \in Item
  <2>1. SecOf(p) \in 1 .. Len(src)
    BY <1>2 DEF Got, SecOf
  <2>4. held[p] \in DOMAIN Contents
    <3>1. DOMAIN Delivered = 1 .. Len(Delivered)
      BY <1>1
    <3> QED BY <3>1 DEF Loaded, Places
  <2>2. PICK r \in Items : r = Rewritten(held[p])
    BY <2>4, RewriteConstants DEF Items
  <2>3. [tag |-> r.tag, plen |-> r.plen] \in Item
    BY ItemTypes
  <2> QED BY <2>1, <2>2, <2>3 DEF Tlv
<1>4. \A s \in 1 .. Len(src) : src[s].type \in Types
  <2>1. PICK R : R = [type : Types, codec_id : CodecIds, stream : Seq(DOMAIN Contents)]
    OBVIOUS
  <2>2. src \in Seq(R)
    BY <2>1, RewriteConstants DEF Loaded
  <2>3. \A s \in 1 .. Len(src) : src[s] \in R
    BY <2>2
  <2> QED BY <2>1, <2>3
<1> QED BY <1>1, <1>2, <1>3, <1>4

(***************************************************************************)
(* The stream of a section grows by its next record.                       *)
(***************************************************************************)
LEMMA StreamAdd ==
  ASSUME Loaded, NEW V, V \subseteq Places, NEW x \in Places, \A v \in V : v < x
  PROVE  /\ \A s : StreamOf(V, s) \in Seq(Item)
         /\ StreamOf(V \cup {x}, SecOf(x)) = Append(StreamOf(V, SecOf(x)), Tlv(x))
         /\ \A s : s # SecOf(x) => StreamOf(V \cup {x}, s) = StreamOf(V, s)
<1>0. PICK n \in Nat : n = Len(Delivered) /\ Places = 1 .. n
  BY PlaceTypes DEF Places
<1> DEFINE g == [p \in 1 .. n |-> Tlv(p)]
<1>1. g \in [1 .. n -> Item] /\ \A p \in 1 .. n : g[p] = Tlv(p)
  BY <1>0, PlaceTypes
<1> HIDE DEF g
<1>2. ASSUME NEW K, K \subseteq 1 .. n
      PROVE  LET a == Ascending(K, n) IN
               /\ a \in Seq(1 .. n)
               /\ [k \in DOMAIN a |-> Tlv(a[k])] = [k \in DOMAIN a |-> g[a[k]]]
  <2>1. PICK a \in Seq(1 .. n) : a = Ascending(K, n)
    BY <1>2, AscendingLists
  <2>2. \A k \in DOMAIN a : a[k] \in 1 .. n
    OBVIOUS
  <2> QED BY <1>1, <2>1, <2>2
<1>3. ASSUME NEW s PROVE StreamOf(V, s) \in Seq(Item)
  <2>1. PICK K : K = InSec(V, s) /\ K \subseteq 1 .. n
    BY <1>0 DEF InSec
  <2>2. PICK a \in Seq(1 .. n) : a = Ascending(K, n)
    BY <1>2, <2>1
  <2>3. StreamOf(V, s) = [k \in DOMAIN a |-> g[a[k]]]
    BY <1>0, <1>2, <2>1, <2>2 DEF StreamOf
  <2>4. [k \in DOMAIN a |-> g[a[k]]] \in Seq(Item)
    BY <1>0, <1>1, MapAppend
  <2> QED BY <2>3, <2>4
<1>4. StreamOf(V \cup {x}, SecOf(x)) = Append(StreamOf(V, SecOf(x)), Tlv(x))
  <2>1. PICK K : K = InSec(V, SecOf(x)) /\ K \subseteq 1 .. n /\ \A k \in K : k < x
    BY <1>0 DEF InSec
  <2>2. InSec(V \cup {x}, SecOf(x)) = K \cup {x} /\ K \cup {x} \subseteq 1 .. n /\ x \in 1 .. n
    BY <1>0, <2>1 DEF InSec
  <2>3. PICK a \in Seq(1 .. n) : a = Ascending(K, n)
    BY <1>2, <2>1
  <2>4. Ascending(K \cup {x}, n) = Append(a, x)
    BY <1>0, <2>1, <2>2, <2>3, AscendingAdd
  <2>5. StreamOf(V, SecOf(x)) = [k \in DOMAIN a |-> g[a[k]]]
    BY <1>0, <1>2, <2>1, <2>3 DEF StreamOf
  <2>6. StreamOf(V \cup {x}, SecOf(x)) = [k \in DOMAIN Append(a, x) |-> g[Append(a, x)[k]]]
    <3>1. PICK L : L = K \cup {x}
      OBVIOUS
    <3>2. StreamOf(V \cup {x}, SecOf(x))
            = LET b == Ascending(L, n) IN [k \in DOMAIN b |-> Tlv(b[k])]
      BY <1>0, <2>2, <3>1 DEF StreamOf
    <3>3. L \subseteq 1 .. n /\ Ascending(L, n) = Append(a, x)
      BY <2>2, <2>4, <3>1
    <3>4. [k \in DOMAIN Ascending(L, n) |-> Tlv(Ascending(L, n)[k])]
            = [k \in DOMAIN Ascending(L, n) |-> g[Ascending(L, n)[k]]]
      BY <1>2, <3>3
    <3> QED BY <3>2, <3>3, <3>4
  <2>7. [k \in DOMAIN Append(a, x) |-> g[Append(a, x)[k]]]
          = Append([k \in DOMAIN a |-> g[a[k]]], g[x])
    BY <1>1, <2>2, MapAppend
  <2> QED BY <1>1, <2>2, <2>5, <2>6, <2>7
<1>5. ASSUME NEW s, s # SecOf(x) PROVE StreamOf(V \cup {x}, s) = StreamOf(V, s)
  <2>1. InSec(V \cup {x}, s) = InSec(V, s)
    BY <1>5 DEF InSec
  <2> QED BY <2>1 DEF StreamOf
<1> QED BY <1>3, <1>4, <1>5
(***************************************************************************)
(* A list of sections grows by one of a higher number.                     *)
(***************************************************************************)
LEMMA ListAdd ==
  ASSUME Loaded, NEW V, V \subseteq Places, NEW K, K \subseteq 1 .. Len(src),
         NEW s \in 1 .. Len(src), \A k \in K : k < s
  PROVE  /\ SectionList(V, K) \in Seq(Sec)
         /\ Len(SectionList(V, K)) = Len(Ascending(K, Len(src)))
         /\ SectionList(V, K \cup {s}) = Append(SectionList(V, K), SectionAt(V, s))
<1>0. PICK n \in Nat : n = Len(src) /\ \A r \in 1 .. n : src[r].type \in Types
  BY PlaceTypes
<1> DEFINE g == [r \in 1 .. n |-> SectionAt(V, r)]
<1>1. \A r \in 1 .. n : SectionAt(V, r) \in Sec
  <2>1. ASSUME NEW r PROVE StreamOf(V, r) \in Seq(Item)
    <3>1. PICK m \in Nat : m = Len(Delivered) /\ Places = 1 .. m
      BY PlaceTypes DEF Places
    <3> DEFINE h == [p \in 1 .. m |-> Tlv(p)]
    <3>2. h \in [1 .. m -> Item] /\ \A p \in 1 .. m : h[p] = Tlv(p)
      BY <3>1, PlaceTypes
    <3> HIDE DEF h
    <3>3. InSec(V, r) \subseteq 1 .. m
      BY <3>1 DEF InSec
    <3>4. PICK a \in Seq(1 .. m) : a = Ascending(InSec(V, r), m)
      BY <3>3, AscendingLists
    <3>5. [k \in DOMAIN a |-> Tlv(a[k])] \in Seq(Item)
      <4>1. Len(a) \in Nat /\ DOMAIN a = 1 .. Len(a) /\ \A k \in 1 .. Len(a) : a[k] \in 1 .. m
        OBVIOUS
      <4>2. \A k \in 1 .. Len(a) : Tlv(a[k]) \in Item
        BY <3>2, <4>1
      <4> QED BY <4>1, <4>2
    <3> QED BY <3>1, <3>4, <3>5 DEF StreamOf
  <2> QED BY <1>0, <2>1 DEF SectionAt, Sec
<1>2. g \in [1 .. n -> Sec] /\ \A r \in 1 .. n : g[r] = SectionAt(V, r)
  BY <1>1
<1> HIDE DEF g
<1>3. ASSUME NEW L, L \subseteq 1 .. n
      PROVE  LET a == Ascending(L, n) IN
               a \in Seq(1 .. n) /\ SectionList(V, L) = [k \in DOMAIN a |-> g[a[k]]]
  <2>1. PICK a \in Seq(1 .. n) : a = Ascending(L, n)
    BY <1>3, AscendingLists
  <2>2. \A k \in DOMAIN a : a[k] \in 1 .. n
    OBVIOUS
  <2>3. SectionList(V, L) = [k \in DOMAIN a |-> SectionAt(V, a[k])]
    BY <1>0, <2>1 DEF SectionList
  <2> QED BY <1>2, <2>1, <2>2, <2>3
<1>4. PICK L : L = K \cup {s} /\ L \subseteq 1 .. n /\ K \subseteq 1 .. n /\ s \in 1 .. n
  BY <1>0
<1>5. PICK a \in Seq(1 .. n) : a = Ascending(K, n)
  BY <1>3, <1>4
<1>6. SectionList(V, K) = [k \in DOMAIN a |-> g[a[k]]]
  BY <1>3, <1>4, <1>5
<1>7. Ascending(L, n) = Append(a, s)
  BY <1>4, <1>5, AscendingAdd
<1>8. SectionList(V, L) = [k \in DOMAIN Append(a, s) |-> g[Append(a, s)[k]]]
  <2>1. SectionList(V, L) = [k \in DOMAIN Ascending(L, n) |-> g[Ascending(L, n)[k]]]
    BY <1>3, <1>4, ZenonT(30)
  <2> QED BY <1>7, <2>1
<1>9. /\ [k \in DOMAIN a |-> g[a[k]]] \in Seq(Sec)
      /\ [k \in DOMAIN Append(a, s) |-> g[Append(a, s)[k]]]
           = Append([k \in DOMAIN a |-> g[a[k]]], g[s])
  <2>1. PICK T : T = Sec
    OBVIOUS
  <2>2. PICK R : R = 1 .. n
    OBVIOUS
  <2>3. g \in [R -> T] /\ a \in Seq(R) /\ s \in R
    BY <1>2, <1>4, <2>1, <2>2
  <2>4. [k \in DOMAIN a |-> g[a[k]]] \in Seq(T)
    BY <2>3, MapAppend
  <2>5. [k \in DOMAIN Append(a, s) |-> g[Append(a, s)[k]]]
          = Append([k \in DOMAIN a |-> g[a[k]]], g[s])
    BY <2>3, MapAppend
  <2> QED BY <2>1, <2>4, <2>5
<1>10. Len(SectionList(V, K)) = Len(a)
  <2>1. Len(a) \in Nat /\ DOMAIN a = 1 .. Len(a)
    OBVIOUS
  <2> QED BY <1>6, <2>1
<1> QED BY <1>0, <1>2, <1>4, <1>5, <1>6, <1>8, <1>9, <1>10

(***************************************************************************)
(* A list of sections depends on the records in these sections only.       *)
(***************************************************************************)
LEMMA ListSame ==
  ASSUME Loaded, NEW V, NEW U, NEW K, K \subseteq 1 .. Len(src),
         \A s \in K : InSec(V, s) = InSec(U, s)
  PROVE  SectionList(V, K) = SectionList(U, K)
<1>1. PICK n \in Nat : n = Len(src)
  BY PlaceTypes
<1>2. PICK a \in Seq(1 .. n) : a = Ascending(K, n)
  BY <1>1, AscendingLists
<1>3. \A f \in DOMAIN a : a[f] \in K
  <2>1. DOMAIN a = 1 .. Len(a)
    OBVIOUS
  <2> QED BY <1>1, <1>2, <2>1, AscendingLists
<1>4. \A f \in DOMAIN a : SectionAt(V, a[f]) = SectionAt(U, a[f])
  BY <1>3 DEF SectionAt, StreamOf
<1> QED BY <1>1, <1>2, <1>4 DEF SectionList

(***************************************************************************)
(* The first record of a section opens it at the end of the list.          *)
(***************************************************************************)
LEMMA SectionsAddNew ==
  ASSUME Loaded, NEW V, V \subseteq Places, NEW x \in Places, \A v \in V : v < x,
         SecOf(x) \notin SecsOf(V)
  PROVE  /\ SectionsOf(V) \in Seq(Sec)
         /\ SectionsOf(V \cup {x})
              = Append(SectionsOf(V), [type |-> src[SecOf(x)].type, stream |-> <<Tlv(x)>>])
<1>1. /\ SecsOf(V) \subseteq 1 .. Len(src) /\ SecOf(x) \in 1 .. Len(src)
      /\ SecsOf(V \cup {x}) = SecsOf(V) \cup {SecOf(x)}
  BY PlaceTypes DEF SecsOf
<1>2. \A k \in SecsOf(V) : k < SecOf(x)
  <2> SUFFICES ASSUME NEW v \in V PROVE SecOf(v) < SecOf(x)
    BY DEF SecsOf
  <2>1. v \in Places /\ v < x /\ SecOf(v) # SecOf(x)
    BY DEF SecsOf
  <2>2. SecOf(v) <= SecOf(x)
    BY <2>1, DeliveredTypes DEF SecOf, Places
  <2>3. SecOf(v) \in 1 .. Len(src) /\ Len(src) \in Nat
    BY <2>1, PlaceTypes
  <2> QED BY <1>1, <2>1, <2>2, <2>3
<1>3. \A s \in SecsOf(V) : InSec(V \cup {x}, s) = InSec(V, s)
  BY DEF InSec
<1>5. PICK U : U = V \cup {x} /\ U \subseteq Places
  OBVIOUS
<1>4. SectionList(U, SecsOf(V)) = SectionList(V, SecsOf(V))
  <2>1. PICK K : K = SecsOf(V)
    OBVIOUS
  <2>2. K \subseteq 1 .. Len(src) /\ \A s \in K : InSec(U, s) = InSec(V, s)
    BY <1>1, <1>3, <1>5, <2>1
  <2> QED BY <2>1, <2>2, ListSame
<1>6. SectionList(U, SecsOf(V) \cup {SecOf(x)})
        = Append(SectionList(U, SecsOf(V)), SectionAt(U, SecOf(x)))
  BY <1>1, <1>2, <1>5, ListAdd
<1>7. StreamOf(U, SecOf(x)) = <<Tlv(x)>>
  <2>1. InSec(V, SecOf(x)) = {} /\ Len(Delivered) \in Nat
    BY PlaceTypes DEF InSec, SecsOf
  <2>2. StreamOf(V, SecOf(x)) = <<>>
    <3>1. Ascending(InSec(V, SecOf(x)), Len(Delivered)) = <<>>
      BY <2>1, AscendingNone
    <3> QED BY <3>1 DEF StreamOf
  <2>3. StreamOf(U, SecOf(x)) = Append(<<>>, Tlv(x))
    BY <1>5, <2>2, StreamAdd
  <2> QED BY <2>3
<1>8. SectionsOf(V) \in Seq(Sec)
  BY <1>1, <1>2, ListAdd DEF SectionsOf
<1> QED BY <1>1, <1>4, <1>5, <1>6, <1>7, <1>8 DEF SectionsOf, SectionAt

(***************************************************************************)
(* A further record of the last section lengthens that one.                *)
(***************************************************************************)
LEMMA SectionsAddSame ==
  ASSUME Loaded, NEW V, V \subseteq Places, NEW x \in Places, \A v \in V : v < x,
         SecOf(x) \in SecsOf(V)
  PROVE  \E pre \in Seq(Sec) :
           /\ SectionsOf(V) = Append(pre, [type |-> src[SecOf(x)].type,
                                           stream |-> StreamOf(V, SecOf(x))])
           /\ SectionsOf(V \cup {x}) = Append(pre, [type |-> src[SecOf(x)].type,
                                          stream |-> Append(StreamOf(V, SecOf(x)), Tlv(x))])
<1> DEFINE m == SecOf(x)
           K == SecsOf(V) \ {m}
           U == V \cup {x}
<1>1. /\ K \subseteq 1 .. Len(src) /\ m \in 1 .. Len(src) /\ SecsOf(V) = K \cup {m}
      /\ SecsOf(U) = K \cup {m} /\ U \subseteq Places
  BY PlaceTypes DEF SecsOf
<1>2. \A k \in K : k < m
  <2> SUFFICES ASSUME NEW v \in V, SecOf(v) # m PROVE SecOf(v) < m
    BY DEF SecsOf
  <2>1. SecOf(v) <= m
    BY DeliveredTypes DEF SecOf, Places
  <2>2. SecOf(v) \in 1 .. Len(src) /\ Len(src) \in Nat
    BY PlaceTypes
  <2> QED BY <1>1, <2>1, <2>2
<1>3. \A s \in K : InSec(U, s) = InSec(V, s)
  BY DEF InSec
<1> HIDE DEF K, U, m
<1>4. SectionList(U, K) = SectionList(V, K)
  BY <1>1, <1>3, ListSame
<1>5. SectionList(V, K) \in Seq(Sec)
  BY <1>1, <1>2, ListAdd
<1>6. SectionList(V, K \cup {m}) = Append(SectionList(V, K), SectionAt(V, m))
  BY <1>1, <1>2, ListAdd
<1>7. SectionList(U, K \cup {m}) = Append(SectionList(U, K), SectionAt(U, m))
  BY <1>1, <1>2, ListAdd
<1>8. StreamOf(U, m) = Append(StreamOf(V, m), Tlv(x))
  BY StreamAdd DEF U, m
<1>9. SectionsOf(V) = Append(SectionList(V, K), SectionAt(V, m))
  BY <1>1, <1>6 DEF SectionsOf
<1>10. SectionsOf(U) = Append(SectionList(V, K), SectionAt(U, m))
  BY <1>1, <1>4, <1>7 DEF SectionsOf
<1> QED BY <1>5, <1>8, <1>9, <1>10 DEF SectionAt, U, m

(***************************************************************************)
(* The sections any records make up form a list.                           *)
(***************************************************************************)
LEMMA SectionsTyped ==
  ASSUME Loaded, NEW W, W \subseteq Places
  PROVE  Len(SectionsOf(W)) = Len(Ascending(SecsOf(W), Len(src))) /\ Len(SectionsOf(W)) \in Nat
<1>1. SecsOf(W) \subseteq 1 .. Len(src) /\ Len(src) \in Nat
  BY PlaceTypes DEF SecsOf
<1>2. PICK a \in Seq(1 .. Len(src)) : a = Ascending(SecsOf(W), Len(src))
  BY <1>1, AscendingLists
<1>3. Len(a) \in Nat /\ DOMAIN a = 1 .. Len(a)
  OBVIOUS
<1> QED BY <1>2, <1>3 DEF SectionsOf, SectionList

(***************************************************************************)
(* More records make no fewer sections.                                    *)
(***************************************************************************)
LEMMA SectionsLonger ==
  ASSUME Loaded, NEW V, NEW U, V \subseteq U, U \subseteq Places
  PROVE  Len(SectionsOf(V)) <= Len(SectionsOf(U))
<1>1. SecsOf(V) \subseteq SecsOf(U) /\ SecsOf(U) \subseteq 1 .. Len(src) /\ Len(src) \in Nat
  BY PlaceTypes DEF SecsOf
<1>2. Len(Ascending(SecsOf(V), Len(src))) <= Len(Ascending(SecsOf(U), Len(src)))
  BY <1>1, AscendingLonger
<1>3. V \subseteq Places
  OBVIOUS
<1> QED BY <1>2, <1>3, SectionsTyped
-----------------------------------------------------------------------------
(***************************************************************************)
(* The places of the records the tool promises to keep.                    *)
(***************************************************************************)
WantedPlaces == {k \in DOMAIN Delivered : Wanted(k)}

(***************************************************************************)
(* What they make up is what the output should hold.                       *)
(***************************************************************************)
LEMMA WantedAre ==
  ASSUME Loaded
  PROVE  /\ WantedPlaces \subseteq Places /\ DOMAIN Delivered = Places
         /\ \A s : Kept(s) = StreamOf(WantedPlaces, s)
         /\ WantedSections = SectionsOf(WantedPlaces)
<1>1. Delivered \in Seq(Got) /\ DOMAIN src = 1 .. Len(src) /\ Len(src) \in Nat
  BY DeliveredTypes
<1>2. DOMAIN Delivered = Places /\ WantedPlaces \subseteq Places /\ Len(Delivered) \in Nat
  BY <1>1 DEF Places, WantedPlaces
<1>3. ASSUME NEW s PROVE WantedOf(s) = Ascending(InSec(WantedPlaces, s), Len(Delivered))
  <2>1. {k \in DOMAIN Delivered : Delivered[k].section_index = s /\ Wanted(k)}
          = InSec(WantedPlaces, s)
    BY DEF InSec, WantedPlaces, SecOf
  <2> QED BY <2>1 DEF WantedOf
<1>4. ASSUME NEW s PROVE Kept(s) = StreamOf(WantedPlaces, s)
  BY <1>3 DEF Kept, StreamOf, Tlv
<1>5. ASSUME NEW s PROVE WantedOf(s) # <<>> <=> s \in SecsOf(WantedPlaces)
  <2>1. PICK K : K = InSec(WantedPlaces, s) /\ K \subseteq 1 .. Len(Delivered)
    BY <1>2 DEF InSec, Places
  <2>0. PICK n \in Nat : n = Len(Delivered)
    BY <1>2
  <2>2. PICK a \in Seq(1 .. n) : a = Ascending(K, n)
    BY <2>0, <2>1, AscendingLists
  <2>3. /\ \A j \in 1 .. Len(a) : a[j] \in K
        /\ \A x \in K : \E j \in 1 .. Len(a) : a[j] = x
    <3>1. K \subseteq 1 .. n
      BY <2>0, <2>1
    <3>2. /\ \A j \in 1 .. Len(Ascending(K, n)) : Ascending(K, n)[j] \in K
          /\ \A x \in K : \E j \in 1 .. Len(Ascending(K, n)) : Ascending(K, n)[j] = x
      BY <3>1, AscendingLists
    <3> QED BY <2>2, <3>2
  <2>4. a # <<>> <=> K # {}
    <3>1. Len(a) \in Nat /\ (a = <<>> <=> Len(a) = 0)
      BY EmptySeq
    <3> QED BY <2>3, <3>1
  <2>5. K # {} <=> s \in SecsOf(WantedPlaces)
    BY <2>1 DEF InSec, SecsOf
  <2> QED BY <1>3, <2>0, <2>1, <2>2, <2>4, <2>5
<1>6. {s \in DOMAIN src : WantedOf(s) # <<>>} = SecsOf(WantedPlaces)
  <2>1. SecsOf(WantedPlaces) \subseteq DOMAIN src
    BY <1>1, <1>2, PlaceTypes DEF SecsOf
  <2> QED BY <1>5, <2>1
<1>7. WantedSections = SectionsOf(WantedPlaces)
  BY <1>4, <1>6 DEF WantedSections, SectionsOf, SectionList, SectionAt
<1> QED BY <1>2, <1>4, <1>7

(***************************************************************************)
(* The loop of dtl_dedup_mark.                                             *)
(***************************************************************************)
Marks(m, its) ==
  /\ m[0] = {}
  /\ \A k \in 1 .. Len(its) :
       m[k] = IF \E j \in m[k - 1] : Equal(seen[its[j]], seen[its[k]]) THEN m[k - 1]
              ELSE m[k - 1] \cup {k}

(***************************************************************************)
(* The recursive function behind DedupKept exists.                         *)
(***************************************************************************)
LEMMA DedupMarks ==
  ASSUME NEW its, its = items, Len(its) \in Nat
  PROVE  \E m : Marks(m, its) /\ DedupKept = m[Len(its)]
<1> DEFINE n == Len(its)
           V == SUBSET (1 .. n)
           hit(k, u) == \E j \in u : Equal(seen[its[j]], seen[its[k]])
           st == [k \in 1 .. n |-> [u \in V |-> IF hit(k, u) THEN u ELSE u \cup {k}]]
           rec(f) == [k \in 0 .. n |-> IF k = 0 THEN {}
                        ELSE IF hit(k, f[k - 1]) THEN f[k - 1] ELSE f[k - 1] \cup {k}]
<1>1. DedupKept = (CHOOSE f : f = rec(f))[n]
  BY DEF DedupKept
<1> HIDE DEF hit
<1>2. st \in [1 .. n -> [V -> V]] /\ {} \in V
  OBVIOUS
<1>3. \A k \in 1 .. n, u \in V : st[k][u] = IF hit(k, u) THEN u ELSE u \cup {k}
  OBVIOUS
<1> HIDE DEF st, V
<1>4. PICK f \in [0 .. n -> V] : Runs(f, {}, st, n)
  BY <1>2, RunExists
<1>5. f = rec(f)
  <2>1. ASSUME NEW k \in 0 .. n
        PROVE  f[k] = IF k = 0 THEN {}
                      ELSE IF hit(k, f[k - 1]) THEN f[k - 1] ELSE f[k - 1] \cup {k}
    <3>1. CASE k = 0
      BY <1>4, <3>1 DEF Runs
    <3>2. CASE k # 0
      <4>1. k \in 1 .. n /\ k - 1 \in 0 .. n
        BY <3>2
      <4>2. f[k - 1] \in V
        BY <4>1
      <4> QED BY <1>3, <1>4, <3>2, <4>1, <4>2 DEF Runs
    <3> QED BY <3>1, <3>2
  <2> QED BY <1>4, <2>1
<1> DEFINE m == CHOOSE g : g = rec(g)
<1>6. m = rec(m)
  BY <1>5
<1> HIDE DEF m
<1>7. \A k \in 0 .. n : m[k] = IF k = 0 THEN {}
                              ELSE IF hit(k, m[k - 1]) THEN m[k - 1] ELSE m[k - 1] \cup {k}
  BY <1>6, Zenon
<1>8. 0 \in 0 .. n /\ \A k \in 1 .. n : k \in 0 .. n /\ k # 0
  OBVIOUS
<1>9. m[0] = {} /\ \A k \in 1 .. n : m[k] = IF hit(k, m[k - 1]) THEN m[k - 1]
                                            ELSE m[k - 1] \cup {k}
  BY <1>7, <1>8
<1> QED BY <1>1, <1>9 DEF Marks, hit, m

(***************************************************************************)
(* dtl_dedup_mark keeps exactly the records that equal nothing before      *)
(* them, dropped or not: what equals a dropped record also equals the one  *)
(* it was dropped for.                                                     *)
(***************************************************************************)
LEMMA DedupKeepsFirsts ==
  ASSUME NEW its, its = items, Len(its) \in Nat
  PROVE  DedupKept = {k \in 1 .. Len(its) :
                             \A j \in 1 .. k - 1 : ~Equal(seen[its[j]], seen[its[k]])}
<1> DEFINE n == Len(its)
           eq(j, k) == Equal(seen[its[j]], seen[its[k]])
<1>0. n \in Nat
  OBVIOUS
<1>1. PICK m : Marks(m, its) /\ DedupKept = m[n]
  BY DedupMarks
<1>2. \A j, k, l \in 1 .. n : eq(j, k) /\ eq(k, l) => eq(j, l)
  BY DEF Equal
<1>3. m[0] = {} /\ \A k \in 1 .. n : m[k] = IF \E j \in m[k - 1] : eq(j, k) THEN m[k - 1]
                                            ELSE m[k - 1] \cup {k}
  BY <1>1 DEF Marks
<1> HIDE DEF eq, n
<1> DEFINE firsts(k) == {l \in 1 .. k : \A j \in 1 .. l - 1 : ~eq(j, l)}
           S == {k \in Nat : k <= n => m[k] = firsts(k)}
<1>4. 0 \in S
  BY <1>0, <1>3
<1>5. ASSUME NEW k \in Nat, k \in S PROVE k + 1 \in S
  <2> SUFFICES ASSUME k + 1 <= n PROVE m[k + 1] = firsts(k + 1)
    OBVIOUS
  <2>1. /\ k + 1 \in 1 .. n /\ k + 1 - 1 = k /\ m[k] = firsts(k)
        /\ \A j \in 1 .. k : j \in 1 .. n
    BY <1>0, <1>5
  <2>2. m[k + 1] = IF \E j \in firsts(k) : eq(j, k + 1) THEN firsts(k)
                   ELSE firsts(k) \cup {k + 1}
    <3>1. PICK l \in 1 .. n : l = k + 1 /\ l - 1 = k
      BY <2>1
    <3>2. m[l] = IF \E j \in m[k] : eq(j, l) THEN m[k] ELSE m[k] \cup {l}
      BY <1>3, <3>1
    <3> HIDE DEF firsts
    <3> QED BY <2>1, <3>1, <3>2
  <2>3. (\E j \in 1 .. k : eq(j, k + 1)) => \E j \in firsts(k) : eq(j, k + 1)
    <3> SUFFICES ASSUME NEW a \in 1 .. k, eq(a, k + 1) PROVE \E j \in firsts(k) : eq(j, k + 1)
      OBVIOUS
    <3> DEFINE E == {j \in 1 .. k : eq(j, k + 1)}
    <3>1. E \subseteq Nat /\ E # {}
      OBVIOUS
    <3>2. PICK j \in E : \A l \in E : j <= l
      <4> HIDE DEF E
      <4> QED BY <3>1, LeastNatural
    <3>3. ASSUME NEW l \in 1 .. j - 1 PROVE ~eq(l, j)
      <4>1. l \in 1 .. k /\ ~(j <= l)
        OBVIOUS
      <4>2. ~eq(l, k + 1)
        BY <3>2, <4>1
      <4>3. eq(j, k + 1) /\ j \in 1 .. n /\ l \in 1 .. n
        BY <2>1, <4>1
      <4> QED BY <1>2, <2>1, <4>2, <4>3
    <3>4. j \in 1 .. k /\ eq(j, k + 1)
      OBVIOUS
    <3> QED BY <3>3, <3>4
  <2>4. \A l \in 1 .. k + 1 : l \in 1 .. k \/ l = k + 1
    OBVIOUS
  <2>5. \A l : l \in firsts(k + 1) <=> l \in firsts(k) \/ (l = k + 1 /\ \A j \in 1 .. k : ~eq(j, l))
    BY <2>1, <2>4
  <2>6. \A j \in firsts(k) : j \in 1 .. k
    OBVIOUS
  <2> HIDE DEF firsts
  <2>7. CASE \E j \in 1 .. k : eq(j, k + 1)
    BY <2>2, <2>3, <2>5, <2>7
  <2>8. CASE ~\E j \in 1 .. k : eq(j, k + 1)
    BY <2>2, <2>5, <2>6, <2>8
  <2> QED BY <2>7, <2>8
<1>6. \A k \in Nat : k \in S
  <2> HIDE DEF S
  <2> QED BY <1>4, <1>5, Induction
<1>7. m[n] = firsts(n)
  BY <1>0, <1>6
<1> QED BY <1>1, <1>7 DEF eq, n
-----------------------------------------------------------------------------
(***************************************************************************)
(* The inductive invariant.  Taken lists the places of the records         *)
(* collected so far, Gone those of the records the replay has added.       *)
(***************************************************************************)
Taken == Ascending({k \in 1 .. at : Matches(Delivered[k])}, Len(Delivered))

Gone == {Taken[j] : j \in {l \in kept : l < i}}

ToolSetup == tool \in Tools /\ Loaded /\ arg \in Arguments(tool)

Collected ==
  at \in 0 .. Len(Delivered) /\ items = Taken

Running ==
  pc # "done" => WriterInv /\ err = "OK" /\ ~oom /\ rc = "OK" /\ disk = Old /\ ~refused

Fresh ==
  pc \in {"absorb", "sample"} => section_open = FALSE /\ in_section = FALSE /\ sections = <<>>

(***************************************************************************)
(* The n slots of the reservoir hold different records already seen.       *)
(***************************************************************************)
Sampling ==
  pc = "sample" =>
    /\ tool = "sample" /\ ~CopyAll /\ at = Len(Delivered) /\ i \in arg .. Len(items)
    /\ DOMAIN reservoir = 0 .. arg - 1
    /\ \A k \in 0 .. arg - 1 : reservoir[k] \in 0 .. i - 1
    /\ \A k, l \in 0 .. arg - 1 : reservoir[k] = reservoir[l] => k = l

Chosen ==
  /\ at = Len(Delivered) /\ kept \subseteq 1 .. Len(items)
  /\ {Taken[j] : j \in kept} = WantedPlaces
  /\ tool = "sample" /\ ~CopyAll => Cardinality(kept) = arg

(***************************************************************************)
(* Between two sections the closed ones hold what is gone, and the next    *)
(* record to add begins another.                                           *)
(***************************************************************************)
Shut ==
  /\ Streams(sections) = SectionsOf(Gone)
  /\ \/ Gone = {} \/ i > Len(items)
     \/ i \in kept /\ SecOf(Taken[i]) \notin SecsOf(Gone)

(***************************************************************************)
(* In a section nothing was added to yet, and in one that holds the last   *)
(* of what is gone.                                                        *)
(***************************************************************************)
Opened ==
  /\ tlv = <<>> /\ Streams(sections) = SectionsOf(Gone)
  /\ i \in kept /\ SecOf(Taken[i]) = cur_section /\ cur_section \notin SecsOf(Gone)

Filling ==
  /\ cur_section \in SecsOf(Gone) /\ \A s \in SecsOf(Gone) : s <= cur_section
  /\ tlv = StreamOf(Gone, cur_section)
  /\ SectionsOf(Gone) = Append(Streams(sections), [type |-> cur_type, stream |-> tlv])

Inside ==
  /\ cur_section \in 1 .. Len(src)
  /\ cur_type = src[cur_section].type /\ cur_codec = CodecOf(cur_section)
  /\ Opened \/ Filling

Replaying ==
  pc = "replay" =>
    /\ Chosen /\ i \in 1 .. Len(items) + 1
    /\ section_open \in BOOLEAN /\ in_section = section_open
    /\ section_open => Inside
    /\ ~section_open => Shut

Complete ==
  /\ Chosen /\ Streams(sections) = SectionsOf(WantedPlaces) /\ BlobRegion <= U32Max
  /\ tool = "sign" => hmac_key = arg

Saving == pc = "save" => Complete /\ out = Layout

Returned == pc = "done" => OutputIsSelection /\ FailuresExplained

RewriteInv ==
  /\ pc \in {"absorb", "sample", "replay", "save", "done"}
  /\ ToolSetup /\ Collected /\ Running /\ Fresh
  /\ Sampling /\ Replaying /\ Saving /\ Returned
-----------------------------------------------------------------------------
(***************************************************************************)
(* What depends on the tool, its input and its argument alone.             *)
(***************************************************************************)
LEMMA SetupFrame ==
  ASSUME UNCHANGED setup
  PROVE  /\ Delivered' = Delivered /\ Places' = Places
         /\ \A p : Tlv(p)' = Tlv(p) /\ SecOf(p)' = SecOf(p)
         /\ \A V : SecsOf(V)' = SecsOf(V) /\ SectionsOf(V)' = SectionsOf(V)
         /\ \A V, s : StreamOf(V, s)' = StreamOf(V, s)
         /\ \A s : CodecOf(s)' = CodecOf(s)
         /\ \A it : Matches(it)' <=> Matches(it)
         /\ ToolSetup' <=> ToolSetup
<1>1. /\ tool' = tool /\ src' = src /\ arg' = arg
      /\ freed' = freed /\ seen' = seen /\ held' = held
  BY DEF setup
<1>2. Delivered' = Delivered
  BY <1>1 DEF Delivered
<1>3. Places' = Places
  BY <1>2 DEF Places
<1>4. \A p : Tlv(p)' = Tlv(p) /\ SecOf(p)' = SecOf(p)
  BY <1>1, <1>2 DEF Tlv, SecOf
<1>5. \A V, s : InSec(V, s)' = InSec(V, s)
  BY <1>4 DEF InSec
<1>6. \A V, s : StreamOf(V, s)' = StreamOf(V, s)
  BY <1>2, <1>4, <1>5 DEF StreamOf
<1>7. \A V, s : SectionAt(V, s)' = SectionAt(V, s)
  BY <1>1, <1>6 DEF SectionAt
<1>8. \A V, K : SectionList(V, K)' = SectionList(V, K)
  BY <1>1, <1>7 DEF SectionList
<1>9. \A V : SecsOf(V)' = SecsOf(V)
  BY <1>4 DEF SecsOf
<1>10. \A V : SectionsOf(V)' = SectionsOf(V)
  BY <1>8, <1>9 DEF SectionsOf
<1>11. \A s : CodecOf(s)' = CodecOf(s)
  BY <1>1 DEF CodecOf
<1>12. \A it : Matches(it)' <=> Matches(it)
  BY <1>1 DEF Matches
<1>13. ToolSetup' <=> ToolSetup
  BY <1>1, <1>2 DEF ToolSetup, Loaded, Arguments
<1> QED BY <1>2, <1>3, <1>4, <1>6, <1>9, <1>10, <1>11, <1>12, <1>13

(***************************************************************************)
(* What depends on the collected records besides.                          *)
(***************************************************************************)
LEMMA CollectedFrame ==
  ASSUME UNCHANGED <<setup, collected>>
  PROVE  /\ Taken' = Taken /\ (CopyAll' <=> CopyAll) /\ (Collected' <=> Collected)
         /\ items' = items /\ at' = at
<1>1. UNCHANGED setup /\ at' = at /\ items' = items /\ arg' = arg
  BY DEF collected, setup
<1>2. Delivered' = Delivered /\ \A it : Matches(it)' <=> Matches(it)
  BY <1>1, SetupFrame
<1>3. {k \in 1 .. at' : Matches(Delivered[k])'} = {k \in 1 .. at : Matches(Delivered[k])}
  <2>1. \A k : Matches(Delivered[k])' <=> Matches(Delivered[k])
    BY <1>2
  <2> QED BY <1>1, <2>1
<1>4. Taken' = Taken
  BY <1>2, <1>3 DEF Taken
<1>5. CopyAll' <=> CopyAll
  BY <1>1 DEF CopyAll
<1>6. Collected' <=> Collected
  BY <1>1, <1>2, <1>4 DEF Collected
<1> QED BY <1>1, <1>4, <1>5, <1>6

(***************************************************************************)
(* What depends on the choice besides.                                     *)
(***************************************************************************)
LEMMA ChosenFrame ==
  ASSUME UNCHANGED <<setup, collected, chosen>>
  PROVE  /\ WantedPlaces' = WantedPlaces /\ (Chosen' <=> Chosen)
         /\ WantedSections' = WantedSections
         /\ \A s : Kept(s)' = Kept(s)
<1>1. /\ UNCHANGED setup /\ UNCHANGED <<setup, collected>>
      /\ tool' = tool /\ arg' = arg /\ src' = src /\ kept' = kept /\ seen' = seen
      /\ held' = held
  BY DEF setup, chosen
<1>2. Delivered' = Delivered
  BY <1>1, SetupFrame
<1>3. \A k : Wanted(k)' <=> Wanted(k)
  BY <1>1, <1>2 DEF Wanted
<1>4. WantedPlaces' = WantedPlaces
  BY <1>2, <1>3 DEF WantedPlaces
<1>5. Taken' = Taken /\ (CopyAll' <=> CopyAll) /\ items' = items /\ at' = at
  BY <1>1, CollectedFrame
<1>6. Chosen' <=> Chosen
  BY <1>1, <1>2, <1>4, <1>5 DEF Chosen
<1>7. \A s : WantedOf(s)' = WantedOf(s)
  BY <1>2, <1>3 DEF WantedOf
<1>8. \A s : Kept(s)' = Kept(s)
  BY <1>1, <1>2, <1>7 DEF Kept
<1>9. WantedSections' = WantedSections
  BY <1>1, <1>7, <1>8 DEF WantedSections
<1> QED BY <1>4, <1>6, <1>8, <1>9
(***************************************************************************)
(* The records collected, and where the walk delivered them.               *)
(***************************************************************************)
LEMMA TakenTypes ==
  ASSUME ToolSetup, Collected
  PROVE  /\ Taken \in Seq(Places) /\ Len(items) = Len(Taken) /\ Len(items) \in Nat
         /\ DOMAIN items = 1 .. Len(items)
         /\ \A j \in 1 .. Len(items) :
              /\ Taken[j] \in Places /\ items[j] = Taken[j]
              /\ Copy(j) = Delivered[Taken[j]] /\ Copy(j) \in Got
              /\ Taken[j] \in 1 .. at /\ Matches(Delivered[Taken[j]])
         /\ \A x \in 1 .. at : Matches(Delivered[x]) => \E j \in 1 .. Len(items) : Taken[j] = x
         /\ \A a, b \in 1 .. Len(items) : a < b => Taken[a] < Taken[b]
<1>1. PICK n \in Nat : n = Len(Delivered) /\ Places = 1 .. n /\ \A p \in 1 .. n : Delivered[p] \in Got
  BY PlaceTypes DEF ToolSetup, Places
<1> DEFINE K == {k \in 1 .. at : Matches(Delivered[k])}
<1>2. K \subseteq 1 .. n /\ at \in 0 .. n
  BY <1>1 DEF Collected
<1>3. \A x : x \in K <=> x \in 1 .. at /\ Matches(Delivered[x])
  OBVIOUS
<1> HIDE DEF K
<1>4. Taken = Ascending(K, n)
  BY <1>1 DEF Taken, K
<1>5. /\ Taken \in Seq(1 .. n) /\ \A j \in 1 .. Len(Taken) : Taken[j] \in K
      /\ \A x \in K : \E j \in 1 .. Len(Taken) : Taken[j] = x
      /\ \A a, b \in 1 .. Len(Taken) : a < b => Taken[a] < Taken[b]
  <2>1. K \subseteq 1 .. n
    BY <1>2
  <2>2. /\ Ascending(K, n) \in Seq(1 .. n)
        /\ \A j \in 1 .. Len(Ascending(K, n)) : Ascending(K, n)[j] \in K
        /\ \A x \in K : \E j \in 1 .. Len(Ascending(K, n)) : Ascending(K, n)[j] = x
        /\ \A a, b \in 1 .. Len(Ascending(K, n)) : a < b => Ascending(K, n)[a] < Ascending(K, n)[b]
    BY <2>1, AscendingLists
  <2> QED BY <1>4, <2>2
<1>6. Len(Taken) \in Nat /\ DOMAIN Taken = 1 .. Len(Taken) /\ \A j \in 1 .. Len(Taken) : Taken[j] \in 1 .. n
  BY <1>5
<1>7. items = Taken
  BY DEF Collected
<1>8. \A j \in 1 .. Len(Taken) : Copy(j) = Delivered[Taken[j]]
  BY <1>7 DEF Copy
<1> QED BY <1>1, <1>3, <1>5, <1>6, <1>7, <1>8

(***************************************************************************)
(* Nothing is collected yet.                                               *)
(***************************************************************************)
LEMMA RewriteInitInv == RewriteInit => RewriteInv
<1> SUFFICES ASSUME RewriteInit PROVE RewriteInv
  OBVIOUS
<1>1. ToolSetup /\ pc = "absorb"
  <2>1. ASSUME NEW m \in Memory(freed) PROVE m \in [DOMAIN Delivered -> DOMAIN Contents]
    <3>1. PICK g : /\ m = [k \in DOMAIN Delivered |-> IF k \in freed THEN g[k] ELSE Delivered[k].rec]
                   /\ \A k \in freed : g[k] \in DOMAIN Contents
      BY DEF Memory, Readings
    <3>2. \A k \in DOMAIN Delivered : Delivered[k].rec \in DOMAIN Contents
      <4>1. Delivered \in Seq(Got)
        BY DeliveredRecords DEF RewriteInit
      <4>2. \A k \in DOMAIN Delivered : Delivered[k] \in Got
        BY <4>1
      <4> QED BY <4>2 DEF Got
    <3> QED BY <3>1, <3>2
  <2>2. held \in Memory(freed) /\ seen \in Memory(freed)
    BY DEF RewriteInit
  <2>3. Loaded
    BY <2>1, <2>2 DEF RewriteInit, Loaded
  <2> QED BY <2>3 DEF RewriteInit, ToolSetup
<1>2. Running
  BY WriterInitInv DEF RewriteInit, Running, WriterInit
<1>3. Fresh
  BY DEF RewriteInit, Fresh, WriterInit
<1>4. Collected
  <2>1. at = 0 /\ items = <<>> /\ Len(Delivered) \in Nat
    BY <1>1, PlaceTypes DEF RewriteInit, ToolSetup
  <2>2. {k \in 1 .. at : Matches(Delivered[k])} = {}
    BY <2>1
  <2>3. Taken = <<>>
    BY <2>1, <2>2, AscendingNone DEF Taken
  <2> QED BY <2>1, <2>3 DEF Collected
<1> QED BY <1>1, <1>2, <1>3, <1>4 DEF RewriteInv, Sampling, Replaying, Saving, Returned

(***************************************************************************)
(* A tool that returns an error has not written its output.                *)
(***************************************************************************)
LEMMA StopStep ==
  ASSUME RewriteInv, pc # "done", UNCHANGED <<setup, collected, disk>>, NEW e, Stop(e),
         FailuresExplained'
  PROVE  RewriteInv'
<1>1. disk' = Old /\ pc' = "done" /\ UNCHANGED setup /\ UNCHANGED <<setup, collected>>
  BY DEF RewriteInv, Running, Stop
<1>2. ToolSetup' /\ Collected'
  BY <1>1, SetupFrame, CollectedFrame DEF RewriteInv
<1>3. OutputIsSelection'
  BY <1>1 DEF OutputIsSelection, Stored
<1> QED BY <1>1, <1>2, <1>3 DEF RewriteInv, Running, Fresh, Sampling, Replaying, Saving, Returned

(***************************************************************************)
(* An error that needs no more explanation than a failed allocation.       *)
(***************************************************************************)
LEMMA PlainStop ==
  ASSUME RewriteInv, pc # "done", UNCHANGED <<setup, collected, disk>>, refused' = refused,
         NEW e, Stop(e), e \notin {"OK", "TRUNCATED", "ABORT"}, e = "OOM" => oom'
  PROVE  RewriteInv'
<1>1. rc' = e /\ ~refused'
  BY DEF Stop, RewriteInv, Running
<1>2. FailuresExplained'
  BY <1>1 DEF FailuresExplained
<1> QED BY <1>2, StopStep

(***************************************************************************)
(* A step that changes nothing.                                            *)
(***************************************************************************)
LEMMA NoStep ==
  ASSUME RewriteInv, UNCHANGED <<toolVars, writerVars>>
  PROVE  RewriteInv'
<1>1. /\ UNCHANGED setup /\ UNCHANGED <<setup, collected>> /\ UNCHANGED <<setup, collected, chosen>>
      /\ pc' = pc /\ tool' = tool /\ arg' = arg /\ src' = src /\ rc' = rc /\ disk' = disk
      /\ kept' = kept /\ reservoir' = reservoir /\ i' = i /\ section_open' = section_open
      /\ cur_section' = cur_section /\ refused' = refused /\ overrun' = overrun
      /\ freed' = freed /\ UNCHANGED vars
  BY DEF toolVars, writerVars, setup, collected, chosen
<1>2. /\ err' = err /\ in_section' = in_section /\ cur_type' = cur_type /\ cur_codec' = cur_codec
      /\ sections' = sections /\ tlv' = tlv /\ hmac_key' = hmac_key /\ out' = out /\ oom' = oom
  BY <1>1 DEF vars
<1>3. WriterInv => WriterInv'
  BY <1>1, WriterStep
<1>4. ToolSetup' /\ Collected' /\ Running' /\ Fresh'
  <2>1. ToolSetup' /\ Collected'
    BY <1>1, SetupFrame, CollectedFrame DEF RewriteInv
  <2>2. Running' /\ Fresh'
    BY <1>1, <1>2, <1>3 DEF RewriteInv, Running, Fresh
  <2> QED BY <2>1, <2>2
<1>5. items' = items /\ at' = at /\ Taken' = Taken /\ (CopyAll' <=> CopyAll) /\ Delivered' = Delivered
  BY <1>1, SetupFrame, CollectedFrame
<1>6. WantedPlaces' = WantedPlaces /\ (Chosen' <=> Chosen)
  BY <1>1, ChosenFrame
<1>7. Sampling'
  BY <1>1, <1>5 DEF RewriteInv, Sampling
<1>8. /\ Gone' = Gone /\ SectionsOf(Gone)' = SectionsOf(Gone)
      /\ SecsOf(Gone)' = SecsOf(Gone)
      /\ SectionsOf(WantedPlaces)' = SectionsOf(WantedPlaces)
  <2>1. Gone' = Gone
    BY <1>1, <1>5 DEF Gone
  <2> QED BY <1>1, <1>6, <2>1, SetupFrame
<1>9. Streams(sections)' = Streams(sections)
  BY <1>2
<1>10. Replaying'
  <2>1. /\ SecOf(Taken[i])' = SecOf(Taken[i]) /\ CodecOf(cur_section)' = CodecOf(cur_section)
        /\ StreamOf(Gone, cur_section)' = StreamOf(Gone, cur_section)
    BY <1>1, <1>5, <1>8, SetupFrame
  <2>2. Shut' <=> Shut
    BY <1>1, <1>5, <1>8, <1>9, <2>1 DEF Shut
  <2>3. Opened' <=> Opened
    BY <1>1, <1>2, <1>8, <1>9, <2>1 DEF Opened
  <2>4. Filling' <=> Filling
    BY <1>1, <1>2, <1>8, <1>9, <2>1 DEF Filling
  <2>5. Inside' <=> Inside
    BY <1>1, <1>2, <2>1, <2>3, <2>4 DEF Inside
  <2> QED BY <1>1, <1>2, <1>5, <1>6, <2>2, <2>5 DEF RewriteInv, Replaying
<1>11. Saving'
  <2>1. Layout' = Layout
    BY <1>2 DEF Layout, EmittedHeader, EmittedTable, EmittedMac, EmittedBlobs, BlobRegion, Offset
  <2>2. BlobRegion' = BlobRegion
    BY <1>2 DEF BlobRegion, Offset
  <2> QED BY <1>1, <1>2, <1>6, <1>8, <1>9, <2>1, <2>2 DEF RewriteInv, Saving, Complete
<1>12. Returned'
  <2>1. OutputIsSelection' <=> OutputIsSelection
    BY <1>1, <1>5, ChosenFrame DEF OutputIsSelection, Stored
  <2>2. FailuresExplained' <=> FailuresExplained
    BY <1>1, <1>2, SetupFrame, ChosenFrame DEF FailuresExplained
  <2> QED BY <1>1, <2>1, <2>2 DEF RewriteInv, Returned
<1> QED BY <1>1, <1>4, <1>7, <1>10, <1>11, <1>12 DEF RewriteInv
-----------------------------------------------------------------------------
(***************************************************************************)
(* The walk, an allocation or the codec fails before the replay.           *)
(***************************************************************************)
LEMMA EarlyStops ==
  ASSUME RewriteInv, AbsorbFails \/ AbsorbOom \/ BadCodec \/ CollectOom \/ ChooseOom \/ Abort
  PROVE  RewriteInv'
<1>1. CASE AbsorbFails
  <2>1. PICK e \in Refusals : Stop(e)
    BY <1>1 DEF AbsorbFails
  <2>2. /\ pc # "done" /\ UNCHANGED <<setup, collected, disk>> /\ refused'
    BY <1>1 DEF AbsorbFails
  <2>3. e # "OK" /\ e # "OOM" /\ e # "ABORT"
    BY DEF Refusals
  <2>4. FailuresExplained'
    BY <2>1, <2>2, <2>3 DEF FailuresExplained, Stop, RewriteInv, Running
  <2> QED BY <2>1, <2>2, <2>4, StopStep
<1>2. CASE Abort
  <2>1. /\ pc # "done" /\ UNCHANGED <<setup, collected, disk>> /\ Stop("ABORT")
        /\ refused' = refused /\ overrun' = overrun /\ freed' = freed
        /\ overrun \/ freed # {}
    BY <1>2 DEF Abort, setup, faults
  <2>2. FailuresExplained'
    BY <2>1 DEF FailuresExplained, Stop, RewriteInv, Running
  <2> QED BY <2>1, <2>2, StopStep
<1>3. CASE AbsorbOom \/ BadCodec \/ CollectOom \/ ChooseOom
  <2>1. \E e \in {"INVAL", "OOM"} :
          /\ pc # "done" /\ UNCHANGED <<setup, collected, disk>> /\ Stop(e)
          /\ (e = "OOM" => oom') /\ refused' = refused
    BY <1>3 DEF AbsorbOom, BadCodec, CollectOom, ChooseOom, faults
  <2> QED BY <2>1, PlainStop
<1> QED BY <1>1, <1>2, <1>3

(***************************************************************************)
(* A step of the tool that does not call the writer.                       *)
(***************************************************************************)
LEMMA QuietTool ==
  ASSUME RewriteInv, pc # "done", pc' # "done", UNCHANGED writerVars,
         UNCHANGED <<refused, rc, disk>>
  PROVE  Running'
<1>1. WriterInv /\ UNCHANGED vars
  BY DEF RewriteInv, Running, writerVars
<1>2. WriterInv'
  BY <1>1, WriterStep
<1> QED BY <1>1, <1>2 DEF RewriteInv, Running, vars

(***************************************************************************)
(* The callback of the walk takes the next record if it matches.           *)
(***************************************************************************)
LEMMA CollectStep ==
  ASSUME RewriteInv, Collect
  PROVE  RewriteInv'
<1>1. /\ pc = "absorb" /\ pc' = "absorb" /\ UNCHANGED setup /\ at < Len(Delivered) /\ at' = at + 1
      /\ items' = IF Matches(Delivered[at + 1]) THEN Append(items, at + 1) ELSE items
      /\ UNCHANGED writerVars /\ UNCHANGED <<refused, rc, disk>> /\ section_open' = section_open
  BY DEF Collect, replay, faults
<1>2. Running'
  BY <1>1, QuietTool
<1>3. Fresh'
  BY <1>1 DEF RewriteInv, Fresh, writerVars, vars
<1>4. ToolSetup' /\ Delivered' = Delivered /\ ToolSetup /\ Collected
      /\ \A it : Matches(it)' <=> Matches(it)
  BY <1>1, SetupFrame DEF RewriteInv
<1>5. PICK n \in Nat : n = Len(Delivered) /\ Places = 1 .. n /\ Delivered \in Seq(Got)
  BY <1>4, PlaceTypes, DeliveredTypes DEF ToolSetup, Places
<1>6. PICK x \in 1 .. n : x = at + 1
  BY <1>1, <1>4, <1>5 DEF Collected
<1> DEFINE K == {k \in 1 .. at : Matches(Delivered[k])}
           L == {k \in 1 .. at + 1 : Matches(Delivered[k])}
<1>7. /\ K \subseteq 1 .. n /\ \A k \in K : k < x
      /\ L = IF Matches(Delivered[x]) THEN K \cup {x} ELSE K
  BY <1>4, <1>5, <1>6 DEF Collected
<1>8. Taken = Ascending(K, n) /\ Taken' = Ascending(L, n)
  <2>1. Taken = Ascending(K, n)
    BY <1>5 DEF Taken
  <2>2. \A k : Matches(Delivered[k])' <=> Matches(Delivered[k])
    BY <1>4
  <2>3. {k \in 1 .. at' : Matches(Delivered[k])'} = L
    BY <1>1, <2>2
  <2>4. Taken' = Ascending(L, n)
    BY <1>4, <1>5, <2>3 DEF Taken
  <2> QED BY <2>1, <2>4
<1> HIDE DEF K, L
<1>9. Taken \in Seq(1 .. n) /\ Taken' = IF Matches(Delivered[x]) THEN Append(Taken, x) ELSE Taken
  BY <1>7, <1>8, AscendingLists, AscendingAdd
<1>12. items' = Taken'
  BY <1>1, <1>4, <1>6, <1>9 DEF Collected
<1>13. at' \in 0 .. n
  BY <1>1, <1>6
<1>14. Collected'
  BY <1>4, <1>5, <1>12, <1>13 DEF Collected
<1> QED BY <1>1, <1>2, <1>3, <1>4, <1>14
       DEF RewriteInv, Sampling, Replaying, Saving, Returned
(***************************************************************************)
(* No records make no sections.                                            *)
(***************************************************************************)
LEMMA SectionsNone ==
  ASSUME Loaded
  PROVE  SectionsOf({}) = <<>> /\ Streams(<<>>) = <<>> /\ SecsOf({}) = {}
<1>1. Len(src) \in Nat
  BY PlaceTypes
<1>2. SecsOf({}) = {}
  BY DEF SecsOf
<1>3. Ascending({}, Len(src)) = <<>>
  BY <1>1, AscendingNone
<1>4. SectionsOf({}) = <<>>
  <2>1. SectionsOf({}) = [f \in DOMAIN <<>> |-> SectionAt({}, <<>>[f])]
    BY <1>2, <1>3 DEF SectionsOf, SectionList
  <2>2. DOMAIN <<>> = {} /\ \A f \in {} : FALSE
    OBVIOUS
  <2> QED BY <2>1, <2>2
<1>5. Streams(<<>>) = <<>>
  BY DEF Streams
<1> QED BY <1>2, <1>4, <1>5

(***************************************************************************)
(* The replay begins.                                                      *)
(***************************************************************************)
LEMMA ReplayBegins ==
  ASSUME RewriteInv, pc \in {"absorb", "sample"}, pc' = "replay", Chosen', i' = 1,
         UNCHANGED <<setup, collected, section_open, refused, rc, disk, writerVars>>
  PROVE  RewriteInv'
<1>1. /\ UNCHANGED setup /\ UNCHANGED <<setup, collected>> /\ UNCHANGED writerVars
      /\ section_open' = section_open /\ UNCHANGED <<refused, rc, disk>>
  OBVIOUS
<1>2. ToolSetup' /\ Collected' /\ items' = items /\ Taken' = Taken
  BY <1>1, SetupFrame, CollectedFrame DEF RewriteInv
<1>3. Running'
  BY <1>1, QuietTool
<1>4. section_open = FALSE /\ in_section' = FALSE /\ sections' = <<>>
  BY <1>1 DEF RewriteInv, Fresh, writerVars, vars
<1>5. in_section' = section_open'
  BY <1>1, <1>4
<1>6. Gone' = {}
  <2>1. kept' \subseteq 1 .. Len(items')
    BY DEF Chosen
  <2>2. Len(items) \in Nat
    BY TakenTypes DEF RewriteInv
  <2>3. ASSUME NEW l \in kept' PROVE ~(l < i')
    <3>1. l \in 1 .. Len(items)
      BY <1>2, <2>1
    <3> QED BY <2>2, <3>1
  <2> QED BY <2>3 DEF Gone
<1>7. Shut'
  <2>1. SectionsOf(Gone)' = <<>>
    <3>1. SectionsOf({})' = SectionsOf({})
      BY <1>1, SetupFrame
    <3> QED BY <1>6, <3>1, SectionsNone DEF RewriteInv, ToolSetup
  <2>2. Streams(sections)' = <<>>
    BY <1>4, SectionsNone DEF RewriteInv, ToolSetup
  <2> QED BY <1>6, <2>1, <2>2 DEF Shut
<1>8. i' \in 1 .. Len(items') + 1
  BY <1>2, TakenTypes DEF RewriteInv
<1>9. Replaying'
  BY <1>1, <1>4, <1>5, <1>7, <1>8 DEF Replaying
<1> QED BY <1>1, <1>2, <1>3, <1>9 DEF RewriteInv, Fresh, Sampling, Saving, Returned
(***************************************************************************)
(* A tool other than select has collected every record.                    *)
(***************************************************************************)
LEMMA AllTaken ==
  ASSUME ToolSetup, Collected, at = Len(Delivered), tool # "select"
  PROVE  /\ Len(items) = Len(Delivered) /\ Places = 1 .. Len(items)
         /\ \A j \in 1 .. Len(items) : Taken[j] = j /\ items[j] = j
<1>1. PICK n \in Nat : n = Len(Delivered) /\ Places = 1 .. n
  BY PlaceTypes DEF ToolSetup, Places
<1>2. \A it : Matches(it)
  BY DEF Matches
<1>3. {k \in 1 .. at : Matches(Delivered[k])} = 1 .. n
  BY <1>1, <1>2
<1>4. Taken = Ascending(1 .. n, n)
  BY <1>1, <1>3 DEF Taken
<1>5. n \in 0 .. n
  OBVIOUS
<1>6. Len(Taken) = n /\ \A j \in 1 .. n : Taken[j] = j
  BY <1>4, <1>5, AscendingAll
<1>7. Len(items) = Len(Taken) /\ \A j \in 1 .. Len(items) : items[j] = Taken[j]
  BY TakenTypes
<1> QED BY <1>1, <1>6, <1>7

(***************************************************************************)
(* The choice made at the end of the walk is the one promised.             *)
(***************************************************************************)
LEMMA AbsorbedChooses ==
  ASSUME RewriteInv, Absorbed, pc' = "replay"
  PROVE  Chosen'
<1>1. /\ UNCHANGED <<setup, collected>> /\ at = Len(Delivered)
      /\ tool' = tool /\ arg' = arg /\ seen' = seen
      /\ \/ tool = "dedup" /\ kept' = DedupKept
         \/ tool # "dedup" /\ (tool = "sample" => CopyAll) /\ kept' = DOMAIN items
  BY DEF Absorbed, setup, faults
<1>2. /\ Delivered' = Delivered /\ Taken' = Taken /\ items' = items /\ at' = at
      /\ (CopyAll' <=> CopyAll)
  BY <1>1, SetupFrame, CollectedFrame
<1>3. ToolSetup /\ Collected /\ tool \in {"repack", "sign", "select", "dedup", "sample"}
  BY RewriteConstants DEF RewriteInv, ToolSetup
<1>4. PICK n \in Nat : n = Len(Delivered) /\ Places = 1 .. n /\ DOMAIN Delivered = 1 .. n
  <2>1. Loaded
    BY <1>3 DEF ToolSetup
  <2>2. Len(Delivered) \in Nat /\ DOMAIN Delivered = Places
    BY <2>1, PlaceTypes, WantedAre
  <2> QED BY <2>2 DEF Places
<1>5. PICK m \in Nat : m = Len(items) /\ DOMAIN items = 1 .. m
  BY <1>3, TakenTypes
<1>6. \A k : k \in WantedPlaces' <=> k \in 1 .. n /\ Wanted(k)'
  BY <1>2, <1>4 DEF WantedPlaces
<1>7. CASE tool = "select"
  <2>1. kept' = 1 .. m
    BY <1>1, <1>5, <1>7
  <2>2. \A k : Wanted(k)' <=> Matches(Delivered[k])
    BY <1>1, <1>2, <1>7 DEF Wanted, Matches
  <2>3. /\ \A j \in 1 .. m : Taken[j] \in 1 .. n /\ Matches(Delivered[Taken[j]])
        /\ \A x \in 1 .. n : Matches(Delivered[x]) => \E j \in 1 .. m : Taken[j] = x
    BY <1>1, <1>3, <1>4, <1>5, TakenTypes
  <2>4. {Taken[j] : j \in kept'} = WantedPlaces'
    BY <1>6, <2>1, <2>2, <2>3
  <2> QED BY <1>1, <1>2, <1>5, <1>7, <2>1, <2>4 DEF Chosen
<1>8. CASE tool # "select"
  <2>1. m = n /\ \A j \in 1 .. n : Taken[j] = j /\ items[j] = j
    BY <1>1, <1>3, <1>4, <1>5, <1>8, AllTaken
  <2>2. kept' \subseteq 1 .. n /\ \A k \in 1 .. n : k \in kept' <=> Wanted(k)'
    <3>1. CASE tool = "dedup"
      <4>1. DedupKept = {k \in 1 .. n :
                           \A j \in 1 .. k - 1 : ~Equal(seen[items[j]], seen[items[k]])}
        <5>1. PICK its : its = items /\ Len(its) \in Nat
          BY <1>5
        <5>2. DedupKept = {k \in 1 .. Len(its) :
                             \A j \in 1 .. k - 1 : ~Equal(seen[its[j]], seen[its[k]])}
          BY <5>1, DedupKeepsFirsts
        <5> QED BY <1>5, <2>1, <5>1, <5>2
      <4>2. \A k : Wanted(k)' <=> \A j \in 1 .. k - 1 : ~Equal(seen[j], seen[k])
        BY <1>1, <1>2, <3>1 DEF Wanted
      <4>3. \A k \in 1 .. n : \A j \in 1 .. k - 1 : items[j] = j /\ items[k] = k
        BY <2>1
      <4>4. kept' = DedupKept
        BY <1>1, <3>1
      <4> QED BY <4>1, <4>2, <4>3, <4>4
    <3>2. CASE tool # "dedup"
      <4>1. kept' = 1 .. n
        BY <1>1, <1>5, <2>1, <3>2
      <4> QED BY <1>1, <1>3, <1>8, <3>2, <4>1 DEF Wanted
    <3> QED BY <3>1, <3>2
  <2>3. {Taken[j] : j \in kept'} = kept'
    <3>1. \A j \in kept' : Taken[j] = j
      BY <2>1, <2>2
    <3> QED BY <3>1
  <2>4. WantedPlaces' = kept'
    BY <1>6, <2>2
  <2>5. tool' = "sample" => CopyAll'
    BY <1>1, <1>2
  <2>6. at' = Len(Delivered') /\ kept' \subseteq 1 .. Len(items')
    BY <1>1, <1>2, <1>5, <2>1, <2>2
  <2> QED BY <1>2, <2>3, <2>4, <2>5, <2>6 DEF Chosen
<1> QED BY <1>7, <1>8

(***************************************************************************)
(* The walk ends: the tool chooses, or sample fills its reservoir.         *)
(***************************************************************************)
LEMMA AbsorbedStep ==
  ASSUME RewriteInv, Absorbed
  PROVE  RewriteInv'
<1>1. /\ pc = "absorb" /\ pc' \in {"replay", "sample"} /\ at = Len(Delivered)
      /\ UNCHANGED <<setup, collected, section_open, refused, rc, disk, writerVars>>
      /\ i' = IF pc' = "sample" THEN arg ELSE 1
      /\ UNCHANGED setup /\ UNCHANGED <<setup, collected>> /\ UNCHANGED writerVars
      /\ section_open' = section_open /\ UNCHANGED <<refused, rc, disk>> /\ tool' = tool /\ arg' = arg
  BY DEF Absorbed, setup, faults
<1>2. CASE pc' = "replay"
  BY <1>1, <1>2, AbsorbedChooses, ReplayBegins
<1>3. CASE pc' = "sample"
  <2>1. tool = "sample" /\ ~CopyAll /\ reservoir' = [k \in 0 .. arg - 1 |-> k] /\ i' = arg
    BY <1>1, <1>3 DEF Absorbed
  <2>2. /\ ToolSetup' /\ Collected' /\ items' = items /\ at' = at /\ (CopyAll' <=> CopyAll)
        /\ Delivered' = Delivered
    BY <1>1, SetupFrame, CollectedFrame DEF RewriteInv
  <2>3. Running'
    BY <1>1, <1>3, QuietTool
  <2>4. Fresh'
    BY <1>1 DEF RewriteInv, Fresh, writerVars, vars
  <2>5. arg \in Nat /\ Len(items) \in Nat /\ arg < Len(items)
    <3>1. arg \in Nat
      BY <2>1, RewriteConstants DEF RewriteInv, ToolSetup, Arguments
    <3>2. Len(items) \in Nat
      BY TakenTypes DEF RewriteInv
    <3> QED BY <2>1, <3>1, <3>2 DEF CopyAll
  <2>6. Sampling'
    <3>1. /\ DOMAIN reservoir' = 0 .. arg - 1 /\ i' \in arg .. Len(items)
          /\ \A k \in 0 .. arg - 1 : reservoir'[k] = k /\ reservoir'[k] \in 0 .. i' - 1
      BY <2>1, <2>5
    <3> QED BY <1>1, <2>1, <2>2, <3>1 DEF Sampling
  <2> QED BY <1>3, <2>2, <2>3, <2>4, <2>6 DEF RewriteInv, Replaying, Saving, Returned
<1> QED BY <1>1, <1>2, <1>3
(***************************************************************************)
(* The draw for record i: the n slots keep holding different records.      *)
(***************************************************************************)
LEMMA DrawStep ==
  ASSUME RewriteInv, Draw
  PROVE  RewriteInv'
<1>1. /\ pc = "sample" /\ pc' = "sample" /\ i < Len(items) /\ i' = i + 1
      /\ UNCHANGED setup /\ UNCHANGED <<setup, collected>> /\ UNCHANGED writerVars
      /\ section_open' = section_open /\ UNCHANGED <<refused, rc, disk>> /\ tool' = tool /\ arg' = arg
  BY DEF Draw, setup, faults
<1>2. PICK j \in 0 .. i :
        reservoir' = IF j < arg THEN [reservoir EXCEPT ![j] = i] ELSE reservoir
  BY DEF Draw
<1>3. /\ ToolSetup' /\ Collected' /\ items' = items /\ at' = at /\ (CopyAll' <=> CopyAll)
      /\ Delivered' = Delivered
  BY <1>1, SetupFrame, CollectedFrame DEF RewriteInv
<1>4. Running'
  BY <1>1, QuietTool
<1>5. Fresh'
  BY <1>1 DEF RewriteInv, Fresh, writerVars, vars
<1>6. /\ tool = "sample" /\ ~CopyAll /\ at = Len(Delivered) /\ i \in arg .. Len(items)
      /\ DOMAIN reservoir = 0 .. arg - 1
      /\ \A k \in 0 .. arg - 1 : reservoir[k] \in 0 .. i - 1
      /\ \A k, l \in 0 .. arg - 1 : reservoir[k] = reservoir[l] => k = l
  BY <1>1 DEF RewriteInv, Sampling
<1>7. arg \in Nat /\ Len(items) \in Nat /\ i \in Nat
  <2>1. arg \in Nat
    BY <1>6, RewriteConstants DEF RewriteInv, ToolSetup, Arguments
  <2>2. Len(items) \in Nat
    BY TakenTypes DEF RewriteInv
  <2> QED BY <1>6, <2>1, <2>2
<1>8. /\ DOMAIN reservoir' = 0 .. arg - 1
      /\ \A k \in 0 .. arg - 1 : reservoir'[k] = IF k = j THEN i ELSE reservoir[k]
  BY <1>2, <1>6, <1>7
<1>9. /\ \A k \in 0 .. arg - 1 : reservoir'[k] \in 0 .. i
      /\ \A k, l \in 0 .. arg - 1 : reservoir'[k] = reservoir'[l] => k = l
  <2>1. \A k \in 0 .. arg - 1 : reservoir[k] \in Nat /\ reservoir[k] < i
    BY <1>6, <1>7
  <2>2. ASSUME NEW k \in 0 .. arg - 1 PROVE reservoir'[k] \in 0 .. i
    <3>1. CASE k = j
      BY <1>7, <1>8, <3>1
    <3>2. CASE k # j
      BY <1>7, <1>8, <2>1, <3>2
    <3> QED BY <3>1, <3>2
  <2>3. ASSUME NEW k \in 0 .. arg - 1, NEW l \in 0 .. arg - 1, reservoir'[k] = reservoir'[l]
        PROVE  k = l
    <3>1. reservoir[k] # i /\ reservoir[l] # i
      BY <1>7, <2>1
    <3>2. reservoir[k] = reservoir[l] => k = l
      BY <1>6
    <3> QED BY <1>8, <2>3, <3>1, <3>2
  <2> QED BY <2>2, <2>3
<1>10. i' \in arg .. Len(items) /\ 0 .. i' - 1 = 0 .. i
  BY <1>1, <1>6, <1>7
<1>11. Sampling'
  BY <1>1, <1>3, <1>6, <1>8, <1>9, <1>10 DEF Sampling
<1> QED BY <1>1, <1>3, <1>4, <1>5, <1>11 DEF RewriteInv, Replaying, Saving, Returned

(***************************************************************************)
(* The first n slots of f hold different ones of m records, S in all.      *)
(***************************************************************************)
Slots(f, n, m, S) ==
  /\ \A k \in 0 .. n - 1 : f[k] \in 0 .. m - 1 /\ f[k] + 1 \in S
  /\ \A k, l \in 0 .. n - 1 : f[k] = f[l] => k = l
  /\ \A x \in S : \E k \in 0 .. n - 1 : x = f[k] + 1

(***************************************************************************)
(* The reservoir holds n different records.                                *)
(***************************************************************************)
LEMMA DrawnCount ==
  ASSUME NEW n \in Nat, NEW m \in Nat, NEW f, NEW S, Slots(f, n, m, S)
  PROVE  S \subseteq 1 .. m /\ Cardinality(S) = n
<1> DEFINE g == [k \in 1 .. n |-> f[k - 1] + 1]
<1>0. /\ \A k \in 0 .. n - 1 : f[k] \in 0 .. m - 1 /\ f[k] + 1 \in S
      /\ \A k, l \in 0 .. n - 1 : f[k] = f[l] => k = l
      /\ \A x \in S : \E k \in 0 .. n - 1 : x = f[k] + 1
  BY DEF Slots
<1>1. \A k \in 0 .. n - 1 : f[k] \in Nat /\ f[k] < m
  BY <1>0
<1>2. S \subseteq 1 .. m
  BY <1>0, <1>1
<1>3. \A k \in 1 .. n : k - 1 \in 0 .. n - 1
  OBVIOUS
<1>4. g \in [1 .. n -> S]
  BY <1>0, <1>3
<1>5. \A k, l \in 1 .. n : g[k] = g[l] => k = l
  <2> SUFFICES ASSUME NEW k \in 1 .. n, NEW l \in 1 .. n, g[k] = g[l] PROVE k = l
    OBVIOUS
  <2>1. f[k - 1] = f[l - 1]
    BY <1>1, <1>3
  <2> QED BY <1>0, <1>3, <2>1
<1>6. \A x \in S : \E k \in 1 .. n : g[k] = x
  <2> SUFFICES ASSUME NEW k \in 0 .. n - 1 PROVE \E l \in 1 .. n : g[l] = f[k] + 1
    BY <1>0
  <2>1. k + 1 \in 1 .. n /\ g[k + 1] = f[k] + 1
    OBVIOUS
  <2> QED BY <2>1
<1> HIDE DEF g
<1>7. g \in Bijection(1 .. n, S)
  BY <1>4, <1>5, <1>6 DEF Bijection, Injection, Surjection, IsInjective
<1>8. Cardinality(S) = n
  BY <1>7, FS_CountingElements DEF ExistsBijection
<1> QED BY <1>2, <1>8

(***************************************************************************)
(* All records are drawn for: the reservoir is the choice.                 *)
(***************************************************************************)
LEMMA DrawnStep ==
  ASSUME RewriteInv, Drawn
  PROVE  RewriteInv'
<1>1. /\ pc = "sample" /\ pc' = "replay" /\ i = Len(items) /\ i' = 1
      /\ UNCHANGED <<setup, collected, section_open, refused, rc, disk, writerVars>>
      /\ kept' = {reservoir[k] + 1 : k \in 0 .. arg - 1}
      /\ UNCHANGED <<setup, collected>> /\ tool' = tool /\ arg' = arg
  BY DEF Drawn, setup, faults
<1>2. /\ tool = "sample" /\ at = Len(Delivered) /\ ~CopyAll
      /\ \A k \in 0 .. arg - 1 : reservoir[k] \in 0 .. i - 1
      /\ \A k, l \in 0 .. arg - 1 : reservoir[k] = reservoir[l] => k = l
  BY <1>1 DEF RewriteInv, Sampling
<1>3. arg \in Nat /\ Len(items) \in Nat
  <2>1. arg \in Nat
    BY <1>2, RewriteConstants DEF RewriteInv, ToolSetup, Arguments
  <2> QED BY <2>1, TakenTypes DEF RewriteInv
<1>4. kept' \subseteq 1 .. Len(items) /\ Cardinality(kept') = arg
  <2>1. PICK n, m, f, S : /\ n = arg /\ m = Len(items) /\ n \in Nat /\ m \in Nat
                          /\ f = reservoir /\ S = kept'
    BY <1>3
  <2>2. Slots(f, n, m, S)
    BY <1>1, <1>2, <2>1 DEF Slots
  <2>3. S \subseteq 1 .. m /\ Cardinality(S) = n
    BY <2>1, <2>2, DrawnCount
  <2> QED BY <2>1, <2>3
<1>5. /\ Delivered' = Delivered /\ Taken' = Taken /\ items' = items /\ at' = at
  BY <1>1, SetupFrame, CollectedFrame
<1>6. /\ Len(items) = Len(Delivered) /\ Places = 1 .. Len(items)
      /\ \A j \in 1 .. Len(items) : Taken[j] = j
  BY <1>2, AllTaken DEF RewriteInv
<1>7. DOMAIN Delivered = Places
  BY WantedAre DEF RewriteInv, ToolSetup
<1>8. WantedPlaces' = kept'
  <2>1. \A k : Wanted(k)' <=> k \in kept'
    BY <1>1, <1>2 DEF Wanted
  <2> QED BY <1>4, <1>5, <1>6, <1>7, <2>1 DEF WantedPlaces
<1>9. {Taken[j] : j \in kept'} = kept'
  BY <1>4, <1>6
<1>10. Chosen'
  BY <1>1, <1>2, <1>4, <1>5, <1>8, <1>9 DEF Chosen
<1> QED BY <1>1, <1>10, ReplayBegins
-----------------------------------------------------------------------------
(***************************************************************************)
(* What the replay has added is a first part of what the tool promises.    *)
(***************************************************************************)
LEMMA GoneFacts ==
  ASSUME RewriteInv, pc = "replay"
  PROVE  /\ Gone \subseteq WantedPlaces /\ WantedPlaces \subseteq Places
         /\ i \in kept => /\ Taken[i] \in WantedPlaces /\ \A v \in Gone : v < Taken[i]
                          /\ \A w \in WantedPlaces : w \in Gone \/ Taken[i] <= w
         /\ i > Len(items) => Gone = WantedPlaces
<1>1. PICK m \in Nat : m = Len(items)
  BY TakenTypes DEF RewriteInv
<1>2. /\ kept \subseteq 1 .. m /\ i \in 1 .. m + 1 /\ {Taken[j] : j \in kept} = WantedPlaces
  BY <1>1 DEF RewriteInv, Replaying, Chosen
<1>3. \A a, b \in 1 .. m : a < b => Taken[a] < Taken[b]
  BY <1>1, TakenTypes DEF RewriteInv
<1>4. \A a \in 1 .. m : Taken[a] \in Int
  <2>1. Places \subseteq Int
    BY PlaceTypes DEF RewriteInv, ToolSetup, Places
  <2> QED BY <1>1, <2>1, TakenTypes DEF RewriteInv
<1>5. WantedPlaces \subseteq Places
  BY WantedAre DEF RewriteInv, ToolSetup
<1>6. \A v : v \in Gone <=> \E j \in kept : j < i /\ v = Taken[j]
  BY DEF Gone
<1>7. \A v : v \in WantedPlaces <=> \E j \in kept : v = Taken[j]
  BY <1>2
<1>8. Gone \subseteq WantedPlaces
  BY <1>6, <1>7
<1>9. ASSUME i \in kept
      PROVE  /\ Taken[i] \in WantedPlaces /\ \A v \in Gone : v < Taken[i]
             /\ \A w \in WantedPlaces : w \in Gone \/ Taken[i] <= w
  <2>1. Taken[i] \in WantedPlaces
    BY <1>7, <1>9
  <2>2. \A v \in Gone : v < Taken[i]
    BY <1>2, <1>3, <1>6, <1>9
  <2>3. ASSUME NEW w \in WantedPlaces, w \notin Gone PROVE Taken[i] <= w
    <3>1. PICK j \in kept : w = Taken[j]
      BY <1>7
    <3>2. ~(j < i) /\ j \in 1 .. m /\ i \in 1 .. m
      BY <1>2, <1>6, <1>9, <2>3, <3>1
    <3>3. j = i \/ i < j
      BY <3>2
    <3> QED BY <1>3, <1>4, <3>1, <3>2, <3>3
  <2> QED BY <2>1, <2>2, <2>3
<1>10. ASSUME i > m PROVE Gone = WantedPlaces
  <2>1. \A j \in kept : j < i
    BY <1>2, <1>10
  <2> QED BY <1>6, <1>7, <2>1
<1> QED BY <1>1, <1>5, <1>8, <1>9, <1>10

(***************************************************************************)
(* Record i, as collected and as delivered.                                *)
(***************************************************************************)
LEMMA ItemFacts ==
  ASSUME RewriteInv, pc = "replay", i \in kept
  PROVE  /\ Taken[i] \in Places /\ i \in 1 .. Len(items) /\ items[i] = Taken[i]
         /\ Copy(i).section_index = SecOf(Taken[i]) /\ SecOf(Taken[i]) \in 1 .. Len(src)
         /\ Copy(i).section_type = src[SecOf(Taken[i])].type
         /\ TargetCodec(Copy(i)) = CodecOf(SecOf(Taken[i]))
         /\ Rewritten(held[items[i]]) \in Items
         /\ Tlv(Taken[i]) = [tag |-> Rewritten(held[items[i]]).tag,
                             plen |-> Rewritten(held[items[i]]).plen]
<1>1. i \in 1 .. Len(items)
  BY DEF RewriteInv, Replaying, Chosen
<1>2. PICK p \in Places : p = Taken[i] /\ items[i] = p /\ Copy(i) = Delivered[p]
  BY <1>1, TakenTypes DEF RewriteInv
<1>3. SecOf(p) \in 1 .. Len(src) /\ Rewritten(held[p]) \in Items
  BY PlaceTypes DEF RewriteInv, ToolSetup
<1>4. /\ Delivered[p].section_type = src[Delivered[p].section_index].type
      /\ Delivered[p].codec_id = src[Delivered[p].section_index].codec_id
  BY DeliveredTypes DEF RewriteInv, ToolSetup, Places
<1>5. TargetCodec(Copy(i)) = CodecOf(SecOf(p))
  BY <1>2, <1>4 DEF TargetCodec, CodecOf, SecOf
<1>6. Tlv(p) = [tag |-> Rewritten(held[items[i]]).tag, plen |-> Rewritten(held[items[i]]).plen]
  BY <1>2 DEF Tlv
<1> QED BY <1>1, <1>2, <1>3, <1>4, <1>5, <1>6 DEF SecOf

(***************************************************************************)
(* A record the replay has passed is gone if it was chosen.                *)
(***************************************************************************)
LEMMA GoneNext ==
  ASSUME RewriteInv, pc = "replay", UNCHANGED <<setup, collected, chosen>>
  PROVE  /\ i' = i => Gone' = Gone
         /\ i' = i + 1 /\ i \notin kept => Gone' = Gone
         /\ i' = i + 1 /\ i \in kept => Gone' = Gone \cup {Taken[i]}
<1>1. kept' = kept /\ Taken' = Taken
  BY CollectedFrame DEF chosen
<1>2. i \in Nat /\ \A j \in kept : j \in Nat
  <2>1. Len(items) \in Nat
    BY TakenTypes DEF RewriteInv
  <2> QED BY <2>1 DEF RewriteInv, Replaying, Chosen
<1>3. \A v : v \in Gone' <=> \E j \in kept : j < i' /\ v = Taken[j]
  BY <1>1 DEF Gone
<1>4. \A v : v \in Gone <=> \E j \in kept : j < i /\ v = Taken[j]
  BY DEF Gone
<1>5. \A j \in kept : j < i + 1 <=> j < i \/ j = i
  BY <1>2
<1>6. ASSUME i' = i PROVE Gone' = Gone
  BY <1>3, <1>4, <1>6
<1>7. ASSUME i' = i + 1, i \notin kept PROVE Gone' = Gone
  BY <1>3, <1>4, <1>5, <1>7
<1>8. ASSUME i' = i + 1, i \in kept PROVE Gone' = Gone \cup {Taken[i]}
  BY <1>3, <1>4, <1>5, <1>8
<1> QED BY <1>6, <1>7, <1>8

(***************************************************************************)
(* A step of the replay after which it goes on.                            *)
(***************************************************************************)
LEMMA ReplayGoesOn ==
  ASSUME RewriteInv, pc = "replay", pc' = "replay", UNCHANGED <<setup, collected, chosen>>,
         UNCHANGED <<refused, rc, disk>>, WriterInv', err' = "OK", ~oom',
         section_open' \in BOOLEAN, in_section' = section_open',
         i' = i \/ (i' = i + 1 /\ More),
         section_open' => Inside', ~section_open' => Shut'
  PROVE  RewriteInv'
<1>1. UNCHANGED setup /\ UNCHANGED <<setup, collected>>
  OBVIOUS
<1>2. ToolSetup' /\ Collected' /\ items' = items
  BY <1>1, SetupFrame, CollectedFrame DEF RewriteInv
<1>3. Running'
  BY DEF RewriteInv, Running
<1>4. i' \in 1 .. Len(items') + 1
  <2>1. i \in 1 .. Len(items) + 1 /\ Len(items) \in Nat
    BY TakenTypes DEF RewriteInv, Replaying
  <2> QED BY <1>2, <2>1 DEF More
<1>5. Chosen'
  BY ChosenFrame DEF RewriteInv, Replaying
<1>6. Replaying'
  BY <1>4, <1>5 DEF Replaying
<1> QED BY <1>2, <1>3, <1>6 DEF RewriteInv, Fresh, Sampling, Saving, Returned
(***************************************************************************)
(* A record that was not chosen is passed over.                            *)
(***************************************************************************)
LEMMA SkipStep ==
  ASSUME RewriteInv, Skip
  PROVE  RewriteInv'
<1>1. /\ pc = "replay" /\ pc' = "replay" /\ More /\ i \notin kept /\ i' = i + 1
      /\ UNCHANGED setup /\ UNCHANGED <<setup, collected>> /\ UNCHANGED <<setup, collected, chosen>>
      /\ UNCHANGED <<refused, rc, disk>> /\ UNCHANGED writerVars
      /\ section_open' = section_open /\ cur_section' = cur_section /\ src' = src
  BY DEF Skip, setup, faults
<1>2. /\ in_section' = in_section /\ cur_type' = cur_type /\ cur_codec' = cur_codec
      /\ sections' = sections /\ tlv' = tlv
  BY <1>1 DEF writerVars, vars
<1>3. Running' /\ section_open \in BOOLEAN /\ in_section = section_open
  BY <1>1, QuietTool DEF RewriteInv, Replaying
<1>4. Gone' = Gone
  BY <1>1, GoneNext
<1>5. /\ SectionsOf(Gone)' = SectionsOf(Gone) /\ SecsOf(Gone)' = SecsOf(Gone)
      /\ StreamOf(Gone, cur_section)' = StreamOf(Gone, cur_section)
      /\ CodecOf(cur_section)' = CodecOf(cur_section) /\ Streams(sections)' = Streams(sections)
  BY <1>1, <1>2, <1>4, SetupFrame
<1>6. ASSUME section_open PROVE Inside'
  <2>1. Inside /\ ~Opened
    BY <1>1, <1>6 DEF RewriteInv, Replaying, Opened
  <2>2. Filling
    BY <2>1 DEF Inside
  <2>3. Filling'
    BY <1>1, <1>2, <1>5, <2>2 DEF Filling
  <2> QED BY <1>1, <1>2, <1>5, <2>1, <2>3 DEF Inside
<1>7. ASSUME ~section_open PROVE Shut'
  <2>1. Shut
    BY <1>1, <1>7 DEF RewriteInv, Replaying
  <2>2. Len(items) \in Nat /\ i \in Nat
    BY <1>1, TakenTypes DEF RewriteInv, Replaying
  <2>3. Gone = {}
    BY <1>1, <2>1, <2>2 DEF Shut, More
  <2> QED BY <1>4, <1>5, <2>1, <2>3 DEF Shut
<1> QED BY <1>1, <1>2, <1>3, <1>6, <1>7, ReplayGoesOn DEF Running

(***************************************************************************)
(* Every record the tool promises of the section that ends is in it.       *)
(***************************************************************************)
LEMMA ClosingFacts ==
  ASSUME RewriteInv, pc = "replay", ClosesNow, Filling
  PROVE  /\ InSec(WantedPlaces, cur_section) = InSec(Gone, cur_section)
         /\ i > Len(items) \/ (i \in kept /\ SecOf(Taken[i]) \notin SecsOf(Gone))
<1>1. /\ cur_section \in SecsOf(Gone) /\ \A s \in SecsOf(Gone) : s <= cur_section
  BY DEF Filling
<1>2. /\ Gone \subseteq WantedPlaces /\ WantedPlaces \subseteq Places
      /\ i \in kept => /\ Taken[i] \in WantedPlaces /\ \A v \in Gone : v < Taken[i]
                       /\ \A w \in WantedPlaces : w \in Gone \/ Taken[i] <= w
      /\ i > Len(items) => Gone = WantedPlaces
  BY GoneFacts
<1>3. i \in Nat /\ Len(items) \in Nat
  BY TakenTypes DEF RewriteInv, Replaying
<1>4. CASE i > Len(items)
  BY <1>2, <1>4 DEF InSec
<1>5. CASE ~(i > Len(items))
  <2>1. i \in kept /\ Copy(i).section_index # cur_section
    BY <1>3, <1>5 DEF ClosesNow, More
  <2>2. PICK x \in Places : x = Taken[i] /\ SecOf(x) # cur_section
    BY <2>1, ItemFacts
  <2>3. PICK v \in Gone : SecOf(v) = cur_section
    BY <1>1 DEF SecsOf
  <2>4. \A p, r \in Places : p < r => SecOf(p) <= SecOf(r)
    BY DeliveredTypes DEF RewriteInv, ToolSetup, SecOf, Places
  <2>5. \A p \in Places : p \in Int /\ SecOf(p) \in Int
    BY PlaceTypes DEF RewriteInv, ToolSetup, Places
  <2>6. v \in Places /\ v < x
    BY <1>2, <2>1, <2>2
  <2>7. SecOf(x) > cur_section
    BY <2>2, <2>3, <2>4, <2>5, <2>6
  <2>8. SecOf(x) \notin SecsOf(Gone)
    BY <1>1, <2>3, <2>5, <2>6, <2>7
  <2>9. ASSUME NEW w \in WantedPlaces, w \notin Gone PROVE SecOf(w) # cur_section
    <3>1. x <= w /\ w \in Places
      BY <1>2, <2>1, <2>2, <2>9
    <3>2. SecOf(x) <= SecOf(w)
      BY <2>4, <2>5, <3>1
    <3> QED BY <2>3, <2>5, <2>6, <2>7, <3>1, <3>2
  <2>10. InSec(WantedPlaces, cur_section) = InSec(Gone, cur_section)
    BY <1>2, <2>9 DEF InSec
  <2> QED BY <2>1, <2>2, <2>8, <2>10
<1> QED BY <1>4, <1>5
(***************************************************************************)
(* The section that is open ends, or cannot be encoded.                    *)
(***************************************************************************)
LEMMA CloseStep ==
  ASSUME RewriteInv, CloseSection
  PROVE  RewriteInv'
<1>1. /\ pc = "replay" /\ ClosesNow /\ section_open
      /\ UNCHANGED setup /\ UNCHANGED <<setup, collected>> /\ UNCHANGED <<setup, collected, chosen>>
      /\ UNCHANGED <<setup, collected, disk>>
      /\ i' = i /\ cur_section' = cur_section /\ disk' = disk /\ refused' = refused /\ src' = src
  BY DEF CloseSection, ClosesNow, setup, faults
<1>2. /\ WriterInv /\ Inside /\ err = "OK" /\ ~oom
  BY <1>1 DEF RewriteInv, Running, Replaying
<1>3. tlv # <<>> => Filling
  BY <1>2 DEF Inside, Opened
<1>4. Gone' = Gone
  BY <1>1, GoneNext
<1>5. CASE End /\ section_open' = FALSE /\ UNCHANGED <<pc, rc>>
  <2>1. /\ tlv # <<>>
        /\ Streams(sections)' = Append(Streams(sections), [type |-> cur_type, stream |-> tlv])
    BY <1>2, <1>5, EndStreams
  <2>2. Filling
    BY <1>3, <2>1
  <2>3. i > Len(items) \/ (i \in kept /\ SecOf(Taken[i]) \notin SecsOf(Gone))
    BY <1>1, <2>2, ClosingFacts
  <2>4. /\ SectionsOf(Gone)' = SectionsOf(Gone) /\ SecsOf(Gone)' = SecsOf(Gone)
        /\ SecOf(Taken[i])' = SecOf(Taken[i]) /\ items' = items /\ kept' = kept
    <3>1. Taken' = Taken /\ items' = items /\ kept' = kept
      BY <1>1, CollectedFrame DEF chosen
    <3> QED BY <1>1, <1>4, <3>1, SetupFrame
  <2>5. Streams(sections)' = SectionsOf(Gone)'
    BY <2>1, <2>2, <2>4 DEF Filling
  <2>6. Shut'
    BY <1>1, <2>3, <2>4, <2>5 DEF Shut
  <2>7. WriterInv'
    <3>1. PICK s \in Closed : sections' = Append(sections, s)
      BY <1>2, <1>5, EndCloses
    <3>2. sections' \in Seq(Closed)
      BY <1>2, <3>1 DEF WriterInv, WriterTypes
    <3>3. WriterTypes'
      BY <1>2, <1>5, <3>2 DEF End, buffer, NoError, WriterInv, WriterTypes
    <3> QED BY <1>2, <1>5, <3>3, QuietStep DEF End
  <2>8. err' = "OK" /\ ~oom' /\ in_section' = FALSE /\ UNCHANGED <<refused, rc, disk>>
    BY <1>1, <1>2, <1>5 DEF End, NoError
  <2> QED BY <1>1, <1>5, <2>6, <2>7, <2>8, ReplayGoesOn
<1>6. CASE EndFails /\ Stop(err')
  <2>1. PICK e \in EndErrs : e = err' /\ oom' = (oom \/ e = "OOM")
    BY <1>6 DEF EndFails, Fails, Latch
  <2>2. e \notin {"OK", "ABORT"} /\ (e = "TRUNCATED" => cur_codec = "words" /\ tlv_len % 4 # 0 /\ tlv_len # 0)
    BY <2>1 DEF EndErrs
  <2>3. CASE e # "TRUNCATED"
    BY <1>1, <1>6, <2>1, <2>2, <2>3, PlainStop
  <2>4. CASE e = "TRUNCATED"
    <3>1. tlv_len = StreamLen(tlv) /\ tlv # <<>>
      BY <1>2, <2>2, <2>4, StreamLenTypes DEF WriterInv, WriterTypes
    <3>2. Filling /\ InSec(WantedPlaces, cur_section) = InSec(Gone, cur_section)
      BY <1>1, <1>3, <3>1, ClosingFacts
    <3>3. tlv = StreamOf(WantedPlaces, cur_section)
      BY <3>2 DEF Filling, StreamOf
    <3>4. tlv = Kept(cur_section) /\ cur_section \in DOMAIN src
      <4>1. Loaded /\ cur_section \in 1 .. Len(src)
        BY <1>2 DEF RewriteInv, ToolSetup, Inside
      <4> QED BY <3>3, <4>1, WantedAre, DeliveredTypes
    <3>5. CodecOf(cur_section) = "words" /\ StreamLen(Kept(cur_section)) % 4 # 0
      BY <1>2, <2>2, <2>4, <3>1, <3>4 DEF Inside
    <3>6. Kept(cur_section)' = Kept(cur_section) /\ CodecOf(cur_section)' = CodecOf(cur_section)
      BY <1>1, SetupFrame, ChosenFrame
    <3>7. /\ cur_section' \in DOMAIN src'
          /\ CodecOf(cur_section)' = "words" /\ StreamLen(Kept(cur_section))' % 4 # 0
      BY <1>1, <3>4, <3>5, <3>6
    <3>8. rc' = "TRUNCATED"
      BY <1>6, <2>1, <2>4 DEF Stop
    <3>9. FailuresExplained'
      <4>1. ~refused'
        BY <1>1 DEF RewriteInv, Running
      <4> QED BY <1>1, <3>7, <3>8, <4>1 DEF FailuresExplained
    <3> QED BY <1>1, <1>6, <3>9, StopStep
  <2> QED BY <2>3, <2>4
<1> QED BY <1>5, <1>6 DEF CloseSection
(***************************************************************************)
(* The next chosen record opens a section, unless the table is full: then  *)
(* the input asks for more sections than it holds.                         *)
(***************************************************************************)
LEMMA OpenStep ==
  ASSUME RewriteInv, OpenSection
  PROVE  RewriteInv'
<1>1. /\ pc = "replay" /\ ~section_open /\ More /\ i \in kept
      /\ UNCHANGED setup /\ UNCHANGED <<setup, collected>> /\ UNCHANGED <<setup, collected, chosen>>
      /\ UNCHANGED <<setup, collected, disk>>
      /\ i' = i /\ disk' = disk /\ refused' = refused /\ src' = src /\ kept' = kept
  BY DEF OpenSection, setup, chosen, faults
<1>2. /\ WriterInv /\ Shut /\ err = "OK" /\ ~oom /\ Loaded
  BY <1>1 DEF RewriteInv, Running, Replaying, ToolSetup
<1>3. PICK x \in Places : /\ x = Taken[i] /\ Copy(i).section_index = SecOf(x)
                          /\ SecOf(x) \in 1 .. Len(src)
                          /\ Copy(i).section_type = src[SecOf(x)].type
                          /\ TargetCodec(Copy(i)) = CodecOf(SecOf(x))
  BY <1>1, ItemFacts
<1>4. SecOf(x) \notin SecsOf(Gone)
  <2>1. i \in Nat /\ Len(items) \in Nat
    BY <1>1, TakenTypes DEF RewriteInv, Replaying
  <2>2. ~(i > Len(items))
    BY <1>1, <2>1 DEF More
  <2> QED BY <1>2, <1>3, <2>2, SectionsNone DEF Shut
<1>5. CASE /\ Begin(Copy(i).section_type, TargetCodec(Copy(i)))
           /\ section_open' = TRUE /\ cur_section' = Copy(i).section_index /\ UNCHANGED <<pc, rc>>
  <2>1. /\ in_section' = TRUE /\ tlv' = <<>> /\ sections' = sections
        /\ cur_type' = src[SecOf(x)].type /\ cur_codec' = CodecOf(SecOf(x))
        /\ cur_section' = SecOf(x) /\ NoError /\ tlv_len' = 0 /\ hmac_key' = hmac_key
    BY <1>3, <1>5 DEF Begin
  <2>2. WriterInv'
    <3>1. <<>> \in Seq(Item) /\ StreamLen(<<>>) = 0
      BY StreamLenTypes
    <3>2. src[SecOf(x)].type \in Types
      BY <1>2, <1>3, PlaceTypes
    <3>3. WriterTypes'
      BY <1>2, <2>1, <3>1, <3>2 DEF WriterInv, WriterTypes
    <3> QED BY <1>2, <2>1, <3>3, QuietStep
  <2>3. Gone' = Gone /\ Taken' = Taken
    BY <1>1, GoneNext, CollectedFrame
  <2>4. /\ SectionsOf(Gone)' = SectionsOf(Gone) /\ SecsOf(Gone)' = SecsOf(Gone)
        /\ SecOf(Taken[i])' = SecOf(x) /\ CodecOf(cur_section)' = CodecOf(SecOf(x))
        /\ Streams(sections)' = Streams(sections)
    BY <1>1, <1>3, <2>1, <2>3, SetupFrame
  <2>5. Opened'
    BY <1>1, <1>2, <1>4, <2>1, <2>4 DEF Opened, Shut
  <2>6. Inside'
    BY <1>1, <1>3, <2>1, <2>4, <2>5 DEF Inside
  <2>7. err' = "OK" /\ ~oom' /\ UNCHANGED <<refused, rc, disk>>
    BY <1>1, <1>2, <1>5, <2>1 DEF NoError
  <2> QED BY <1>1, <1>5, <2>1, <2>2, <2>6, <2>7, ReplayGoesOn
<1>6. CASE BeginTooMany /\ Stop("OOM")
  <2>1. Len(sections) >= MaxSections /\ oom' = oom
    BY <1>6 DEF BeginTooMany
  <2>2. /\ Gone \subseteq WantedPlaces /\ WantedPlaces \subseteq Places /\ x \in WantedPlaces
        /\ \A v \in Gone : v < x
    BY <1>1, <1>3, GoneFacts
  <2>3. PICK q \in Seq(Sec) : q = SectionsOf(Gone)
    BY <1>2, <1>4, <2>2, SectionsAddNew
  <2>4. PICK y \in Sec : SectionsOf(Gone \cup {x}) = Append(q, y)
    <3>1. PICK y : y = [type |-> src[SecOf(x)].type, stream |-> <<Tlv(x)>>]
      OBVIOUS
    <3>2. SectionsOf(Gone \cup {x}) = Append(q, y)
      BY <1>2, <1>4, <2>2, <2>3, <3>1, SectionsAddNew
    <3>3. y \in Sec
      BY <1>2, <1>3, <3>1, PlaceTypes DEF Sec
    <3> QED BY <3>2, <3>3
  <2>5. Len(q) = Len(sections) /\ Len(sections) \in Nat
    <3>1. sections \in Seq(Closed)
      BY <1>2 DEF WriterInv, WriterTypes
    <3>2. Streams(sections) = q
      BY <1>2, <2>3 DEF Shut
    <3>3. Len(Streams(sections)) = Len(sections) /\ Len(sections) \in Nat
      BY <3>1 DEF Streams
    <3> QED BY <3>2, <3>3
  <2>6. Len(Append(q, y)) = Len(q) + 1
    BY AppendProperties
  <2>7. Len(SectionsOf(Gone \cup {x})) <= Len(SectionsOf(WantedPlaces))
    BY <1>2, <2>2, SectionsLonger
  <2>8. Len(SectionsOf(WantedPlaces)) \in Int
    <3>1. PICK U : U = WantedPlaces /\ U \subseteq Places
      BY <2>2
    <3>2. Len(SectionsOf(U)) \in Int
      BY <1>2, <3>1, SectionsTyped
    <3> QED BY <3>1, <3>2
  <2>9. Len(WantedSections) > MaxSections
    <3>1. WantedSections = SectionsOf(WantedPlaces) /\ MaxSections \in Nat
      BY <1>2, WantedAre, WriterConstants
    <3> QED BY <2>1, <2>4, <2>5, <2>6, <2>7, <2>8, <3>1
  <2>10. FailuresExplained'
    <3>1. WantedSections' = WantedSections /\ rc' = "OOM"
      BY <1>1, <1>6, ChosenFrame DEF Stop
    <3>2. ~refused' /\ MaxSections' = MaxSections
      BY <1>1 DEF RewriteInv, Running
    <3> QED BY <1>2, <2>1, <2>9, <3>1, <3>2 DEF FailuresExplained
  <2> QED BY <1>1, <1>6, <2>10, StopStep
<1> QED BY <1>5, <1>6 DEF OpenSection
(***************************************************************************)
(* What the closed sections decode to is a list of sections.               *)
(***************************************************************************)
LEMMA StreamsTyped ==
  ASSUME WriterInv
  PROVE  Streams(sections) \in Seq(Sec)
<1>1. PICK m \in Nat : /\ m = Len(sections) /\ DOMAIN sections = 1 .. m
                       /\ \A k \in 1 .. m : sections[k] \in Closed
  BY SectionTypes
<1>2. ASSUME NEW s \in Closed
      PROVE  [type |-> s.type, stream |-> Decode(s.codec_id, s.blob)] \in Sec
  <2>1. PICK stream \in Seq(Item) : Encoded(s, stream)
    BY ClosedTypes
  <2>2. /\ s.codec_id \in Codecs /\ s.comp_len \in Nat /\ s.comp_len > 0 /\ s.type \in Types
        /\ s.blob = Encode(s.codec_id, stream, s.comp_len)
    BY <2>1, ClosedTypes DEF Encoded
  <2>3. Decode(s.codec_id, s.blob) = stream
    BY <2>2, EncodeDecodes
  <2> QED BY <2>2, <2>3 DEF Sec
<1>3. \A k \in 1 .. m :
        [type |-> sections[k].type, stream |-> Decode(sections[k].codec_id, sections[k].blob)] \in Sec
  BY <1>1, <1>2
<1>4. PICK T : T = Sec
  OBVIOUS
<1> QED BY <1>1, <1>3, <1>4 DEF Streams

(***************************************************************************)
(* A section nothing was added to is empty.                                *)
(***************************************************************************)
LEMMA StreamNone ==
  ASSUME Loaded, NEW V, NEW s, s \notin SecsOf(V)
  PROVE  StreamOf(V, s) = <<>>
<1>1. InSec(V, s) = {} /\ Len(Delivered) \in Nat
  BY PlaceTypes DEF InSec, SecsOf
<1>2. Ascending({}, Len(Delivered)) = <<>>
  BY <1>1, AscendingNone
<1> QED BY <1>1, <1>2 DEF StreamOf

(***************************************************************************)
(* A record is added to the section that is open.                          *)
(***************************************************************************)
LEMMA AddFills ==
  ASSUME RewriteInv, pc = "replay", Inside, i \in kept, SecOf(Taken[i]) = cur_section,
         NEW U, U = Gone \cup {Taken[i]}
  PROVE  /\ cur_section \in SecsOf(U) /\ \A s \in SecsOf(U) : s <= cur_section
         /\ Append(tlv, Tlv(Taken[i])) = StreamOf(U, cur_section)
         /\ SectionsOf(U) = Append(Streams(sections),
              [type |-> cur_type, stream |-> Append(tlv, Tlv(Taken[i]))])
<1>1. PICK x \in Places : x = Taken[i] /\ SecOf(x) = cur_section
  BY ItemFacts
<1>2. PICK V : V = Gone /\ U = V \cup {x}
  BY <1>1
<1>3. V \subseteq Places /\ (\A v \in V : v < x) /\ Loaded /\ WriterInv
  BY <1>1, <1>2, GoneFacts DEF RewriteInv, ToolSetup, Running
<1>4. cur_section \in SecsOf(U) /\ \A s \in SecsOf(U) : s <= cur_section
  <2>1. \A v \in V : SecOf(v) <= cur_section
    BY <1>1, <1>3, DeliveredTypes DEF SecOf, Places
  <2>2. cur_section <= cur_section
    BY <1>1, <1>3, PlaceTypes
  <2> QED BY <1>1, <1>2, <2>1, <2>2 DEF SecsOf
<1>5. StreamOf(U, cur_section) = Append(StreamOf(V, cur_section), Tlv(x))
  BY <1>1, <1>2, <1>3, StreamAdd, ZenonT(30)
<1>6. cur_type = src[cur_section].type
  BY DEF Inside
<1>7. CASE Opened
  <2>1. tlv = <<>> /\ Streams(sections) = SectionsOf(V) /\ cur_section \notin SecsOf(V)
    BY <1>2, <1>7 DEF Opened
  <2>2. StreamOf(V, cur_section) = <<>>
    BY <1>3, <2>1, StreamNone
  <2>3. SectionsOf(V \cup {x})
          = Append(SectionsOf(V), [type |-> src[SecOf(x)].type, stream |-> <<Tlv(x)>>])
    BY <1>1, <1>3, <2>1, SectionsAddNew
  <2>4. Append(<<>>, Tlv(x)) = <<Tlv(x)>>
    OBVIOUS
  <2> QED BY <1>1, <1>2, <1>4, <1>5, <1>6, <2>1, <2>2, <2>3, <2>4
<1>8. CASE Filling
  <2>1. /\ cur_section \in SecsOf(V) /\ tlv = StreamOf(V, cur_section)
        /\ SectionsOf(V) = Append(Streams(sections), [type |-> cur_type, stream |-> tlv])
    BY <1>2, <1>8 DEF Filling
  <2>2. PICK pre \in Seq(Sec) :
           /\ SectionsOf(V) = Append(pre, [type |-> src[SecOf(x)].type,
                                           stream |-> StreamOf(V, SecOf(x))])
           /\ SectionsOf(V \cup {x}) = Append(pre, [type |-> src[SecOf(x)].type,
                                          stream |-> Append(StreamOf(V, SecOf(x)), Tlv(x))])
    BY <1>1, <1>3, <2>1, SectionsAddSame
  <2>3. PICK T, y, st : T = Sec /\ y = [type |-> cur_type, stream |-> tlv] /\ st = Streams(sections)
    OBVIOUS
  <2>4. y \in T
    <3>1. tlv \in Seq(Item) /\ cur_type \in Types
      <4>1. cur_section \in 1 .. Len(src)
        BY DEF Inside
      <4>2. cur_type \in Types
        BY <1>3, <1>6, <4>1, PlaceTypes
      <4>3. tlv \in Seq(Item)
        BY DEF RewriteInv, Running, WriterInv, WriterTypes
      <4> QED BY <4>2, <4>3
    <3> QED BY <2>3, <3>1 DEF Sec
  <2>5. st \in Seq(T) /\ pre \in Seq(T) /\ Append(st, y) = Append(pre, y)
    BY <1>1, <1>3, <1>6, <2>1, <2>2, <2>3, StreamsTyped
  <2>6. st = pre
    BY <2>4, <2>5, AppendInjective
  <2> QED BY <1>1, <1>2, <1>4, <1>5, <1>6, <2>1, <2>2, <2>3, <2>6
<1> QED BY <1>7, <1>8 DEF Inside

(***************************************************************************)
(* A chosen record is added, or the accumulator cannot grow.               *)
(***************************************************************************)
LEMMA AddItemStep ==
  ASSUME RewriteInv, AddItem
  PROVE  RewriteInv'
<1>1. /\ pc = "replay" /\ section_open /\ More /\ i \in kept
      /\ Copy(i).section_index = cur_section
      /\ UNCHANGED setup /\ UNCHANGED <<setup, collected>> /\ UNCHANGED <<setup, collected, chosen>>
      /\ UNCHANGED <<setup, collected, disk>>
      /\ section_open' = section_open /\ cur_section' = cur_section /\ disk' = disk /\ refused' = refused /\ src' = src
  BY DEF AddItem, setup, faults
<1>2. /\ WriterInv /\ Inside /\ err = "OK" /\ ~oom /\ Loaded
      /\ section_open \in BOOLEAN /\ in_section = section_open
  BY <1>1 DEF RewriteInv, Running, Replaying, ToolSetup
<1>3. PICK r \in Items : /\ r = Rewritten(held[items[i]])
                         /\ Tlv(Taken[i]) = [tag |-> r.tag, plen |-> r.plen]
                         /\ SecOf(Taken[i]) = cur_section
  BY <1>1, ItemFacts
<1>4. CASE AddWhole(r) /\ i' = i + 1 /\ UNCHANGED <<pc, rc>>
  <2>1. /\ tlv' = Append(tlv, Tlv(Taken[i])) /\ sections' = sections /\ cur_type' = cur_type
        /\ cur_codec' = cur_codec /\ in_section' = in_section /\ err' = "OK" /\ ~oom'
    BY <1>2, <1>3, <1>4 DEF AddWhole, section, NoError
  <2>2. WriterInv'
    BY <1>2, <1>4, AddWholeStep
  <2>3. PICK U : U = Gone \cup {Taken[i]} /\ U = Gone'
    BY <1>1, <1>4, GoneNext
  <2>4. /\ cur_section \in SecsOf(U) /\ \A s \in SecsOf(U) : s <= cur_section
        /\ Append(tlv, Tlv(Taken[i])) = StreamOf(U, cur_section)
        /\ SectionsOf(U) = Append(Streams(sections),
             [type |-> cur_type, stream |-> Append(tlv, Tlv(Taken[i]))])
    BY <1>1, <1>2, <1>3, <2>3, AddFills
  <2>5. /\ SectionsOf(Gone)' = SectionsOf(U) /\ SecsOf(Gone)' = SecsOf(U)
        /\ StreamOf(Gone, cur_section)' = StreamOf(U, cur_section)
        /\ CodecOf(cur_section)' = CodecOf(cur_section) /\ Streams(sections)' = Streams(sections)
    BY <1>1, <2>1, <2>3, SetupFrame
  <2>6. Filling'
    BY <1>1, <2>1, <2>4, <2>5 DEF Filling
  <2>7. Inside'
    BY <1>1, <1>2, <2>1, <2>5, <2>6 DEF Inside
  <2>8. UNCHANGED <<refused, rc, disk>> /\ pc' = "replay"
    BY <1>1, <1>4
  <2> QED BY <1>1, <1>2, <1>4, <2>1, <2>2, <2>7, <2>8, ReplayGoesOn
<1>5. ASSUME NEW done, AddOom(r, done), Stop(err') PROVE RewriteInv'
  <2>1. oom' /\ err' \in {"OOM", "RANGE", "BADRECORD"}
    <3>1. r.flaw \in {"none", "long", "unknown"}
      BY ItemTypes DEF Flaws
    <3> QED BY <1>5, <3>1 DEF AddOom, Latch
  <2> QED BY <1>1, <1>5, <2>1, PlainStop
<1>6. CASE AddRejected(r) /\ Stop(err')
  <2>1. err' \in {"RANGE", "BADRECORD"}
    BY <1>6 DEF AddRejected, Fails, Latch
  <2> QED BY <1>1, <1>6, <2>1, PlainStop
<1> QED BY <1>3, <1>4, <1>5, <1>6 DEF AddItem
(***************************************************************************)
(* dtl sign hands the writer its key.                                      *)
(***************************************************************************)
LEMMA SignStep ==
  ASSUME RewriteInv, Sign
  PROVE  RewriteInv'
<1>1. /\ pc = "replay" /\ pc' = "replay" /\ ~section_open /\ tool = "sign" /\ SetHmac(arg)
      /\ UNCHANGED setup /\ UNCHANGED <<setup, collected>> /\ UNCHANGED <<setup, collected, chosen>>
      /\ UNCHANGED <<refused, rc, disk>> /\ i' = i /\ section_open' = section_open /\ kept' = kept
  BY DEF Sign, toolVars, setup, collected, chosen, faults
<1>2. /\ WriterInv /\ Shut /\ err = "OK" /\ ~oom /\ arg \in Keys
      /\ section_open \in BOOLEAN /\ in_section = section_open
  BY <1>1 DEF RewriteInv, Running, Replaying, ToolSetup, Arguments
<1>3. /\ sections' = sections /\ in_section' = in_section /\ err' = "OK" /\ ~oom'
  BY <1>1, <1>2 DEF SetHmac, section, NoError
<1>4. WriterInv'
  <2>1. WriterTypes'
    BY <1>1, <1>2 DEF SetHmac, buffer, section, NoError, WriterInv, WriterTypes
  <2> QED BY <1>1, <1>2, <2>1, QuietStep DEF SetHmac
<1>5. Gone' = Gone /\ Taken' = Taken /\ items' = items
  BY <1>1, GoneNext, CollectedFrame
<1>6. /\ SectionsOf(Gone)' = SectionsOf(Gone) /\ SecsOf(Gone)' = SecsOf(Gone)
      /\ SecOf(Taken[i])' = SecOf(Taken[i]) /\ Streams(sections)' = Streams(sections)
  BY <1>1, <1>3, <1>5, SetupFrame
<1>7. Shut'
  BY <1>1, <1>2, <1>5, <1>6 DEF Shut
<1> QED BY <1>1, <1>2, <1>3, <1>4, <1>7, ReplayGoesOn

(***************************************************************************)
(* The container is laid out with every record that is to be kept.         *)
(***************************************************************************)
LEMMA FinishStep ==
  ASSUME RewriteInv, FinishAll
  PROVE  RewriteInv'
<1>1. /\ pc = "replay" /\ ~section_open /\ ~More /\ (tool = "sign" => hmac_key = arg)
      /\ UNCHANGED setup /\ UNCHANGED <<setup, collected>> /\ UNCHANGED <<setup, collected, chosen>>
      /\ UNCHANGED <<setup, collected, disk>> /\ disk' = disk /\ tool' = tool /\ arg' = arg
      /\ refused' = refused
  BY DEF FinishAll, setup, faults
<1>2. /\ WriterInv /\ Shut /\ err = "OK" /\ ~oom /\ Chosen /\ rc = "OK" /\ disk = Old
      /\ ~refused
  BY <1>1 DEF RewriteInv, Running, Replaying
<1>3. CASE Finish /\ pc' = "save" /\ UNCHANGED rc
  <2>1. /\ out' = Layout /\ sections' = sections /\ hmac_key' = hmac_key /\ err' = "OK" /\ ~oom'
    BY <1>2, <1>3 DEF Finish, NoError
  <2>10. BlobRegion <= U32Max /\ BlobRegion' = BlobRegion
    BY <1>3, <2>1 DEF Finish, BlobRegion, Offset
  <2>2. Layout' = Layout
    BY <2>1 DEF Layout, EmittedHeader, EmittedTable, EmittedMac, EmittedBlobs, BlobRegion, Offset
  <2>3. WriterInv'
    <3>1. WriterTypes'
      BY <1>2, <1>3 DEF Finish, buffer, section, NoError, WriterInv, WriterTypes
    <3> QED BY <1>2, <1>3, <3>1, QuietStep DEF Finish
  <2>4. Gone = WantedPlaces
    <3>1. i > Len(items)
      BY <1>1, TakenTypes DEF More, RewriteInv, Replaying
    <3> QED BY <1>1, <3>1, GoneFacts
  <2>5. /\ WantedPlaces' = WantedPlaces /\ Chosen'
        /\ SectionsOf(WantedPlaces)' = SectionsOf(WantedPlaces)
    <3>1. WantedPlaces' = WantedPlaces /\ Chosen'
      BY <1>1, <1>2, ChosenFrame
    <3> QED BY <1>1, <3>1, SetupFrame
  <2>6. Streams(sections)' = SectionsOf(WantedPlaces)'
    BY <1>2, <2>1, <2>4, <2>5 DEF Shut
  <2>7. Saving'
    BY <1>1, <2>1, <2>2, <2>5, <2>6, <2>10 DEF Saving, Complete
  <2>8. ToolSetup' /\ Collected'
    BY <1>1, SetupFrame, CollectedFrame DEF RewriteInv
  <2>9. Running'
    BY <1>1, <1>2, <1>3, <2>1, <2>3 DEF Running
  <2> QED BY <1>3, <2>7, <2>8, <2>9 DEF RewriteInv, Fresh, Sampling, Replaying, Returned
<1>4. CASE FinishFails /\ Stop(err')
  <2>1. err' \in {"RANGE", "OOM"} /\ (err' = "OOM" => oom')
    BY <1>4 DEF FinishFails, Fails, Latch
  <2> QED BY <1>1, <1>4, <2>1, PlainStop
<1> QED BY <1>3, <1>4 DEF FinishAll

(***************************************************************************)
(* What finish laid out is the container promised.                         *)
(***************************************************************************)
LEMMA CompleteReads ==
  ASSUME ToolSetup, WriterInv, Complete
  PROVE  /\ Readable(Layout) /\ ReadBack(Layout) = WantedSections
         /\ tool = "sign" => Verify(Layout, arg) = "OK"
<1>1. Shape(Layout, EmittedBlobs, hmac_key) /\ Layout # NoFile
  BY LayoutShape, LayoutIsFile DEF Complete
<1>2. Readable(Layout)
  BY <1>1, ShapeReadable
<1>3. ReadBack(Layout) = Streams(sections)
  BY <1>1, <1>2, LayoutReadsBack DEF ReadOut, Complete
<1>4. WantedSections = SectionsOf(WantedPlaces)
  BY WantedAre DEF ToolSetup
<1>5. ASSUME tool = "sign" PROVE Verify(Layout, arg) = "OK"
  <2>1. arg \in Keys /\ hmac_key = arg
    BY <1>5 DEF ToolSetup, Arguments, Complete
  <2>2. hmac_key # "none"
    BY <2>1, WriterConstants
  <2> QED BY <1>1, <2>1, <2>2, ShapeVerifies
<1> QED BY <1>2, <1>3, <1>4, <1>5 DEF Complete

(***************************************************************************)
(* The container is stored, or not, or in part.                            *)
(***************************************************************************)
LEMMA SaveStep ==
  ASSUME RewriteInv, Save
  PROVE  RewriteInv'
<1>1. /\ pc = "save" /\ pc' = "done"
      /\ UNCHANGED setup /\ UNCHANGED <<setup, collected>> /\ UNCHANGED <<setup, collected, chosen>>
      /\ tool' = tool /\ arg' = arg /\ kept' = kept /\ oom' = oom
      /\ refused' = refused /\ overrun' = overrun
      /\ \/ disk' = disk /\ rc' = "IO"
         \/ disk' = Partial /\ rc' \in {"IO", "OK"}
         \/ disk' = out /\ rc' = "OK"
         \/ overrun /\ disk' \in {disk, Partial, out} /\ rc' = "ABORT"
  BY DEF Save, Stop, setup, chosen, writerVars, vars, faults
<1>2. WriterInv /\ disk = Old /\ ~oom /\ ~refused /\ Complete /\ out = Layout /\ ToolSetup
  BY <1>1 DEF RewriteInv, Running, Saving
<1>3. ToolSetup' /\ Collected' /\ (CopyAll' <=> CopyAll) /\ WantedSections' = WantedSections
  BY <1>1, SetupFrame, CollectedFrame, ChosenFrame DEF RewriteInv
<1>4. /\ Readable(out) /\ ReadBack(out) = WantedSections
      /\ tool = "sign" => Verify(out, arg) = "OK"
  BY <1>2, CompleteReads
<1>5. OutputIsSelection'
  <2>1. CASE disk' = out
    <3>1. Readable(disk') /\ ReadBack(disk') = WantedSections'
          /\ (tool' = "sign" => Verify(disk', arg') = "OK")
      BY <1>1, <1>3, <1>4, <2>1
    <3>2. tool' = "sample" /\ ~CopyAll' => Cardinality(kept') = arg'
      BY <1>1, <1>2, <1>3 DEF Complete, Chosen
    <3> QED BY <3>1, <3>2 DEF OutputIsSelection
  <2>2. CASE disk' # out
    BY <1>1, <1>2, <2>2 DEF OutputIsSelection, Stored
  <2> QED BY <2>1, <2>2
<1>6. Partial # Old /\ Layout # Old
  <2>1. Partial # Old
    <3>1. Partial.what = "partial" /\ Old.what = "old"
      BY DEF Partial, Old
    <3> QED BY <3>1
  <2>2. Layout # Old
    <3>1. DOMAIN Layout = {"header", "table", "tail", "len"} /\ DOMAIN Old = {"what"}
      BY DEF Layout, Old
    <3> QED BY <3>1
  <2> QED BY <2>1, <2>2
<1>7. FailuresExplained'
  BY <1>1, <1>2, <1>6 DEF FailuresExplained
<1> QED BY <1>1, <1>3, <1>5, <1>7
       DEF RewriteInv, Running, Fresh, Sampling, Replaying, Saving, Returned

-----------------------------------------------------------------------------
(***************************************************************************)
(* Every step of a tool preserves the invariant.                           *)
(***************************************************************************)
LEMMA RewriteInductive == RewriteSpec => []RewriteInv
<1>1. ASSUME RewriteInv, [RewriteNext]_<<toolVars, writerVars>> PROVE RewriteInv'
  <2>1. CASE Done \/ UNCHANGED <<toolVars, writerVars>>
    BY <1>1, <2>1, NoStep DEF Done
  <2>2. CASE RewriteStep
    BY <1>1, <2>2, EarlyStops, CollectStep, AbsorbedStep, DrawStep, DrawnStep, SkipStep,
       CloseStep, OpenStep, AddItemStep, SignStep, FinishStep, SaveStep DEF RewriteStep
  <2> QED BY <1>1, <2>1, <2>2 DEF RewriteNext
<1> QED BY <1>1, RewriteInitInv, PTL DEF RewriteSpec

(***************************************************************************)
(* Whatever repack, sign, select, dedup and sample store reads back as the *)
(* records their headers promise to keep, in order and in their sections,  *)
(* verifies when signed, and holds n different records when sampled: for   *)
(* every input, filter, codec, key, sample size, draw and failure.  A      *)
(* record whose payload the walk freed is in its place with its own tag,   *)
(* and with whatever its memory holds when the replay reads it.            *)
(***************************************************************************)
THEOREM ToolsKeepTheirPromise == RewriteSpec => []OutputIsSelection
<1>1. RewriteInv => OutputIsSelection
  BY DEF RewriteInv, Returned, OutputIsSelection, Stored
<1> QED BY <1>1, RewriteInductive, PTL

(***************************************************************************)
(* Whatever error these tools return has its cause in the input or in the  *)
(* machine: a refused file or query leaves the output alone, TRUNCATED and *)
(* OOM after that have the causes FailuresExplained names, no allocation   *)
(* that fails the walk or the replay is hidden behind DTL_OK, which is     *)
(* returned only once the output was opened, and the process dies only     *)
(* after sample drew n or with freed payloads to read.                     *)
(***************************************************************************)
THEOREM ToolFailuresExplained == RewriteSpec => []FailuresExplained
<1>1. RewriteInv => FailuresExplained
  BY DEF RewriteInv, Returned, FailuresExplained
<1> QED BY <1>1, RewriteInductive, PTL
=============================================================================
