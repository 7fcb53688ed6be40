----------------------------- MODULE DataLemmas ------------------------------
(***************************************************************************)
(* Facts about the data the specifications are built from, for the proof   *)
(* modules to cite: induction over the naturals, stated with sets so that  *)
(* a first-order prover can use it, sums of sequences, and flattening.      *)
(***************************************************************************)
EXTENDS Sums, SequencesExt, SequenceTheorems, WellFoundedInduction, TLAPS

(***************************************************************************)
(* A non-empty set of naturals has a least element.                        *)
(***************************************************************************)
LEMMA LeastNatural ==
  ASSUME NEW T, T \subseteq Nat, T # {}
  PROVE  \E m \in T : \A n \in T : m <= n
<1> DEFINE R == OpToRel(<, Nat)
<1>1. IsWellFoundedOn(R, Nat)
  BY NatLessThanWellFounded
<1>2. \A x, y \in Nat : y < x => <<y, x>> \in R
  BY DEF OpToRel
<1> HIDE DEF R
<1>3. PICK x \in T : \A y \in T : ~ (<<y, x>> \in R)
  BY <1>1, WFMin
<1>4. \A y \in T : ~(y < x)
  BY <1>2, <1>3
<1>5. \A y \in T : x <= y
  BY <1>4
<1> QED BY <1>5

(***************************************************************************)
(* Induction: a set with 0 and the successor of each of its naturals.      *)
(***************************************************************************)
LEMMA Induction ==
  ASSUME NEW S, 0 \in S, \A n \in Nat : n \in S => n + 1 \in S
  PROVE  \A n \in Nat : n \in S
<1> DEFINE T == {n \in Nat : n \notin S}
<1>1. SUFFICES ASSUME T # {} PROVE FALSE
  OBVIOUS
<1>2. PICK m \in T : \A n \in T : m <= n
  BY <1>1, LeastNatural
<1>3. m \in Nat /\ m # 0 /\ m - 1 \in Nat /\ m - 1 \notin T
  BY <1>2
<1> QED BY <1>2, <1>3

-----------------------------------------------------------------------------
(***************************************************************************)
(* f runs through V from b, step k by the function st[k].                  *)
(***************************************************************************)
Runs(f, b, st, n) == f[0] = b /\ \A k \in 1 .. n : f[k] = st[k][f[k - 1]]

(***************************************************************************)
(* A loop over 1 .. n has a run: a recursive function on 0 .. n exists.    *)
(***************************************************************************)
LEMMA RunExists ==
  ASSUME NEW V, NEW b \in V, NEW n \in Nat, NEW st \in [1 .. n -> [V -> V]]
  PROVE  \E f \in [0 .. n -> V] : Runs(f, b, st, n)
<1> DEFINE upto(m) == \E f \in [0 .. m -> V] : Runs(f, b, st, m)
           S == {m \in Nat : m <= n => upto(m)}
<1>1. 0 \in S
  <2> DEFINE z == [k \in 0 .. 0 |-> b]
  <2>1. z \in [0 .. 0 -> V] /\ Runs(z, b, st, 0)
    BY DEF Runs
  <2>2. upto(0)
    BY <2>1
  <2> HIDE DEF upto
  <2> QED BY <2>2
<1>2. ASSUME NEW m \in Nat, m \in S PROVE m + 1 \in S
  <2> HIDE DEF upto
  <2> SUFFICES ASSUME m + 1 <= n PROVE upto(m + 1)
    OBVIOUS
  <2>1. upto(m)
    BY <1>2
  <2>2. PICK f \in [0 .. m -> V] : Runs(f, b, st, m)
    BY <2>1 DEF upto
  <2>3. PICK v \in V : v = st[m + 1][f[m]]
    <3>1. m + 1 \in 1 .. n /\ f[m] \in V
      OBVIOUS
    <3> QED BY <3>1
  <2> DEFINE g == [k \in 0 .. m + 1 |-> IF k = m + 1 THEN v ELSE f[k]]
  <2>4. g \in [0 .. m + 1 -> V]
    OBVIOUS
  <2>5. /\ g[0] = f[0] /\ g[m] = f[m] /\ g[m + 1] = v
        /\ \A k \in 1 .. m : g[k] = f[k] /\ g[k - 1] = f[k - 1]
    OBVIOUS
  <2> HIDE DEF g
  <2>6. \A k \in 1 .. m + 1 : k \in 1 .. m \/ (k = m + 1 /\ k - 1 = m)
    OBVIOUS
  <2>7. Runs(g, b, st, m + 1)
    <3>1. ASSUME NEW k \in 1 .. m + 1 PROVE g[k] = st[k][g[k - 1]]
      <4>1. CASE k \in 1 .. m
        BY <2>2, <2>5, <4>1 DEF Runs
      <4>2. CASE k = m + 1 /\ k - 1 = m
        BY <2>3, <2>5, <4>2
      <4> QED BY <2>6, <4>1, <4>2
    <3> QED BY <2>2, <2>5, <3>1 DEF Runs
  <2> QED BY <2>4, <2>7 DEF upto
<1> HIDE DEF upto
<1>3. \A m \in Nat : m \in S
  <2> HIDE DEF S
  <2> QED BY <1>1, <1>2, Induction
<1>4. upto(n)
  BY <1>3
<1> QED BY <1>4 DEF upto

(***************************************************************************)
(* Its values stay in V.                                                   *)
(***************************************************************************)
LEMMA RunTyped ==
  ASSUME NEW V, NEW b \in V, NEW n \in Nat, NEW st \in [1 .. n -> [V -> V]],
         NEW f, Runs(f, b, st, n)
  PROVE  \A k \in 0 .. n : f[k] \in V
<1> DEFINE S == {m \in Nat : m <= n => f[m] \in V}
<1>1. 0 \in S
  BY DEF Runs
<1>2. ASSUME NEW m \in Nat, m \in S PROVE m + 1 \in S
  <2> SUFFICES ASSUME m + 1 <= n PROVE f[m + 1] \in V
    OBVIOUS
  <2>1. m + 1 \in 1 .. n /\ m + 1 - 1 = m /\ f[m] \in V
    BY <1>2
  <2>2. f[m + 1] = st[m + 1][f[m]]
    BY <2>1 DEF Runs
  <2> QED BY <2>1, <2>2
<1>3. \A m \in Nat : m \in S
  <2> HIDE DEF S
  <2> QED BY <1>1, <1>2, Induction
<1> QED BY <1>3

-----------------------------------------------------------------------------
(***************************************************************************)
(* f holds the partial sums of s.                                          *)
(***************************************************************************)
Partials(f, s) ==
  /\ f \in [0 .. Len(s) -> Nat]
  /\ f[0] = 0
  /\ \A i \in 1 .. Len(s) : f[i] = f[i - 1] + s[i]

(***************************************************************************)
(* Total(s) is the last of the partial sums of s: the recursive function   *)
(* that defines it exists.                                                 *)
(***************************************************************************)
LEMMA TotalPartials ==
  ASSUME NEW s \in Seq(Nat)
  PROVE  \E f : Partials(f, s) /\ Total(s) = f[Len(s)]
<1> DEFINE n == Len(s)
           rec(f) == [i \in 0 .. n |-> IF i = 0 THEN 0 ELSE f[i - 1] + s[i]]
           upto(k) == \E f \in [0 .. k -> Nat] :
                        f[0] = 0 /\ \A i \in 1 .. k : f[i] = f[i - 1] + s[i]
           S == {k \in Nat : k <= n => upto(k)}
<1>0. n \in Nat /\ \A i \in 1 .. n : s[i] \in Nat
  OBVIOUS
<1>1. 0 \in S
  <2> DEFINE z == [i \in 0 .. 0 |-> 0]
  <2>1. z \in [0 .. 0 -> Nat] /\ z[0] = 0 /\ \A i \in 1 .. 0 : z[i] = z[i - 1] + s[i]
    OBVIOUS
  <2>2. upto(0)
    BY <2>1
  <2> HIDE DEF upto
  <2> QED BY <2>2
<1>2. ASSUME NEW k \in Nat, k \in S PROVE k + 1 \in S
  <2> HIDE DEF upto
  <2> SUFFICES ASSUME k + 1 <= n PROVE upto(k + 1)
    OBVIOUS
  <2>a. upto(k)
    BY <1>0, <1>2
  <2> USE DEF upto
  <2>1. PICK f \in [0 .. k -> Nat] : f[0] = 0 /\ \A i \in 1 .. k : f[i] = f[i - 1] + s[i]
    BY <2>a
  <2> DEFINE g == [i \in 0 .. k + 1 |-> IF i = k + 1 THEN f[k] + s[k + 1] ELSE f[i]]
  <2>2. g \in [0 .. k + 1 -> Nat]
    BY <1>0, <2>1
  <2>3. g[0] = 0 /\ \A i \in 1 .. k + 1 : g[i] = g[i - 1] + s[i]
    BY <1>0, <2>1
  <2> QED BY <2>2, <2>3
<1>3. upto(n)
  <2> HIDE DEF upto
  <2>1. \A k \in Nat : k \in S
    BY <1>1, <1>2, Induction
  <2> QED BY <2>1, <1>0
<1>4. \E f : f = rec(f)
  <2>1. PICK f \in [0 .. n -> Nat] : f[0] = 0 /\ \A i \in 1 .. n : f[i] = f[i - 1] + s[i]
    BY <1>3
  <2>2. f = rec(f)
    BY <1>0, <2>1
  <2> QED BY <2>2
<1> DEFINE sum == CHOOSE f : f = rec(f)
<1>5. sum = rec(sum)
  BY <1>4
<1>6. Total(s) = sum[n]
  BY DEF Total
<1> HIDE DEF sum
<1>7. sum[0] = 0 /\ \A i \in 1 .. n : sum[i] = sum[i - 1] + s[i]
  BY <1>0, <1>5
<1> DEFINE V == {k \in Nat : k <= n => sum[k] \in Nat}
<1>8. \A k \in Nat : k \in V
  <2>1. 0 \in V
    BY <1>7
  <2>2. ASSUME NEW k \in Nat, k \in V PROVE k + 1 \in V
    <3> SUFFICES ASSUME k + 1 <= n PROVE sum[k + 1] \in Nat
      OBVIOUS
    <3>1. k + 1 \in 1 .. n /\ k <= n /\ k + 1 - 1 = k
      BY <1>0
    <3>2. sum[k + 1] = sum[k] + s[k + 1] /\ sum[k] \in Nat /\ s[k + 1] \in Nat
      BY <1>0, <1>7, <2>2, <3>1
    <3> QED BY <3>2
  <2> HIDE DEF V
  <2> QED BY <2>1, <2>2, Induction
<1>9. Partials(sum, s)
  <2>1. \A k \in 0 .. n : sum[k] \in Nat
    BY <1>0, <1>8
  <2>2. sum \in [0 .. n -> Nat]
    BY <1>5, <2>1
  <2> QED BY <1>7, <2>2 DEF Partials
<1> QED BY <1>6, <1>9

(***************************************************************************)
(* Partial sums depend only on the elements summed.                        *)
(***************************************************************************)
LEMMA PartialsAgree ==
  ASSUME NEW s \in Seq(Nat), NEW t \in Seq(Nat), NEW f, NEW g,
         Partials(f, s), Partials(g, t),
         NEW m \in Nat, m <= Len(s), m <= Len(t), \A i \in 1 .. m : s[i] = t[i]
  PROVE  f[m] = g[m]
<1> DEFINE S == {k \in Nat : k <= m => f[k] = g[k]}
<1>1. 0 \in S
  BY DEF Partials
<1>2. ASSUME NEW k \in Nat, k \in S PROVE k + 1 \in S
  BY <1>2 DEF Partials
<1>3. \A k \in Nat : k \in S
  <2> HIDE DEF S
  <2> QED BY <1>1, <1>2, Induction
<1> QED BY <1>3

(***************************************************************************)
(* Total of the empty sequence.                                            *)
(***************************************************************************)
LEMMA TotalEmpty == Total(<<>>) = 0
<1>1. <<>> \in Seq(Nat) /\ Len(<<>>) = 0
  OBVIOUS
<1> QED BY <1>1, TotalPartials DEF Partials

(***************************************************************************)
(* The total is a natural number.                                          *)
(***************************************************************************)
LEMMA TotalNat == ASSUME NEW s \in Seq(Nat) PROVE Total(s) \in Nat
BY TotalPartials DEF Partials

(***************************************************************************)
(* One element more.                                                       *)
(***************************************************************************)
LEMMA TotalAppend ==
  ASSUME NEW s \in Seq(Nat), NEW x \in Nat
  PROVE  Total(Append(s, x)) = Total(s) + x
<1> DEFINE t == Append(s, x)
           n == Len(s)
<1>1. /\ t \in Seq(Nat) /\ Len(t) = n + 1 /\ n \in Nat
      /\ \A i \in 1 .. n : t[i] = s[i]
      /\ t[n + 1] = x
  BY AppendProperties
<1>2. PICK f : Partials(f, s) /\ Total(s) = f[n]
  BY TotalPartials
<1>3. PICK g : Partials(g, t) /\ Total(t) = g[n + 1]
  BY <1>1, TotalPartials
<1> HIDE DEF t
<1>4. f[n] = g[n]
  BY <1>1, <1>2, <1>3, PartialsAgree, SMTT(30)
<1>5. g[n + 1] = g[n] + x
  <2>1. n + 1 \in 1 .. Len(t) /\ n + 1 - 1 = n
    BY <1>1
  <2>2. \A i \in 1 .. Len(t) : g[i] = g[i - 1] + t[i]
    BY <1>3 DEF Partials
  <2>3. g[n + 1] = g[n + 1 - 1] + t[n + 1]
    BY <2>1, <2>2
  <2> QED BY <1>1, <2>1, <2>3, Zenon
<1> QED BY <1>2, <1>3, <1>4, <1>5 DEF t

(***************************************************************************)
(* The total of a sequence is that of a prefix and that of the rest.       *)
(***************************************************************************)
LEMMA TotalSplit ==
  ASSUME NEW s \in Seq(Nat), NEW e \in 0 .. Len(s)
  PROVE  Total(s) = Total(SubSeq(s, 1, e)) + Total(SubSeq(s, e + 1, Len(s)))
<1> DEFINE n == Len(s)
           pre(k) == SubSeq(s, 1, k)
           mid(k) == SubSeq(s, e + 1, e + k)
           S == {k \in Nat : e + k <= n => Total(pre(e + k)) = Total(pre(e)) + Total(mid(k))}
<1>0. n \in Nat /\ e \in Nat /\ e <= n /\ \A i \in 1 .. n : s[i] \in Nat
  OBVIOUS
<1>a. \A k \in 0 .. n : pre(k) \in Seq(Nat)
  BY <1>0, SubSeqProperties
<1>b. \A k \in Nat : e + k <= n => mid(k) \in Seq(Nat)
  <2> SUFFICES ASSUME NEW k \in Nat, e + k <= n PROVE mid(k) \in Seq(Nat)
    OBVIOUS
  <2>1. \A i \in e + 1 .. e + k : s[i] \in Nat
    BY <1>0
  <2> QED BY <1>0, <2>1, SubSeqProperties
<1>1. 0 \in S
  <2>1. mid(0) = <<>>
    BY <1>0, SubSeqEmpty
  <2>2. Total(mid(0)) = 0
    BY <2>1, TotalEmpty
  <2>3. Total(pre(e)) \in Nat
    BY <1>0, <1>a, TotalNat
  <2> HIDE DEF mid, pre
  <2> QED BY <1>0, <2>2, <2>3
<1>2. ASSUME NEW k \in Nat, k \in S PROVE k + 1 \in S
  <2> SUFFICES ASSUME e + (k + 1) <= n
               PROVE  Total(pre(e + (k + 1))) = Total(pre(e)) + Total(mid(k + 1))
    OBVIOUS
  <2>0. e + k + 1 \in 1 .. n /\ e + k \in 0 .. n /\ s[e + k + 1] \in Nat /\ e + (k + 1) = e + k + 1
    BY <1>0
  <2>1. pre(e + k + 1) = Append(pre(e + k), s[e + k + 1])
    <3>1. pre(e + k + 1) = pre(e + k + 1 - 1) \o <<s[e + k + 1]>>
      BY <2>0, SubSeqRecursiveSecond
    <3>2. pre(e + k) \in Seq(Nat) /\ e + k + 1 - 1 = e + k
      BY <1>a, <2>0
    <3> QED BY <2>0, <3>1, <3>2, AppendIsConcat
  <2>2. mid(k + 1) = Append(mid(k), s[e + k + 1])
    <3>1. e + 1 \in 1 .. n /\ e + k + 1 \in e + 1 .. n
      BY <1>0, <2>0
    <3>2. mid(k + 1) = SubSeq(s, e + 1, e + k + 1 - 1) \o <<s[e + k + 1]>>
      BY <2>0, <3>1, SubSeqRecursiveSecond
    <3>3. mid(k) \in Seq(Nat) /\ e + k + 1 - 1 = e + k
      BY <1>b, <2>0
    <3> QED BY <2>0, <3>2, <3>3, AppendIsConcat
  <2>3. Total(pre(e + k)) = Total(pre(e)) + Total(mid(k))
    BY <1>2, <2>0
  <2>4. /\ Total(pre(e + k + 1)) = Total(pre(e + k)) + s[e + k + 1]
        /\ Total(mid(k + 1)) = Total(mid(k)) + s[e + k + 1]
    <3>1. pre(e + k) \in Seq(Nat) /\ mid(k) \in Seq(Nat)
      BY <1>0, <1>a, <1>b, <2>0
    <3> HIDE DEF pre, mid
    <3> QED BY <2>0, <2>1, <2>2, <3>1, TotalAppend
  <2>5. Total(pre(e)) \in Nat /\ Total(mid(k)) \in Nat
    <3>1. pre(e) \in Seq(Nat) /\ mid(k) \in Seq(Nat)
      BY <1>0, <1>a, <1>b, <2>0
    <3> HIDE DEF pre, mid
    <3> QED BY <3>1, TotalNat
  <2> HIDE DEF pre, mid
  <2> QED BY <2>0, <2>3, <2>4, <2>5
<1>3. \A k \in Nat : k \in S
  <2> HIDE DEF S
  <2> QED BY <1>1, <1>2, Induction
<1>4. n - e \in Nat /\ e + (n - e) = n
  BY <1>0
<1>5. Total(pre(n)) = Total(pre(e)) + Total(mid(n - e))
  <2> HIDE DEF pre, mid
  <2> QED BY <1>0, <1>3, <1>4
<1>6. pre(n) = s
  BY SubSeqFull
<1> QED BY <1>4, <1>5, <1>6

-----------------------------------------------------------------------------
(***************************************************************************)
(* A segment of a sequence.                                                *)
(***************************************************************************)
LEMMA SubSeqAt ==
  ASSUME NEW S, NEW s \in Seq(S), NEW a \in Nat, NEW l \in Nat, a + l <= Len(s)
  PROVE  /\ SubSeq(s, a + 1, a + l) \in Seq(S) /\ Len(SubSeq(s, a + 1, a + l)) = l
         /\ \A j \in 1 .. l : SubSeq(s, a + 1, a + l)[j] = s[a + j]
OBVIOUS

(***************************************************************************)
(* The elements of the first k sequences of q.                             *)
(***************************************************************************)
Ahead(q, k) == Total([i \in 1 .. k |-> Len(q[i])])

(***************************************************************************)
(* Ahead grows by the length of the next sequence.                         *)
(***************************************************************************)
LEMMA AheadNext ==
  ASSUME NEW S, NEW q \in Seq(Seq(S))
  PROVE  /\ Ahead(q, 0) = 0
         /\ \A k \in 0 .. Len(q) : Ahead(q, k) \in Nat
         /\ \A k \in 0 .. Len(q) - 1 : Ahead(q, k + 1) = Ahead(q, k) + Len(q[k + 1])
<1> DEFINE z(k) == [i \in 1 .. k |-> Len(q[i])]
<1>0. Len(q) \in Nat /\ \A i \in 1 .. Len(q) : Len(q[i]) \in Nat
  <2>1. \A i \in 1 .. Len(q) : q[i] \in Seq(S)
    OBVIOUS
  <2> QED BY <2>1
<1>1. \A k \in 0 .. Len(q) : z(k) \in Seq(Nat) /\ Len(z(k)) = k
  BY <1>0
<1>2. z(0) = <<>>
  <2>1. 0 \in 0 .. Len(q)
    BY <1>0
  <2>2. z(0) \in Seq(Nat) /\ Len(z(0)) = 0
    BY <1>1, <2>1
  <2> HIDE DEF z
  <2> QED BY <2>2, EmptySeq
<1>3. ASSUME NEW k \in 0 .. Len(q) - 1 PROVE z(k + 1) = Append(z(k), Len(q[k + 1]))
  <2>0. k \in 0 .. Len(q) /\ k + 1 \in 0 .. Len(q) /\ k \in Nat /\ k + 1 \in 1 .. Len(q)
    BY <1>0
  <2>1. z(k) \in Seq(Nat) /\ Len(z(k)) = k /\ z(k + 1) \in Seq(Nat) /\ Len(z(k + 1)) = k + 1
    BY <1>1, <2>0
  <2>2. \A i \in 1 .. k + 1 : z(k + 1)[i] = Len(q[i])
    OBVIOUS
  <2>3. \A i \in 1 .. k : z(k)[i] = Len(q[i])
    OBVIOUS
  <2> DEFINE t == Append(z(k), Len(q[k + 1]))
  <2> HIDE DEF z
  <2>4. Len(q[k + 1]) \in Nat
    BY <1>0, <2>0
  <2>5. /\ t \in Seq(Nat) /\ Len(t) = k + 1
        /\ (\A i \in 1 .. k : t[i] = z(k)[i]) /\ t[k + 1] = Len(q[k + 1])
    BY <2>1, <2>4, AppendProperties
  <2> HIDE DEF t
  <2>6. \A i \in 1 .. k + 1 : z(k + 1)[i] = t[i]
    <3> SUFFICES ASSUME NEW i \in 1 .. k + 1 PROVE z(k + 1)[i] = t[i]
      OBVIOUS
    <3>1. i \in 1 .. k \/ i = k + 1
      BY <2>0
    <3> QED BY <2>2, <2>3, <2>5, <3>1
  <2>7. z(k + 1) = t
    BY <2>1, <2>5, <2>6, SeqEqual
  <2> QED BY <2>7 DEF t
<1>4. \A k \in 0 .. Len(q) : Ahead(q, k) = Total(z(k))
  BY DEF Ahead
<1> HIDE DEF z
<1>5. Ahead(q, 0) = 0
  BY <1>0, <1>2, <1>4, TotalEmpty
<1>6. \A k \in 0 .. Len(q) : Ahead(q, k) \in Nat
  BY <1>1, <1>4, TotalNat
<1>7. ASSUME NEW k \in 0 .. Len(q) - 1 PROVE Ahead(q, k + 1) = Ahead(q, k) + Len(q[k + 1])
  <2>0. k \in 0 .. Len(q) /\ k + 1 \in 0 .. Len(q) /\ k + 1 \in 1 .. Len(q)
    BY <1>0
  <2>1. Total(z(k + 1)) = Total(z(k)) + Len(q[k + 1])
    BY <1>0, <1>1, <1>3, <2>0, TotalAppend
  <2> QED BY <1>4, <2>0, <2>1
<1> QED BY <1>5, <1>6, <1>7

(***************************************************************************)
(* Ahead never decreases.                                                  *)
(***************************************************************************)
LEMMA AheadGrows ==
  ASSUME NEW S, NEW q \in Seq(Seq(S)), NEW k \in 0 .. Len(q), NEW l \in k .. Len(q)
  PROVE  Ahead(q, k) <= Ahead(q, l)
<1> DEFINE n == Len(q)
           U == {d \in Nat : k + d <= n => Ahead(q, k) <= Ahead(q, k + d)}
<1>0. /\ n \in Nat /\ k \in 0 .. n /\ l \in k .. n
      /\ \A i \in 1 .. n : Len(q[i]) \in Nat
      /\ \A i \in 0 .. n : Ahead(q, i) \in Nat
      /\ \A i \in 0 .. n - 1 : Ahead(q, i + 1) = Ahead(q, i) + Len(q[i + 1])
  <2>1. \A i \in 1 .. n : q[i] \in Seq(S)
    OBVIOUS
  <2> QED BY <2>1, AheadNext
<1> HIDE DEF n
<1>1. 0 \in U
  <2>1. k + 0 = k /\ Ahead(q, k) \in Nat
    BY <1>0
  <2> QED BY <2>1
<1>2. ASSUME NEW d \in Nat, d \in U PROVE d + 1 \in U
  <2> SUFFICES ASSUME k + (d + 1) <= n PROVE Ahead(q, k) <= Ahead(q, k + (d + 1))
    OBVIOUS
  <2>1. PICK e \in Nat : e = k + d
    BY <1>0
  <2>2. e \in 0 .. n - 1 /\ e \in 0 .. n /\ e + 1 = k + (d + 1) /\ e <= n /\ e + 1 \in 1 .. n
    BY <1>0, <2>1
  <2>3. Ahead(q, k) <= Ahead(q, e)
    BY <1>2, <2>1, <2>2
  <2>4. Ahead(q, e + 1) = Ahead(q, e) + Len(q[e + 1]) /\ Ahead(q, e) \in Nat
        /\ Len(q[e + 1]) \in Nat /\ Ahead(q, k) \in Nat
    BY <1>0, <2>2
  <2>5. Ahead(q, k) <= Ahead(q, e + 1)
    BY <2>3, <2>4
  <2> QED BY <2>2, <2>5
<1>3. \A d \in Nat : d \in U
  <2> HIDE DEF U
  <2> QED BY <1>1, <1>2, Induction
<1>4. l - k \in Nat /\ k + (l - k) = l /\ l <= n
  BY <1>0
<1>5. k + (l - k) <= n => Ahead(q, k) <= Ahead(q, k + (l - k))
  BY <1>3, <1>4
<1> QED BY <1>4, <1>5

(***************************************************************************)
(* f holds the concatenations of the first sequences of q.                 *)
(***************************************************************************)
Joined(s, t) == s \o t

Chain(f, q, n) ==
  f[1] = q[1] /\ \A i \in 2 .. n : f[i] = Joined(f[i - 1], q[i])

(***************************************************************************)
(* FlattenSeq(q) is the last of them: the recursive function exists.       *)
(***************************************************************************)
LEMMA FlattenChain ==
  ASSUME NEW S, NEW q \in Seq(Seq(S)), q # <<>>
  PROVE  \E f : Chain(f, q, Len(q)) /\ FlattenSeq(q) = f[Len(q)]
<1> DEFINE n == Len(q)
           rec(f) == [i \in 1 .. n |-> IF i = 1 THEN q[i] ELSE f[i - 1] \o q[i]]
           upto(k) == \E f \in [1 .. k -> Seq(S)] : Chain(f, q, k)
           T == {k \in Nat : 1 <= k /\ k <= n => upto(k)}
<1>0. n \in Nat /\ n >= 1 /\ \A i \in 1 .. n : q[i] \in Seq(S)
  BY EmptySeq
<1>1. 0 \in T
  OBVIOUS
<1>2. ASSUME NEW k \in Nat, k \in T PROVE k + 1 \in T
  <2> HIDE DEF upto, n
  <2> SUFFICES ASSUME k + 1 <= n PROVE upto(k + 1)
    OBVIOUS
  <2>1. CASE k = 0
    <3> DEFINE z == [i \in 1 .. 1 |-> q[1]]
    <3>1. z \in [1 .. 1 -> Seq(S)] /\ z[1] = q[1]
      BY <1>0
    <3>2. Chain(z, q, 1)
      BY <3>1 DEF Chain
    <3> HIDE DEF z
    <3>3. upto(1)
      BY <3>1, <3>2 DEF upto
    <3> QED BY <2>1, <3>3
  <2>2. CASE k # 0
    <3>0. k \in 1 .. n /\ k + 1 \in 1 .. n
      BY <1>0, <2>2
    <3>1. upto(k)
      BY <1>2, <3>0
    <3>2. PICK f \in [1 .. k -> Seq(S)] : Chain(f, q, k)
      BY <3>1 DEF upto
    <3> DEFINE x == Joined(f[k], q[k + 1])
               g == [i \in 1 .. k + 1 |-> IF i = k + 1 THEN x ELSE f[i]]
    <3>3. x \in Seq(S)
      <4>1. f[k] \in Seq(S) /\ q[k + 1] \in Seq(S)
        BY <1>0, <3>0, <3>2
      <4> QED BY <4>1, ConcatProperties DEF Joined
    <3> HIDE DEF x
    <3>4. g \in [1 .. k + 1 -> Seq(S)]
      BY <3>2, <3>3
    <3>5. /\ g[1] = f[1] /\ g[k] = f[k] /\ g[k + 1] = x
          /\ \A i \in 2 .. k : g[i] = f[i] /\ g[i - 1] = f[i - 1]
      BY <2>2
    <3> HIDE DEF g
    <3>6. \A i \in 2 .. k + 1 : i \in 2 .. k \/ (i = k + 1 /\ i - 1 = k)
      OBVIOUS
    <3>7. \A i \in 2 .. k + 1 : g[i] = Joined(g[i - 1], q[i])
      <4> SUFFICES ASSUME NEW i \in 2 .. k + 1 PROVE g[i] = Joined(g[i - 1], q[i])
        OBVIOUS
      <4>1. CASE i \in 2 .. k
        BY <3>2, <3>5, <4>1 DEF Chain
      <4>2. CASE i = k + 1 /\ i - 1 = k
        BY <3>5, <4>2 DEF x
      <4> QED BY <3>6, <4>1, <4>2
    <3>8. Chain(g, q, k + 1)
      BY <3>2, <3>5, <3>7 DEF Chain
    <3> QED BY <3>4, <3>8 DEF upto
  <2> QED BY <2>1, <2>2
<1>3. upto(n)
  <2> HIDE DEF upto
  <2>1. \A k \in Nat : k \in T
    <3> HIDE DEF T
    <3> QED BY <1>1, <1>2, Induction
  <2> QED BY <2>1, <1>0
<1>4. \E f : f = rec(f)
  <2>1. PICK f \in [1 .. n -> Seq(S)] : Chain(f, q, n)
    BY <1>3
  <2>2. \A i \in 1 .. n : i = 1 \/ i \in 2 .. n
    BY <1>0
  <2>3. \A i \in 1 .. n : f[i] = IF i = 1 THEN q[i] ELSE Joined(f[i - 1], q[i])
    BY <2>1, <2>2 DEF Chain
  <2>4. f = [i \in 1 .. n |-> f[i]]
    BY <2>1
  <2>5. f = rec(f)
    BY <2>3, <2>4, Zenon DEF Joined
  <2> QED BY <2>5
<1> DEFINE flatten == CHOOSE f : f = rec(f)
<1>5. flatten = rec(flatten)
  BY <1>4
<1>6. FlattenSeq(q) = flatten[n]
  BY <1>0 DEF FlattenSeq
<1> HIDE DEF flatten
<1>7. \A i \in 1 .. n : flatten[i] = IF i = 1 THEN q[i] ELSE Joined(flatten[i - 1], q[i])
  BY <1>5 DEF Joined
<1>8. Chain(flatten, q, n)
  <2>1. 1 \in 1 .. n /\ \A i \in 2 .. n : i \in 1 .. n /\ i # 1
    BY <1>0
  <2> QED BY <1>7, <2>1 DEF Chain
<1> QED BY <1>6, <1>8

(***************************************************************************)
(* The first m sequences of q, in f[m], element by element.                *)
(***************************************************************************)
InPlace(f, q, m) ==
  /\ Len(f[m]) = Ahead(q, m)
  /\ \A k \in 0 .. m - 1 : \A j \in 1 .. Len(q[k + 1]) : f[m][Ahead(q, k) + j] = q[k + 1][j]

(***************************************************************************)
(* One sequence more is joined.                                            *)
(***************************************************************************)
LEMMA PlacedNext ==
  ASSUME NEW S, NEW q \in Seq(Seq(S)), NEW f, Chain(f, q, Len(q)),
         NEW l \in 1 .. Len(q) - 1, f[l] \in Seq(S), InPlace(f, q, l)
  PROVE  f[l + 1] \in Seq(S) /\ InPlace(f, q, l + 1)
<1> DEFINE n == Len(q)
           a == f[l]
           b == q[l + 1]
           c == f[l + 1]
<1>0. /\ n \in Nat /\ l \in Nat /\ l \in 0 .. n - 1 /\ l + 1 \in 1 .. n /\ l + 1 \in 2 .. n
      /\ l + 1 - 1 = l /\ \A i \in 1 .. n : q[i] \in Seq(S)
  OBVIOUS
<1>1. \A i \in 1 .. n : Len(q[i]) \in Nat
  BY <1>0
<1>2. /\ \A i \in 0 .. n : Ahead(q, i) \in Nat
      /\ \A i \in 0 .. n - 1 : Ahead(q, i + 1) = Ahead(q, i) + Len(q[i + 1])
  BY AheadNext
<1>3. c = Joined(a, b) /\ a \in Seq(S) /\ b \in Seq(S) /\ Len(b) \in Nat
  BY <1>0, <1>1 DEF Chain
<1>4. Len(a) = Ahead(q, l) /\ Len(a) \in Nat
  BY <1>0, <1>2 DEF InPlace
<1>5. Ahead(q, l + 1) = Len(a) + Len(b)
  BY <1>0, <1>2, <1>4
<1>p. \A k \in 0 .. l - 1 : \A j \in 1 .. Len(q[k + 1]) : a[Ahead(q, k) + j] = q[k + 1][j]
  BY DEF InPlace
<1> HIDE DEF a, b, c
<1>6. /\ c \in Seq(S) /\ Len(c) = Len(a) + Len(b)
      /\ \A i \in 1 .. Len(a) + Len(b) : c[i] = IF i <= Len(a) THEN a[i] ELSE b[i - Len(a)]
  BY <1>3, ConcatProperties DEF Joined
<1>7. ASSUME NEW k \in 0 .. l, NEW j \in 1 .. Len(q[k + 1])
      PROVE  c[Ahead(q, k) + j] = q[k + 1][j]
  <2>1. CASE k = l
    <3>0. j \in 1 .. Len(b) /\ q[k + 1] = b
      BY <2>1 DEF b
    <3>1. Ahead(q, k) = Len(a)
      BY <1>4, <2>1
    <3>2. PICK x : x = Len(a) + j
      OBVIOUS
    <3>3. x \in 1 .. Len(a) + Len(b) /\ ~(x <= Len(a)) /\ x - Len(a) = j
      BY <1>3, <1>4, <3>0, <3>2, SMTT(30)
    <3>4. c[x] = IF x <= Len(a) THEN a[x] ELSE b[x - Len(a)]
      BY <1>6, <3>3
    <3>5. c[x] = b[j]
      BY <3>3, <3>4
    <3> QED BY <3>0, <3>1, <3>2, <3>5
  <2>2. CASE k # l
    <3>1. k \in 0 .. l - 1 /\ k \in 0 .. n - 1 /\ k + 1 \in 1 .. n /\ k + 1 \in 0 .. n
          /\ l \in k + 1 .. n
      BY <1>0, <2>2
    <3>2. a[Ahead(q, k) + j] = q[k + 1][j]
      BY <1>p, <3>1
    <3>3. /\ Ahead(q, k + 1) = Ahead(q, k) + Len(q[k + 1]) /\ Ahead(q, k) \in Nat
          /\ Len(q[k + 1]) \in Nat
      BY <1>1, <1>2, <3>1
    <3>4. Ahead(q, k + 1) <= Len(a)
      BY <1>4, <3>1, AheadGrows
    <3>5. PICK y, m : y = Ahead(q, k) /\ m = Len(q[k + 1])
      OBVIOUS
    <3>6. y \in Nat /\ m \in Nat /\ j \in 1 .. m /\ y + m <= Len(a)
      BY <3>3, <3>4, <3>5
    <3>7. y + j \in 1 .. Len(a) + Len(b) /\ y + j <= Len(a)
      BY <1>3, <1>4, <3>6
    <3>8. c[y + j] = a[y + j]
      BY <1>6, <3>7
    <3> QED BY <3>2, <3>5, <3>8
  <2> QED BY <2>1, <2>2
<1>8. Len(c) = Ahead(q, l + 1)
  BY <1>5, <1>6
<1>9. \A k \in 0 .. l + 1 - 1 : k \in 0 .. l
  BY <1>0
<1> QED BY <1>6, <1>7, <1>8, <1>9 DEF c, InPlace

(***************************************************************************)
(* The elements of the flattened sequence, at their places.                *)
(***************************************************************************)
LEMMA FlattenPlaces ==
  ASSUME NEW S, NEW q \in Seq(Seq(S))
  PROVE  /\ FlattenSeq(q) \in Seq(S) /\ Len(FlattenSeq(q)) = Ahead(q, Len(q))
         /\ \A k \in 0 .. Len(q) - 1 : \A j \in 1 .. Len(q[k + 1]) :
              FlattenSeq(q)[Ahead(q, k) + j] = q[k + 1][j]
<1> DEFINE n == Len(q)
<1>0. n \in Nat /\ Ahead(q, 0) = 0
  BY AheadNext
<1>1. CASE q = <<>>
  <2>1. FlattenSeq(q) = <<>> /\ n = 0
    BY <1>1 DEF FlattenSeq
  <2>2. <<>> \in Seq(S) /\ Len(<<>>) = 0 /\ \A k \in 0 .. n - 1 : FALSE
    BY <2>1
  <2>3. Len(FlattenSeq(q)) = Ahead(q, Len(q))
    BY <1>0, <2>1, <2>2
  <2> QED BY <2>1, <2>2, <2>3
<1>2. CASE q # <<>>
  <2>1. PICK f : Chain(f, q, n) /\ FlattenSeq(q) = f[n]
    BY <1>2, FlattenChain
  <2>2. n >= 1 /\ q[1] \in Seq(S)
    BY <1>2, <1>0, EmptySeq
  <2> DEFINE good(m) == f[m] \in Seq(S) /\ InPlace(f, q, m)
             T == {m \in Nat : 1 <= m /\ m <= n => good(m)}
  <2>3. 0 \in T
    OBVIOUS
  <2>4. ASSUME NEW m \in Nat, m \in T PROVE m + 1 \in T
    <3> HIDE DEF good
    <3> SUFFICES ASSUME m + 1 <= n PROVE good(m + 1)
      OBVIOUS
    <3>1. CASE m = 0
      <4>1. f[1] = q[1] /\ f[1] \in Seq(S) /\ Len(q[1]) \in Nat
        BY <2>1, <2>2 DEF Chain
      <4>2. Ahead(q, 1) = Len(q[1])
        <5>1. 0 \in 0 .. n - 1 /\ 0 + 1 = 1
          BY <1>0, <2>2
        <5>2. Ahead(q, 0 + 1) = Ahead(q, 0) + Len(q[0 + 1])
          BY <5>1, AheadNext
        <5> QED BY <1>0, <4>1, <5>1, <5>2
      <4>3. \A k \in 0 .. 1 - 1 : \A j \in 1 .. Len(q[k + 1]) :
              f[1][Ahead(q, k) + j] = q[k + 1][j]
        <5> SUFFICES ASSUME NEW k \in 0 .. 0, NEW j \in 1 .. Len(q[k + 1])
                     PROVE  f[1][Ahead(q, k) + j] = q[k + 1][j]
          OBVIOUS
        <5>1. k = 0 /\ k + 1 = 1 /\ Ahead(q, k) + j = j
          BY <1>0
        <5> QED BY <4>1, <5>1
      <4>4. good(1)
        BY <4>1, <4>2, <4>3 DEF good, InPlace
      <4> QED BY <3>1, <4>4
    <3>2. CASE m # 0
      <4>1. m \in 1 .. n - 1 /\ good(m)
        BY <1>0, <2>4, <3>2
      <4> QED BY <2>1, <4>1, PlacedNext DEF good
    <3> QED BY <3>1, <3>2
  <2>5. good(n)
    <3> HIDE DEF good
    <3>1. \A m \in Nat : m \in T
      <4> HIDE DEF T
      <4> QED BY <2>3, <2>4, Induction
    <3> QED BY <1>0, <2>2, <3>1
  <2> QED BY <2>1, <2>5 DEF InPlace
<1> QED BY <1>1, <1>2

(***************************************************************************)
(* Concatenations depend only on the sequences concatenated.               *)
(***************************************************************************)
LEMMA ChainAgree ==
  ASSUME NEW q, NEW p, NEW f, NEW g, NEW n \in Nat, NEW k \in Nat,
         Chain(f, q, n), Chain(g, p, k),
         NEW m \in Nat, 1 <= m, m <= n, m <= k, \A i \in 1 .. m : q[i] = p[i]
  PROVE  f[m] = g[m]
<1> DEFINE T == {i \in Nat : i + 1 <= m => f[i + 1] = g[i + 1]}
<1>1. 0 \in T
  BY DEF Chain
<1>2. ASSUME NEW i \in Nat, i \in T PROVE i + 1 \in T
  <2> SUFFICES ASSUME (i + 1) + 1 <= m PROVE f[(i + 1) + 1] = g[(i + 1) + 1]
    OBVIOUS
  <2>1. PICK j \in Nat : j = i + 1
    OBVIOUS
  <2>2. j + 1 \in 2 .. n /\ j + 1 \in 2 .. k /\ j + 1 \in 1 .. m /\ (j + 1) - 1 = j
    BY <2>1
  <2>3. f[j] = g[j]
    BY <1>2, <2>1
  <2>4. f[j + 1] = Joined(f[j], q[j + 1]) /\ g[j + 1] = Joined(g[j], p[j + 1])
    BY <2>2 DEF Chain
  <2> QED BY <2>1, <2>2, <2>3, <2>4
<1>3. \A i \in Nat : i \in T
  <2> HIDE DEF T
  <2> QED BY <1>1, <1>2, Induction
<1>4. m - 1 \in Nat /\ (m - 1) + 1 = m
  OBVIOUS
<1> QED BY <1>3, <1>4

(***************************************************************************)
(* Flattening with one sequence more.                                      *)
(***************************************************************************)
LEMMA FlattenAppend ==
  ASSUME NEW S, NEW p \in Seq(Seq(S)), NEW x \in Seq(S)
  PROVE  FlattenSeq(Append(p, x)) = FlattenSeq(p) \o x /\ FlattenSeq(p) \in Seq(S)
<1>0. PICK V : V = Seq(S)
  OBVIOUS
<1>1. PICK n \in Nat : n = Len(p)
  OBVIOUS
<1>2. PICK q : q = Append(p, x)
  OBVIOUS
<1>3. /\ q \in Seq(V) /\ Len(q) = n + 1 /\ q # <<>> /\ q[n + 1] = x
      /\ \A i \in 1 .. n : q[i] = p[i]
  <2>1. p \in Seq(V) /\ x \in V
    BY <1>0
  <2> QED BY <1>1, <1>2, <2>1, AppendProperties
<1>4. PICK g : Chain(g, q, n + 1) /\ FlattenSeq(q) = g[n + 1]
  BY <1>0, <1>3, FlattenChain
<1>5. FlattenSeq(p) \in Seq(S)
  BY FlattenPlaces
<1>6. CASE n = 0
  <2>1. FlattenSeq(p) = <<>>
    <3>1. p = <<>>
      BY <1>0, <1>1, <1>6, EmptySeq
    <3> QED BY <3>1 DEF FlattenSeq
  <2>2. g[n + 1] = x
    BY <1>3, <1>4, <1>6 DEF Chain
  <2>3. <<>> \o x = x
    BY ConcatEmptySeq
  <2> QED BY <1>2, <1>4, <1>5, <2>1, <2>2, <2>3
<1>7. CASE n # 0
  <2>1. p # <<>>
    BY <1>1, <1>7
  <2>2. PICK f : Chain(f, p, n) /\ FlattenSeq(p) = f[n]
    BY <1>1, <2>1, FlattenChain
  <2>3. f[n] = g[n]
    <3>1. n + 1 \in Nat /\ 1 <= n /\ n <= n + 1 /\ n <= n
      BY <1>7
    <3>2. \A i \in 1 .. n : p[i] = q[i]
      BY <1>3
    <3> QED BY <1>4, <2>2, <3>1, <3>2, ChainAgree
  <2>4. g[n + 1] = Joined(g[n], x)
    <3>1. n + 1 \in 2 .. n + 1 /\ (n + 1) - 1 = n
      BY <1>7
    <3> QED BY <1>3, <1>4, <3>1 DEF Chain
  <2> QED BY <1>2, <1>4, <1>5, <2>2, <2>3, <2>4 DEF Joined
<1> QED BY <1>6, <1>7

(***************************************************************************)
(* Flattening when the last sequence gains an element.                     *)
(***************************************************************************)
LEMMA FlattenExtended ==
  ASSUME NEW S, NEW q \in Seq(Seq(S)), q # <<>>, NEW e \in S
  PROVE  /\ [q EXCEPT ![Len(q)] = Append(@, e)] \in Seq(Seq(S))
         /\ FlattenSeq([q EXCEPT ![Len(q)] = Append(@, e)]) = Append(FlattenSeq(q), e)
<1>0. PICK V : V = Seq(S)
  OBVIOUS
<1>1. PICK n \in Nat : n = Len(q)
  OBVIOUS
<1>2. n >= 1 /\ n \in 1 .. n /\ q \in Seq(V)
  BY <1>0, <1>1, EmptySeq
<1>3. PICK x \in V : x = q[n]
  BY <1>1, <1>2
<1>4. PICK y \in V : y = Append(x, e)
  BY <1>0, <1>3, AppendProperties
<1>5. PICK r : r = [q EXCEPT ![n] = y]
  OBVIOUS
<1>6. r = [q EXCEPT ![Len(q)] = Append(@, e)]
  BY <1>1, <1>2, <1>3, <1>4, <1>5
<1>7. PICK p : p = SubSeq(q, 1, n - 1)
  OBVIOUS
<1>8. p \in Seq(V) /\ Len(p) = n - 1 /\ \A i \in 1 .. n - 1 : p[i] = q[i]
  BY <1>1, <1>2, <1>7
<1>9. q = Append(p, x)
  <2>1. PICK w : w = Append(p, x)
    OBVIOUS
  <2>2. /\ w \in Seq(V) /\ Len(w) = n /\ w[n] = x /\ \A i \in 1 .. n - 1 : w[i] = p[i]
    BY <1>2, <1>8, <2>1
  <2>3. \A i \in 1 .. n : i \in 1 .. n - 1 \/ i = n
    OBVIOUS
  <2>4. \A i \in 1 .. n : w[i] = q[i]
    BY <1>3, <1>8, <2>2, <2>3
  <2>5. w = q
    BY <1>1, <1>2, <2>2, <2>4, SeqEqual
  <2> QED BY <2>1, <2>5
<1>10. r = Append(p, y) /\ r \in Seq(V)
  <2>1. PICK w : w = Append(p, y)
    OBVIOUS
  <2>2. /\ w \in Seq(V) /\ Len(w) = n /\ w[n] = y /\ \A i \in 1 .. n - 1 : w[i] = p[i]
    BY <1>2, <1>8, <2>1
  <2>3. \A i \in 1 .. n : i \in 1 .. n - 1 \/ i = n
    OBVIOUS
  <2>4. r \in Seq(V) /\ Len(r) = n /\ r[n] = y /\ \A i \in 1 .. n - 1 : r[i] = q[i]
    BY <1>1, <1>2, <1>5
  <2>5. \A i \in 1 .. n : w[i] = r[i]
    BY <1>8, <2>2, <2>3, <2>4
  <2>6. w = r
    BY <2>2, <2>4, <2>5, SeqEqual
  <2> QED BY <2>1, <2>4, <2>6
<1>11. PICK z \in Seq(S) : z = FlattenSeq(p)
  BY <1>0, <1>8, FlattenAppend
<1>12. FlattenSeq(q) = z \o x /\ FlattenSeq(r) = z \o y
  BY <1>0, <1>8, <1>9, <1>10, <1>11, FlattenAppend
<1>13. z \o Append(x, e) = Append(z \o x, e)
  <2>1. x \in Seq(S)
    BY <1>0, <1>3
  <2> QED BY <2>1
<1> QED BY <1>0, <1>4, <1>6, <1>10, <1>12, <1>13

(***************************************************************************)
(* A bounded set of naturals that is not empty has a greatest element.     *)
(***************************************************************************)
LEMMA GreatestNatural ==
  ASSUME NEW n \in Nat, NEW T, T \subseteq 0 .. n, T # {}
  PROVE  \E m \in T : \A k \in T : k <= m
<1> DEFINE D == {n - k : k \in T}
<1>0. \A k \in T : k \in Nat /\ n - k \in Nat
  <2>1. \A k \in 0 .. n : k \in Nat /\ n - k \in Nat
    OBVIOUS
  <2> QED BY <2>1
<1>1. D \subseteq Nat /\ D # {}
  BY <1>0
<1>2. PICK d \in D : \A c \in D : d <= c
  <2> HIDE DEF D
  <2> QED BY <1>1, LeastNatural
<1>3. PICK m \in T : d = n - m
  OBVIOUS
<1>4. ASSUME NEW k \in T PROVE k <= m
  <2>1. n - k \in D
    OBVIOUS
  <2>2. n - m <= n - k
    BY <1>2, <1>3, <2>1
  <2>3. m \in Nat /\ k \in Nat
    BY <1>0
  <2> HIDE DEF D
  <2> QED BY <2>2, <2>3
<1> QED BY <1>4

(***************************************************************************)
(* Every element of a flattened sequence comes from one of its sequences.  *)
(***************************************************************************)
LEMMA FlattenOrigin ==
  ASSUME NEW S, NEW q \in Seq(Seq(S)), NEW p \in 1 .. Len(FlattenSeq(q))
  PROVE  \E k \in 0 .. Len(q) - 1 : \E j \in 1 .. Len(q[k + 1]) :
           p = Ahead(q, k) + j /\ p <= Ahead(q, k + 1) /\ FlattenSeq(q)[p] = q[k + 1][j]
<1> DEFINE n == Len(q)
           T == {k \in 0 .. n : Ahead(q, k) < p}
<1>0. n \in Nat /\ \A k \in 0 .. n - 1 : Len(q[k + 1]) \in Nat /\ k \in 0 .. n
  OBVIOUS
<1>1. Len(FlattenSeq(q)) = Ahead(q, n) /\ Ahead(q, n) \in Nat
  BY FlattenPlaces
<1>2. p \in Nat /\ p > 0 /\ p <= Ahead(q, n) /\ Ahead(q, 0) = 0
  BY <1>1, AheadNext
<1>3. 0 \in T /\ T \subseteq 0 .. n
  BY <1>0, <1>2
<1>4. PICK k \in T : \A l \in T : l <= k
  <2> HIDE DEF T, n
  <2> QED BY <1>0, <1>3, GreatestNatural
<1>5. k \in 0 .. n - 1 /\ k + 1 \in 0 .. n /\ Ahead(q, k) < p /\ Ahead(q, k) \in Nat
  <2>1. Ahead(q, k) < p /\ k \in 0 .. n
    OBVIOUS
  <2>2. Ahead(q, k) \in Nat
    BY <2>1, AheadNext
  <2>3. k # n
    BY <1>1, <1>2, <2>1, <2>2
  <2> QED BY <1>0, <2>1, <2>2, <2>3
<1>6. Ahead(q, k + 1) = Ahead(q, k) + Len(q[k + 1])
  BY <1>5, AheadNext
<1>7. p <= Ahead(q, k + 1)
  <2>1. k + 1 \notin T
    <3> HIDE DEF T
    <3>1. ~(k + 1 <= k)
      BY <1>5
    <3> QED BY <1>4, <3>1
  <2>2. ~(Ahead(q, k + 1) < p)
    BY <1>5, <2>1
  <2>3. Len(q[k + 1]) \in Nat
    BY <1>0, <1>5
  <2> QED BY <1>2, <1>5, <1>6, <2>2, <2>3
<1> HIDE DEF T
<1>8. PICK j : j = p - Ahead(q, k)
  OBVIOUS
<1>9. j \in 1 .. Len(q[k + 1]) /\ p = Ahead(q, k) + j
  <2>1. Len(q[k + 1]) \in Nat
    BY <1>0, <1>5
  <2> QED BY <1>2, <1>5, <1>6, <1>7, <1>8, <2>1
<1>10. FlattenSeq(q)[Ahead(q, k) + j] = q[k + 1][j]
  BY <1>5, <1>9, FlattenPlaces
<1> QED BY <1>5, <1>7, <1>9, <1>10

(***************************************************************************)
(* w is s, of length n, with e at a.                                       *)
(***************************************************************************)
InsertedAt(w, s, n, a, e) ==
  /\ Len(w) = n + 1 /\ w[a] = e
  /\ \A i \in 1 .. a - 1 : w[i] = s[i]
  /\ \A i \in a + 1 .. n + 1 : w[i] = s[i - 1]

(***************************************************************************)
(* A sequence with an element inserted.                                    *)
(***************************************************************************)
LEMMA Inserted ==
  ASSUME NEW S, NEW s \in Seq(S), NEW e \in S, NEW n \in Nat, n = Len(s),
         NEW a \in 1 .. n + 1, NEW w, w = InsertAt(s, a, e)
  PROVE  w \in Seq(S) /\ InsertedAt(w, s, n, a, e)
<1>0. n = Len(s)
  OBVIOUS
<1>1. PICK b : b = SubSeq(s, 1, a - 1)
  OBVIOUS
<1>2. PICK c : c = SubSeq(s, a, n)
  OBVIOUS
<1>3. b \in Seq(S) /\ Len(b) = a - 1 /\ \A i \in 1 .. a - 1 : b[i] = s[i]
  BY <1>0, <1>1
<1>4. c \in Seq(S) /\ Len(c) = n - a + 1 /\ \A i \in 1 .. n - a + 1 : c[i] = s[a + i - 1]
  BY <1>0, <1>2
<1>5. PICK d : d = b \o <<e>>
  OBVIOUS
<1>6. d \in Seq(S) /\ Len(d) = a /\ d[a] = e /\ \A i \in 1 .. a - 1 : d[i] = b[i]
  BY <1>3, <1>5
<1>7. w = d \o c
  BY <1>0, <1>1, <1>2, <1>5 DEF InsertAt
<1>8. /\ w \in Seq(S) /\ Len(w) = Len(d) + Len(c)
      /\ \A i \in 1 .. Len(d) + Len(c) : w[i] = IF i <= Len(d) THEN d[i] ELSE c[i - Len(d)]
  BY <1>4, <1>6, <1>7, ConcatProperties
<1>9. Len(w) = n + 1 /\ \A i \in 1 .. n + 1 : w[i] = IF i <= a THEN d[i] ELSE c[i - a]
  BY <1>0, <1>4, <1>6, <1>8
<1>10. w[a] = e /\ \A i \in 1 .. a - 1 : w[i] = s[i]
  BY <1>0, <1>3, <1>6, <1>9
<1>11. ASSUME NEW i \in a + 1 .. n + 1 PROVE w[i] = s[i - 1]
  <2>1. PICK j \in 1 .. n - a + 1 : j = i - a /\ a + j - 1 = i - 1
    BY <1>0
  <2>2. w[i] = c[j]
    BY <1>0, <1>9, <2>1
  <2> QED BY <1>4, <2>1, <2>2
<1> QED BY <1>8, <1>9, <1>10, <1>11 DEF InsertedAt
=============================================================================
