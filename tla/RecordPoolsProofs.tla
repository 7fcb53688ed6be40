-------------------------- MODULE RecordPoolsProofs --------------------------
(***************************************************************************)
(* The theorems of the record pools, for every size of the tables, of the  *)
(* ring and of the diag budget, every sequence of TLVs, well-formed or     *)
(* not, and every pattern of malloc failures.                              *)
(***************************************************************************)
EXTENDS RecordPools, DataLemmas

(***************************************************************************)
(* The types of the pools.                                                 *)
(***************************************************************************)
PoolTypes ==
  /\ live \in SUBSET Handle /\ fresh \in Nat
  /\ event \in Seq(Handle) /\ sensor \in Seq(Handle)
  /\ config \in Seq(Handle) /\ diag \in Seq(Handle) /\ diag_bytes \in Nat
  /\ ring \in [0 .. RingSize - 1 -> Handle \cup {NULL}] /\ pos \in 0 .. RingSize - 1

(***************************************************************************)
(* malloc returns an address that no live payload has.                     *)
(***************************************************************************)
FreshIsNew == \A h \in live : h.id < fresh

IInv == /\ PoolTypes /\ FreshIsNew
        /\ PoolsOwnLive /\ CurrentRecordLive /\ OnlyEventAndDiagLeak /\ DiagAccounting

-----------------------------------------------------------------------------

(***************************************************************************)
(* The fields of a payload.                                                *)
(***************************************************************************)
LEMMA HandleFields ==
  \A h \in Handle : h.kind \in PoolKinds /\ h.id \in Nat /\ h.size \in Nat
BY DEF Handle

(***************************************************************************)
(* Sizes of the blobs of the diag pool.                                    *)
(***************************************************************************)
LEMMA SizesType ==
  ASSUME NEW s \in Seq(Handle)
  PROVE  /\ [i \in DOMAIN s |-> s[i].size] \in Seq(Nat)
         /\ Len([i \in DOMAIN s |-> s[i].size]) = Len(s)
<1>1. \A i \in 1 .. Len(s) : s[i].size \in Nat
  BY HandleFields
<1> QED BY <1>1

(***************************************************************************)
(* The bytes of a sequence of blobs: a natural number, 0 for none, and     *)
(* additive in the end of the pool and in a cut of it.                     *)
(***************************************************************************)
LEMMA BytesNat == ASSUME NEW s \in Seq(Handle) PROVE Bytes(s) \in Nat
BY SizesType, TotalNat DEF Bytes

(***************************************************************************)
(* No blobs, no bytes.                                                     *)
(***************************************************************************)
LEMMA BytesEmpty == Bytes(<<>>) = 0
<1>1. [i \in DOMAIN <<>> |-> <<>>[i].size] = <<>>
  OBVIOUS
<1> QED BY <1>1, TotalEmpty DEF Bytes

(***************************************************************************)
(* dtl_diag_blob_alloc records a blob at the end of the pool.              *)
(***************************************************************************)
LEMMA BytesAppend ==
  ASSUME NEW s \in Seq(Handle), NEW h \in Handle
  PROVE  Bytes(Append(s, h)) = Bytes(s) + h.size
<1> DEFINE z == [i \in DOMAIN s |-> s[i].size]
           t == Append(s, h)
<1>1. z \in Seq(Nat) /\ Len(z) = Len(s) /\ h.size \in Nat
  BY SizesType DEF Handle
<1>2. [i \in DOMAIN t |-> t[i].size] = Append(z, h.size)
  <2>1. t \in Seq(Handle) /\ Len(t) = Len(s) + 1
        /\ (\A i \in 1 .. Len(s) : t[i] = s[i]) /\ t[Len(s) + 1] = h
    BY AppendProperties
  <2>2. \A i \in 1 .. Len(s) : Append(z, h.size)[i] = s[i].size
    BY <1>1, AppendProperties
  <2>3. Append(z, h.size) \in Seq(Nat) /\ Len(Append(z, h.size)) = Len(s) + 1
        /\ Append(z, h.size)[Len(s) + 1] = h.size
    BY <1>1, AppendProperties
  <2>4. [i \in DOMAIN t |-> t[i].size] \in Seq(Nat)
        /\ Len([i \in DOMAIN t |-> t[i].size]) = Len(s) + 1
    BY <2>1, SizesType
  <2>5. \A i \in 1 .. Len(s) + 1 : t[i].size = Append(z, h.size)[i]
    BY <2>1, <2>2, <2>3
  <2>6. \A i \in 1 .. Len(s) + 1 : [j \in DOMAIN t |-> t[j].size][i] = Append(z, h.size)[i]
    BY <2>1, <2>5
  <2> HIDE DEF z, t
  <2> QED BY <2>3, <2>4, <2>6, SeqEqual
<1> HIDE DEF z
<1>3. Total(Append(z, h.size)) = Total(z) + h.size
  BY <1>1, TotalAppend
<1> QED BY <1>2, <1>3 DEF Bytes, z

(***************************************************************************)
(* The evictions cut the pool in two.                                      *)
(***************************************************************************)
LEMMA BytesSplit ==
  ASSUME NEW s \in Seq(Handle), NEW e \in 0 .. Len(s)
  PROVE  Bytes(s) = Bytes(SubSeq(s, 1, e)) + Bytes(SubSeq(s, e + 1, Len(s)))
<1> DEFINE z(t) == [i \in DOMAIN t |-> t[i].size]
<1>1. z(s) \in Seq(Nat) /\ Len(z(s)) = Len(s) /\ \A i \in 1 .. Len(s) : s[i] \in Handle
  BY SizesType
<1>2. ASSUME NEW a \in 1 .. Len(s) + 1, NEW b \in 0 .. Len(s)
      PROVE  z(SubSeq(s, a, b)) = SubSeq(z(s), a, b)
  <2> DEFINE t == SubSeq(s, a, b)
             u == SubSeq(z(s), a, b)
  <2>1. /\ t \in Seq(Handle) /\ Len(t) = IF a <= b THEN b - a + 1 ELSE 0
        /\ \A i \in 1 .. b - a + 1 : t[i] = s[a + i - 1]
    BY <1>1, SubSeqProperties
  <2>2. PICK y \in Seq(Nat) : y = z(s)
    BY <1>1
  <2>3. /\ u \in Seq(Nat) /\ Len(u) = IF a <= b THEN b - a + 1 ELSE 0
        /\ \A i \in 1 .. b - a + 1 : u[i] = z(s)[a + i - 1]
    <3> HIDE DEF z
    <3>1. Len(y) = Len(s) /\ \A i \in a .. b : i \in 1 .. Len(y)
      BY <1>1, <2>2
    <3>2. \A i \in a .. b : y[i] \in Nat
      BY <3>1
    <3>3. /\ SubSeq(y, a, b) \in Seq(Nat)
          /\ Len(SubSeq(y, a, b)) = IF a <= b THEN b - a + 1 ELSE 0
          /\ \A i \in 1 .. b - a + 1 : SubSeq(y, a, b)[i] = y[a + i - 1]
      BY <3>2, SubSeqProperties
    <3> QED BY <2>2, <3>3
  <2>4. z(t) \in Seq(Nat) /\ Len(z(t)) = Len(t)
    BY <2>1, SizesType
  <2> HIDE DEF u, t
  <2>5. \A i \in 1 .. Len(t) : z(t)[i] = u[i]
    <3> SUFFICES ASSUME NEW i \in 1 .. Len(t) PROVE z(t)[i] = u[i]
      OBVIOUS
    <3>1. i \in 1 .. b - a + 1 /\ a + i - 1 \in 1 .. Len(s)
      BY <2>1
    <3>2. z(t)[i] = t[i].size /\ z(s)[a + i - 1] = s[a + i - 1].size
      BY <2>1, <3>1
    <3> QED BY <2>1, <2>3, <3>1, <3>2
  <2> HIDE DEF z
  <2>6. z(t) = u
    BY <2>1, <2>3, <2>4, <2>5, SeqEqual
  <2> QED BY <2>6 DEF t, u
<1> HIDE DEF z
<1>3. Total(z(s)) = Total(SubSeq(z(s), 1, e)) + Total(SubSeq(z(s), e + 1, Len(s)))
  BY <1>1, TotalSplit
<1>4. z(SubSeq(s, 1, e)) = SubSeq(z(s), 1, e)
      /\ z(SubSeq(s, e + 1, Len(s))) = SubSeq(z(s), e + 1, Len(s))
  <2>1. 1 \in 1 .. Len(s) + 1 /\ e + 1 \in 1 .. Len(s) + 1 /\ Len(s) \in 0 .. Len(s)
    OBVIOUS
  <2> QED BY <1>2, <2>1
<1> QED BY <1>3, <1>4 DEF Bytes, z

(***************************************************************************)
(* The eviction loop of dtl_diag_blob_alloc stops with all blobs gone or   *)
(* at the first point where the new one fits the budget.                   *)
(***************************************************************************)
LEMMA EvictedFits ==
  ASSUME NEW n \in Nat, diag \in Seq(Handle), diag_bytes \in Nat
  PROVE  /\ Evicted(n) \in 0 .. Len(diag)
         /\ \/ Evicted(n) = Len(diag)
            \/ diag_bytes - Bytes(SubSeq(diag, 1, Evicted(n))) + n <= DiagBudget
<1> DEFINE left(e) == diag_bytes - Bytes(SubSeq(diag, 1, e)) + n
           fits(e) == e = Len(diag) \/ left(e) <= DiagBudget
           T == {e \in 0 .. Len(diag) : fits(e)}
<1>0. Len(diag) \in Nat /\ DiagBudget \in Nat
  BY PoolConstants
<1>a. \A e \in 0 .. Len(diag) : left(e) \in Int
  <2> SUFFICES ASSUME NEW e \in 0 .. Len(diag) PROVE left(e) \in Int
    OBVIOUS
  <2>1. \A i \in 1 .. e : diag[i] \in Handle
    BY <1>0
  <2>2. SubSeq(diag, 1, e) \in Seq(Handle)
    BY <1>0, <2>1, SubSeqProperties
  <2>3. Bytes(SubSeq(diag, 1, e)) \in Nat
    BY <2>2, BytesNat
  <2> QED BY <2>3
<1> HIDE DEF left
<1>1. T \subseteq Nat /\ Len(diag) \in T
  BY <1>0
<1>2. PICK e \in T : \A f \in T : e <= f
  BY <1>1, LeastNatural
<1>3. \A f \in 0 .. e - 1 : left(f) > DiagBudget
  <2> SUFFICES ASSUME NEW f \in 0 .. e - 1 PROVE left(f) > DiagBudget
    OBVIOUS
  <2>1. f \in 0 .. Len(diag) /\ f \notin T
    BY <1>0, <1>1, <1>2
  <2> QED BY <1>0, <1>a, <2>1
<1>4. e \in 0 .. Len(diag) /\ fits(e)
  BY <1>2
<1> HIDE DEF T
<1>5. \E x \in 0 .. Len(diag) : /\ x = Len(diag) \/ left(x) <= DiagBudget
                                /\ \A f \in 0 .. x - 1 : left(f) > DiagBudget
  BY <1>3, <1>4
<1> QED BY <1>5 DEF Evicted, left

-----------------------------------------------------------------------------

(***************************************************************************)
(* The slots of one pool, apart from the bounds on its length.             *)
(***************************************************************************)
OwnedBy(slots, kind, L) ==
  /\ \A i \in DOMAIN slots : slots[i] \in L /\ slots[i].kind = kind
  /\ Distinct(slots)

RingOwned(r, L) ==
  /\ \A i \in DOMAIN r : r[i] # NULL => r[i] \in L /\ r[i].kind = "KEYREF"
  /\ \A i, j \in DOMAIN r : r[i] = r[j] /\ r[i] # NULL => i = j

Bounds == /\ Len(event) <= EventMax /\ Len(sensor) <= SensorMax
          /\ Len(config) <= CfgMax /\ Len(diag) <= DiagMax /\ pos \in 0 .. RingSize - 1

(***************************************************************************)
(* PoolsOwnLive, pool by pool.                                             *)
(***************************************************************************)
LEMMA OwnLiveParts ==
  PoolsOwnLive <=> /\ Bounds
                   /\ OwnedBy(event, "EVENT", live) /\ OwnedBy(sensor, "SENSOR", live)
                   /\ OwnedBy(config, "CONFIG", live) /\ OwnedBy(diag, "DIAG", live)
                   /\ RingOwned(ring, live)
BY DEF PoolsOwnLive, Bounds, OwnedBy, RingOwned, Owned

(***************************************************************************)
(* What frees payloads of another kind, and what malloc returns, leaves a  *)
(* pool as it is.                                                          *)
(***************************************************************************)
LEMMA OtherKindsKept ==
  ASSUME NEW L, NEW M, NEW kind, \A h \in L \ M : h.kind = kind
  PROVE  /\ \A s, k : k # kind /\ OwnedBy(s, k, L) => OwnedBy(s, k, M)
         /\ \A r : kind # "KEYREF" /\ RingOwned(r, L) => RingOwned(r, M)
BY DEF OwnedBy, RingOwned

(***************************************************************************)
(* A new payload goes to the end of a pool that holds only live ones.      *)
(***************************************************************************)
LEMMA AppendOwned ==
  ASSUME NEW L, NEW kind, NEW s \in Seq(Handle), NEW h \in Handle,
         OwnedBy(s, kind, L), h \notin L, h.kind = kind
  PROVE  /\ OwnedBy(Append(s, h), kind, L \cup {h})
         /\ Append(s, h) \in Seq(Handle) /\ Len(Append(s, h)) = Len(s) + 1
         /\ ToSet(Append(s, h)) = ToSet(s) \cup {h}
<1> DEFINE t == Append(s, h)
<1>1. /\ t \in Seq(Handle) /\ Len(t) = Len(s) + 1 /\ Len(s) \in Nat
      /\ (\A i \in 1 .. Len(s) : t[i] = s[i]) /\ t[Len(s) + 1] = h
  BY AppendProperties
<1>2. DOMAIN t = 1 .. Len(s) + 1 /\ DOMAIN s = 1 .. Len(s)
  BY <1>1
<1>3. \A i \in 1 .. Len(s) : s[i] \in L /\ s[i].kind = kind
  BY <1>2 DEF OwnedBy
<1> HIDE DEF t
<1>4. \A i \in DOMAIN t : i \in 1 .. Len(s) \/ i = Len(s) + 1
  BY <1>1, <1>2
<1>5. OwnedBy(t, kind, L \cup {h})
  <2>1. \A i \in DOMAIN t : t[i] \in L \cup {h} /\ t[i].kind = kind
    BY <1>1, <1>3, <1>4
  <2>2. ASSUME NEW i \in DOMAIN t, NEW j \in DOMAIN t, t[i] = t[j] PROVE i = j
    <3>1. CASE i \in 1 .. Len(s) /\ j \in 1 .. Len(s)
      BY <1>1, <1>2, <2>2, <3>1 DEF OwnedBy, Distinct
    <3>2. CASE i = Len(s) + 1 \/ j = Len(s) + 1
      BY <1>1, <1>3, <1>4, <2>2, <3>2
    <3> QED BY <1>4, <3>1, <3>2
  <2> QED BY <2>1, <2>2 DEF OwnedBy, Distinct
<1>6. ToSet(t) = ToSet(s) \cup {h}
  BY <1>1, <1>2, <1>4 DEF ToSet
<1> QED BY <1>1, <1>5, <1>6 DEF t

(***************************************************************************)
(* A pool that is emptied, or loses its oldest payloads, owns the rest.    *)
(***************************************************************************)
LEMMA EmptyOwned ==
  \A kind, L : OwnedBy(<<>>, kind, L) /\ <<>> \in Seq(Handle) /\ Len(<<>>) = 0 /\ ToSet(<<>>) = {}
BY DEF OwnedBy, Distinct, ToSet

(***************************************************************************)
(* The oldest e payloads of a pool are freed, the rest stays owned.        *)
(***************************************************************************)
Parted(s, e, kind, L) ==
  LET gone == SubSeq(s, 1, e)
      rest == SubSeq(s, e + 1, Len(s))
  IN  /\ gone \in Seq(Handle) /\ rest \in Seq(Handle) /\ Len(rest) = Len(s) - e
      /\ ToSet(s) = ToSet(gone) \cup ToSet(rest)
      /\ \A h \in ToSet(gone) : h.kind = kind
      /\ OwnedBy(rest, kind, L \ ToSet(gone))

(***************************************************************************)
(* Any number of the oldest payloads of a pool may be freed.               *)
(***************************************************************************)
LEMMA CutOwned ==
  ASSUME NEW L, NEW kind, NEW s \in Seq(Handle), OwnedBy(s, kind, L), NEW e \in 0 .. Len(s)
  PROVE  Parted(s, e, kind, L)
<1> DEFINE gone == SubSeq(s, 1, e)
           rest == SubSeq(s, e + 1, Len(s))
           n == Len(s)
<1>0. n \in Nat /\ e \in Nat /\ e <= n /\ \A i \in 1 .. n : s[i] \in Handle
  OBVIOUS
<1>1. gone \in Seq(Handle) /\ Len(gone) = e /\ \A i \in 1 .. e : gone[i] = s[i]
  <2>1. \A i \in 1 .. e : s[i] \in Handle /\ 1 + i - 1 = i
    BY <1>0
  <2>2. /\ gone \in Seq(Handle) /\ Len(gone) = IF 1 <= e THEN e - 1 + 1 ELSE 0
        /\ \A i \in 1 .. e - 1 + 1 : gone[i] = s[1 + i - 1]
    BY <1>0, <2>1, SubSeqProperties
  <2> HIDE DEF gone
  <2> QED BY <1>0, <2>1, <2>2
<1>2. rest \in Seq(Handle) /\ Len(rest) = n - e /\ \A i \in 1 .. n - e : rest[i] = s[e + i]
  <2>1. \A i \in e + 1 .. n : s[i] \in Handle
    BY <1>0
  <2>2. /\ rest \in Seq(Handle) /\ Len(rest) = IF e + 1 <= n THEN n - (e + 1) + 1 ELSE 0
        /\ \A i \in 1 .. n - (e + 1) + 1 : rest[i] = s[(e + 1) + i - 1]
    BY <1>0, <2>1, SubSeqProperties
  <2>3. n - (e + 1) + 1 = n - e /\ \A i \in 1 .. n - e : (e + 1) + i - 1 = e + i
    BY <1>0
  <2> HIDE DEF rest, n
  <2>4. Len(rest) = n - e
    BY <1>0, <2>2, <2>3
  <2>5. \A i \in 1 .. n - e : rest[i] = s[e + i]
    <3> SUFFICES ASSUME NEW i \in 1 .. n - e PROVE rest[i] = s[e + i]
      OBVIOUS
    <3>1. rest[i] = s[(e + 1) + i - 1]
      BY <2>2, <2>3
    <3> QED BY <2>3, <3>1
  <2> QED BY <2>2, <2>4, <2>5
<1> HIDE DEF gone, rest
<1>3. DOMAIN gone = 1 .. e /\ DOMAIN rest = 1 .. n - e /\ DOMAIN s = 1 .. n
  BY <1>1, <1>2
<1>4. ToSet(s) = ToSet(gone) \cup ToSet(rest)
  <2>1. \A i \in 1 .. n : i \in 1 .. e \/ (i - e \in 1 .. n - e /\ e + (i - e) = i)
    BY <1>0
  <2>2. \A i \in 1 .. n - e : e + i \in 1 .. n
    BY <1>0
  <2>3. ASSUME NEW h \in ToSet(s) PROVE h \in ToSet(gone) \cup ToSet(rest)
    <3>1. PICK i \in 1 .. n : h = s[i]
      BY <1>3 DEF ToSet
    <3>2. CASE i \in 1 .. e
      BY <1>1, <1>3, <3>1, <3>2 DEF ToSet
    <3>3. CASE i - e \in 1 .. n - e /\ e + (i - e) = i
      <4>1. rest[i - e] = s[i]
        BY <1>2, <3>3
      <4> QED BY <1>3, <3>1, <3>3, <4>1 DEF ToSet
    <3> QED BY <2>1, <3>2, <3>3
  <2>4. ASSUME NEW h \in ToSet(gone) PROVE h \in ToSet(s)
    <3>1. PICK i \in 1 .. e : h = gone[i]
      BY <1>3 DEF ToSet
    <3>2. i \in 1 .. n /\ h = s[i]
      BY <1>0, <1>1, <3>1
    <3> QED BY <1>3, <3>2 DEF ToSet
  <2>5. ASSUME NEW h \in ToSet(rest) PROVE h \in ToSet(s)
    <3>1. PICK i \in 1 .. n - e : h = rest[i]
      BY <1>3 DEF ToSet
    <3>2. e + i \in 1 .. n /\ h = s[e + i]
      BY <1>2, <2>2, <3>1
    <3> QED BY <1>3, <3>2 DEF ToSet
  <2> QED BY <2>3, <2>4, <2>5
<1>5. \A h \in ToSet(gone) : h.kind = kind
  BY <1>0, <1>1, <1>3 DEF ToSet, OwnedBy
<1>6. OwnedBy(rest, kind, L \ ToSet(gone))
  <2>0. \A i \in 1 .. n : s[i] \in L /\ s[i].kind = kind
    BY <1>3 DEF OwnedBy
  <2>d. \A i, j \in 1 .. n : s[i] = s[j] => i = j
    BY <1>3 DEF OwnedBy, Distinct
  <2>1. ASSUME NEW i \in 1 .. n - e
        PROVE  rest[i] \in L /\ rest[i] \notin ToSet(gone) /\ rest[i].kind = kind
    <3>1. e + i \in 1 .. n /\ \A k \in 1 .. e : k # e + i /\ k \in 1 .. n
      BY <1>0
    <3>2. rest[i] = s[e + i]
      BY <1>2
    <3>3. \A k \in 1 .. e : gone[k] # s[e + i]
      BY <1>1, <2>d, <3>1
    <3> QED BY <1>3, <2>0, <3>1, <3>2, <3>3 DEF ToSet
  <2>2. ASSUME NEW i \in 1 .. n - e, NEW j \in 1 .. n - e, rest[i] = rest[j] PROVE i = j
    <3>1. e + i \in 1 .. n /\ e + j \in 1 .. n
      BY <1>0
    <3>2. e + i = e + j
      BY <1>2, <2>2, <2>d, <3>1
    <3> QED BY <1>0, <3>2
  <2> QED BY <1>3, <2>1, <2>2 DEF OwnedBy, Distinct
<1> QED BY <1>1, <1>2, <1>4, <1>5, <1>6 DEF Parted, gone, rest, n

-----------------------------------------------------------------------------

(***************************************************************************)
(* Every live payload of a kind is in the pool of that kind.               *)
(***************************************************************************)
Kept(slots, kind, L) == \A h \in L : h.kind = kind => h \in ToSet(slots)

RingKept(r, L) == \A h \in L : h.kind = "KEYREF" => \E i \in DOMAIN r : r[i] = h

(***************************************************************************)
(* Nothing but EVENT and DIAG leaks when the other three pools are kept;   *)
(* the payloads a pool owns are of its own kind.                           *)
(***************************************************************************)
LEMMA LeakParts ==
  ASSUME PoolTypes, PoolsOwnLive
  PROVE  OnlyEventAndDiagLeak <=> /\ Kept(sensor, "SENSOR", live) /\ Kept(config, "CONFIG", live)
                                  /\ RingKept(ring, live)
<1>1. \A s, k : OwnedBy(s, k, live) => \A h \in ToSet(s) : h.kind = k
  BY DEF OwnedBy, ToSet
<1>2. /\ OwnedBy(event, "EVENT", live) /\ OwnedBy(sensor, "SENSOR", live)
      /\ OwnedBy(config, "CONFIG", live) /\ OwnedBy(diag, "DIAG", live) /\ RingOwned(ring, live)
  BY OwnLiveParts
<1>3. \A h \in ToSet(event) : h.kind = "EVENT"
  BY <1>1, <1>2
<1>4. \A h \in ToSet(sensor) : h.kind = "SENSOR"
  BY <1>1, <1>2
<1>5. \A h \in ToSet(config) : h.kind = "CONFIG"
  BY <1>1, <1>2
<1>6. \A h \in ToSet(diag) : h.kind = "DIAG"
  BY <1>1, <1>2
<1>7. \A i \in DOMAIN ring : ring[i].kind = "KEYREF" \/ ring[i].kind = "NULL"
  BY <1>2 DEF RingOwned, NULL
<1>8. \A h \in live : h.kind \in PoolKinds
  BY HandleFields DEF PoolTypes
<1>9. ASSUME OnlyEventAndDiagLeak
      PROVE  Kept(sensor, "SENSOR", live) /\ Kept(config, "CONFIG", live) /\ RingKept(ring, live)
  BY <1>3, <1>4, <1>5, <1>6, <1>7, <1>9 DEF OnlyEventAndDiagLeak, Tracked, Kept, RingKept
<1>10. ASSUME Kept(sensor, "SENSOR", live), Kept(config, "CONFIG", live), RingKept(ring, live)
       PROVE  OnlyEventAndDiagLeak
  BY <1>8, <1>10 DEF OnlyEventAndDiagLeak, Tracked, Kept, RingKept, PoolKinds
<1> QED BY <1>9, <1>10

(***************************************************************************)
(* A step works on one kind of payload: what it frees and what it          *)
(* allocates is of that kind and the other pools stay as they are.  Then   *)
(* the invariant is preserved if the pool of that kind is.                 *)
(***************************************************************************)
OnlyKind(kind) ==
  /\ \A h \in live : h \in live' \/ h.kind = kind
  /\ \A h \in live' : h \in live \/ (h.kind = kind /\ h \in Handle)
  /\ fresh' \in Nat /\ \A h \in live' : h.id < fresh'
  /\ out'.refs \subseteq live'
  /\ kind # "EVENT" => event' = event
  /\ kind # "SENSOR" => sensor' = sensor
  /\ kind # "CONFIG" => config' = config
  /\ kind # "DIAG" => diag' = diag /\ diag_bytes' = diag_bytes
  /\ kind # "KEYREF" => ring' = ring /\ pos' = pos

TableOk(kind, slots, max) ==
  slots \in Seq(Handle) /\ Len(slots) <= max /\ OwnedBy(slots, kind, live')

DiagOk == /\ TableOk("DIAG", diag', DiagMax) /\ diag_bytes' \in Nat
          /\ diag_bytes' = Bytes(diag')
          /\ diag_bytes' <= DiagBudget \/ Len(diag') = 1

RingOk == /\ ring' \in [0 .. RingSize - 1 -> Handle \cup {NULL}] /\ pos' \in 0 .. RingSize - 1
          /\ RingOwned(ring', live') /\ RingKept(ring', live')

(***************************************************************************)
(* The other four pools, and their share of the invariant, are untouched.  *)
(***************************************************************************)
LEMMA OneKind ==
  ASSUME IInv, NEW kind, OnlyKind(kind),
         kind = "EVENT" => TableOk("EVENT", event', EventMax),
         kind = "SENSOR" => TableOk("SENSOR", sensor', SensorMax) /\ Kept(sensor', "SENSOR", live'),
         kind = "CONFIG" => TableOk("CONFIG", config', CfgMax) /\ Kept(config', "CONFIG", live'),
         kind = "DIAG" => DiagOk,
         kind = "KEYREF" => RingOk
  PROVE  IInv'
<1> USE DEF IInv
<1>0. \A h \in live \ live' : h.kind = kind
  BY DEF OnlyKind
<1>1. \A s, k : k # kind /\ OwnedBy(s, k, live) => OwnedBy(s, k, live')
  BY <1>0, OtherKindsKept
<1>2. kind # "KEYREF" /\ RingOwned(ring, live) => RingOwned(ring, live')
  BY <1>0, OtherKindsKept
<1>3. \A s, k : k # kind /\ Kept(s, k, live) => Kept(s, k, live')
  BY DEF OnlyKind, Kept
<1>4. kind # "KEYREF" /\ RingKept(ring, live) => RingKept(ring, live')
  BY DEF OnlyKind, RingKept
<1>5. /\ Bounds /\ OwnedBy(event, "EVENT", live) /\ OwnedBy(sensor, "SENSOR", live)
      /\ OwnedBy(config, "CONFIG", live) /\ OwnedBy(diag, "DIAG", live) /\ RingOwned(ring, live)
  BY OwnLiveParts
<1>6. Kept(sensor, "SENSOR", live) /\ Kept(config, "CONFIG", live) /\ RingKept(ring, live)
  BY LeakParts
<1>e. TableOk("EVENT", event', EventMax)
  BY <1>1, <1>5 DEF OnlyKind, TableOk, Bounds, PoolTypes
<1>s. TableOk("SENSOR", sensor', SensorMax) /\ Kept(sensor', "SENSOR", live')
  BY <1>1, <1>3, <1>5, <1>6 DEF OnlyKind, TableOk, Bounds, PoolTypes
<1>c. TableOk("CONFIG", config', CfgMax) /\ Kept(config', "CONFIG", live')
  BY <1>1, <1>3, <1>5, <1>6 DEF OnlyKind, TableOk, Bounds, PoolTypes
<1>d. DiagOk
  BY <1>1, <1>5 DEF OnlyKind, DiagOk, TableOk, Bounds, PoolTypes, DiagAccounting
<1>k. RingOk
  BY <1>2, <1>4, <1>5, <1>6 DEF OnlyKind, RingOk, Bounds, PoolTypes
<1>7. PoolTypes' /\ FreshIsNew'
  BY <1>e, <1>s, <1>c, <1>d, <1>k DEF OnlyKind, TableOk, DiagOk, RingOk, PoolTypes, FreshIsNew
<1>8. PoolsOwnLive'
  BY <1>e, <1>s, <1>c, <1>d, <1>k
     DEF TableOk, DiagOk, RingOk, PoolsOwnLive, Owned, OwnedBy, RingOwned
<1>9. OnlyEventAndDiagLeak'
  <2>1. \A h \in live' : h.kind \in PoolKinds
    BY <1>7, HandleFields DEF PoolTypes
  <2> QED BY <2>1, <1>s, <1>c, <1>k
         DEF RingOk, Kept, RingKept, OnlyEventAndDiagLeak, Tracked, PoolKinds
<1>10. CurrentRecordLive' /\ DiagAccounting'
  BY <1>d DEF OnlyKind, DiagOk, CurrentRecordLive, DiagAccounting
<1> QED BY <1>7, <1>8, <1>9, <1>10

-----------------------------------------------------------------------------

(***************************************************************************)
(* The payload the next malloc returns.                                    *)
(***************************************************************************)
LEMMA FreshPayload ==
  ASSUME IInv, NEW kind \in PoolKinds, NEW n \in Nat
  PROVE  /\ Fresh(kind, n) \in Handle /\ Fresh(kind, n) \notin live
         /\ Fresh(kind, n).kind = kind /\ Fresh(kind, n).id = fresh /\ Fresh(kind, n).size = n
<1>1. /\ Fresh(kind, n).id = fresh /\ Fresh(kind, n).kind = kind /\ Fresh(kind, n).size = n
      /\ fresh \in Nat
  BY DEF Fresh, IInv, PoolTypes
<1>2. Fresh(kind, n) \in Handle
  BY <1>1 DEF Fresh, Handle
<1>3. Fresh(kind, n) \notin live
  BY <1>1 DEF IInv, FreshIsNew
<1> QED BY <1>1, <1>2, <1>3

(***************************************************************************)
(* The parse of a record that keeps no payload touches no pool.            *)
(***************************************************************************)
LEMMA QuietStep ==
  ASSUME IInv, NEW w \in Tlvs,
         \/ ParseFixed(w) \/ ParseLog(w) \/ ParseUnknown(w) \/ NoPayload(w)
         \/ EventOom(w) \/ KeyrefHeader(w) \/ KeyrefOversized(w)
  PROVE  IInv'
<1>1. UNCHANGED <<live, fresh, pools>> /\ out'.refs = {}
  BY DEF ParseFixed, ParseLog, ParseUnknown, NoPayload, EventOom, KeyrefHeader, KeyrefOversized,
         Parsed, Fail
<1>2. OnlyKind("NONE")
  BY <1>1 DEF OnlyKind, pools, IInv, PoolTypes, FreshIsNew
<1> QED BY <1>2, OneKind

(***************************************************************************)
(* The EVENT table: a payload is recorded while there is room, and the     *)
(* release frees exactly what is recorded.                                 *)
(***************************************************************************)
LEMMA EventTakeStep == ASSUME IInv, NEW w \in Tlvs, EventTake(w) PROVE IInv'
<1> DEFINE h == Fresh("EVENT", w.n)
<1>1. w.n \in Nat /\ "EVENT" \in PoolKinds /\ fresh \in Nat
  BY TlvAssumption DEF PoolKinds, IInv, PoolTypes
<1>2. h \in Handle /\ h \notin live /\ h.kind = "EVENT" /\ h.id = fresh
  BY <1>1, FreshPayload
<1>3. /\ live' = live \cup {h} /\ fresh' = fresh + 1 /\ out'.refs = {h}
      /\ event' = IF Len(event) < EventMax THEN Append(event, h) ELSE event
      /\ UNCHANGED <<sensor, config, diag, diag_bytes, ring, pos>>
  BY DEF EventTake, Parsed
<1> HIDE DEF h
<1>4. OnlyKind("EVENT")
  BY <1>1, <1>2, <1>3 DEF OnlyKind, IInv, FreshIsNew, PoolTypes, Handle
<1>5. TableOk("EVENT", event', EventMax)
  <2>1. OwnedBy(event, "EVENT", live) /\ event \in Seq(Handle) /\ Len(event) <= EventMax
        /\ EventMax \in Nat /\ Len(event) \in Nat
    BY OwnLiveParts, PoolConstants DEF Bounds, IInv, PoolTypes
  <2>2. CASE Len(event) < EventMax
    BY <1>2, <1>3, <2>1, <2>2, AppendOwned DEF TableOk
  <2>3. CASE ~(Len(event) < EventMax)
    BY <1>3, <2>1, <2>3 DEF TableOk, OwnedBy
  <2> QED BY <2>2, <2>3
<1> QED BY <1>4, <1>5, OneKind

(***************************************************************************)
(* The release at a section boundary.                                      *)
(***************************************************************************)
LEMMA EventReleaseStep == ASSUME IInv, EventPoolRelease PROVE IInv'
<1>1. OwnedBy(event, "EVENT", live) /\ event \in Seq(Handle) /\ EventMax \in Nat
  BY OwnLiveParts, PoolConstants DEF IInv, PoolTypes
<1>2. \A h \in ToSet(event) : h.kind = "EVENT"
  BY <1>1 DEF OwnedBy, ToSet
<1>3. OnlyKind("EVENT")
  BY <1>2 DEF EventPoolRelease, OnlyKind, IInv, FreshIsNew, PoolTypes
<1>4. TableOk("EVENT", event', EventMax)
  BY <1>1, EmptyOwned DEF EventPoolRelease, TableOk
<1> QED BY <1>3, <1>4, OneKind

(***************************************************************************)
(* The SENSOR table after the reclaim that precedes malloc.                *)
(***************************************************************************)
LEMMA SensorReclaim ==
  ASSUME IInv
  PROVE  /\ SensorKept \in Seq(Handle) /\ Len(SensorKept) < SensorMax
         /\ OwnedBy(SensorKept, "SENSOR", live \ SensorFreed)
         /\ Kept(SensorKept, "SENSOR", live \ SensorFreed)
         /\ \A h \in SensorFreed : h.kind = "SENSOR"
<1>1. /\ OwnedBy(sensor, "SENSOR", live) /\ sensor \in Seq(Handle) /\ Len(sensor) <= SensorMax
      /\ Kept(sensor, "SENSOR", live) /\ SensorMax \in Nat \ {0} /\ Len(sensor) \in Nat
  BY OwnLiveParts, LeakParts, PoolConstants DEF Bounds, IInv, PoolTypes
<1>2. \A h \in SensorFreed : h.kind = "SENSOR"
  BY <1>1 DEF OwnedBy, ToSet, SensorFreed
<1>3. CASE Len(sensor) = SensorMax
  <2>1. SensorKept = <<>> /\ ToSet(<<>>) = {} /\ SensorFreed = ToSet(sensor)
    BY <1>3, EmptyOwned DEF SensorKept, SensorFreed
  <2>2. /\ SensorKept \in Seq(Handle) /\ Len(SensorKept) < SensorMax
        /\ OwnedBy(SensorKept, "SENSOR", live \ SensorFreed)
    BY <1>1, <2>1, EmptyOwned
  <2>3. Kept(SensorKept, "SENSOR", live \ SensorFreed)
    BY <1>1, <2>1 DEF Kept
  <2> QED BY <1>2, <2>2, <2>3
<1>4. CASE Len(sensor) # SensorMax
  <2>1. SensorKept = sensor /\ SensorFreed = {} /\ live \ SensorFreed = live
    BY <1>4 DEF SensorKept, SensorFreed
  <2> QED BY <1>1, <1>2, <1>4, <2>1
<1> QED BY <1>3, <1>4

(***************************************************************************)
(* malloc fails after the reclaim of the SENSOR table.                     *)
(***************************************************************************)
LEMMA SensorOomStep == ASSUME IInv, NEW w \in Tlvs, SensorOom(w) PROVE IInv'
<1>1. /\ sensor' = SensorKept /\ live' = live \ SensorFreed /\ out'.refs = {} /\ fresh' = fresh
      /\ UNCHANGED <<event, config, diag, diag_bytes, ring, pos>>
  BY DEF SensorOom, Fail
<1>2. OnlyKind("SENSOR")
  BY <1>1, SensorReclaim DEF OnlyKind, IInv, FreshIsNew, PoolTypes
<1>3. TableOk("SENSOR", sensor', SensorMax) /\ Kept(sensor', "SENSOR", live')
  BY <1>1, SensorReclaim, PoolConstants DEF TableOk
<1> QED BY <1>2, <1>3, OneKind

(***************************************************************************)
(* malloc gives the SENSOR table one more array.                           *)
(***************************************************************************)
LEMMA SensorTakeStep == ASSUME IInv, NEW w \in Tlvs, SensorTake(w) PROVE IInv'
<1> DEFINE h == Fresh("SENSOR", w.n)
           L == live \ SensorFreed
<1>1. w.n \in Nat /\ "SENSOR" \in PoolKinds /\ fresh \in Nat
  BY TlvAssumption DEF PoolKinds, IInv, PoolTypes
<1>2. h \in Handle /\ h \notin live /\ h.kind = "SENSOR" /\ h.id = fresh
  BY <1>1, FreshPayload
<1>3. /\ live' = L \cup {h} /\ fresh' = fresh + 1 /\ out'.refs = {h}
      /\ sensor' = Append(SensorKept, h)
      /\ UNCHANGED <<event, config, diag, diag_bytes, ring, pos>>
  BY DEF SensorTake, Parsed
<1> HIDE DEF h
<1>4. OnlyKind("SENSOR")
  BY <1>1, <1>2, <1>3, SensorReclaim DEF OnlyKind, IInv, FreshIsNew, PoolTypes, Handle
<1>5. /\ OwnedBy(SensorKept, "SENSOR", L) /\ Kept(SensorKept, "SENSOR", L)
      /\ SensorKept \in Seq(Handle) /\ Len(SensorKept) < SensorMax /\ h \notin L
  BY <1>2, SensorReclaim
<1> HIDE DEF L
<1>6. /\ OwnedBy(sensor', "SENSOR", live') /\ sensor' \in Seq(Handle)
      /\ Len(sensor') = Len(SensorKept) + 1 /\ ToSet(sensor') = ToSet(SensorKept) \cup {h}
  BY <1>2, <1>3, <1>5, AppendOwned
<1>7. TableOk("SENSOR", sensor', SensorMax)
  BY <1>5, <1>6, PoolConstants DEF TableOk
<1>8. Kept(sensor', "SENSOR", live')
  BY <1>3, <1>5, <1>6 DEF Kept
<1> QED BY <1>4, <1>7, <1>8, OneKind

(***************************************************************************)
(* The CONFIG table: the strings of the previous CONFIG are recycled       *)
(* first, then those of this one are recorded.                             *)
(***************************************************************************)
LEMMA ConfigHeaderStep == ASSUME IInv, NEW w \in Tlvs, ConfigHeader(w) PROVE IInv'
<1>1. /\ OwnedBy(config, "CONFIG", live) /\ config \in Seq(Handle)
      /\ Kept(config, "CONFIG", live) /\ CfgMax \in Nat
  BY OwnLiveParts, LeakParts, PoolConstants DEF IInv, PoolTypes
<1>2. \A h \in ToSet(config) : h.kind = "CONFIG"
  BY <1>1 DEF OwnedBy, ToSet
<1>3. /\ config' = <<>> /\ live' = live \ ToSet(config) /\ out'.refs = {} /\ fresh' = fresh
      /\ UNCHANGED <<event, sensor, diag, diag_bytes, ring, pos>>
  BY DEF ConfigHeader, Fail
<1>4. OnlyKind("CONFIG")
  BY <1>2, <1>3 DEF OnlyKind, IInv, FreshIsNew, PoolTypes
<1>5. TableOk("CONFIG", config', CfgMax)
  BY <1>1, <1>3, EmptyOwned DEF TableOk
<1>6. Kept(config', "CONFIG", live')
  BY <1>1, <1>3 DEF Kept
<1> QED BY <1>4, <1>5, <1>6, OneKind

(***************************************************************************)
(* The strings one CONFIG takes from the pool.                             *)
(***************************************************************************)
LEMMA StringsFresh ==
  ASSUME IInv, NEW taken \in Nat
  PROVE  LET new == Strings(taken) IN
           /\ new \in Seq(Handle) /\ Len(new) = taken
           /\ \A L : ToSet(new) \subseteq L => OwnedBy(new, "CONFIG", L)
           /\ \A h \in ToSet(new) :
                h \in Handle /\ h.kind = "CONFIG" /\ h.id >= fresh /\ h.id < fresh + taken
<1> DEFINE new == Strings(taken)
<1>1. fresh \in Nat
  BY DEF IInv, PoolTypes
<1>2. \A i \in 1 .. taken : /\ new[i].kind = "CONFIG" /\ new[i].id = fresh + i - 1
                            /\ new[i].size = 1
                            /\ new[i] = [kind |-> "CONFIG", id |-> fresh + i - 1, size |-> 1]
  BY <1>1 DEF Strings
<1>3. \A i \in 1 .. taken : fresh + i - 1 \in Nat /\ fresh + i - 1 >= fresh
                            /\ fresh + i - 1 < fresh + taken
  BY <1>1
<1>4. \A i \in 1 .. taken : new[i] \in Handle
  <2> SUFFICES ASSUME NEW i \in 1 .. taken PROVE new[i] \in Handle
    OBVIOUS
  <2> HIDE DEF new
  <2>1. [kind |-> "CONFIG", id |-> fresh + i - 1, size |-> 1] \in Handle
    BY <1>3 DEF Handle, PoolKinds
  <2> QED BY <1>2, <2>1
<1>5. new \in Seq(Handle) /\ Len(new) = taken /\ DOMAIN new = 1 .. taken
  BY <1>4 DEF Strings
<1> HIDE DEF new
<1>6. \A h \in ToSet(new) :
        h \in Handle /\ h.kind = "CONFIG" /\ h.id >= fresh /\ h.id < fresh + taken
  <2> SUFFICES ASSUME NEW i \in 1 .. taken
               PROVE  /\ new[i] \in Handle /\ new[i].kind = "CONFIG"
                      /\ new[i].id >= fresh /\ new[i].id < fresh + taken
    BY <1>5 DEF ToSet
  <2> QED BY <1>2, <1>3, <1>4
<1>7. Distinct(new)
  <2> SUFFICES ASSUME NEW i \in 1 .. taken, NEW j \in 1 .. taken, new[i] = new[j]
               PROVE  i = j
    BY <1>5 DEF Distinct
  <2>1. fresh + i - 1 = fresh + j - 1
    BY <1>2
  <2> QED BY <1>1, <2>1
<1>8. \A L : ToSet(new) \subseteq L => OwnedBy(new, "CONFIG", L)
  BY <1>2, <1>5, <1>7 DEF OwnedBy, ToSet
<1> QED BY <1>5, <1>6, <1>8 DEF new

(***************************************************************************)
(* A CONFIG that gets past its header.                                     *)
(***************************************************************************)
LEMMA ConfigStringsStep == ASSUME IInv, NEW w \in Tlvs, ConfigStrings(w) PROVE IInv'
<1>1. /\ OwnedBy(config, "CONFIG", live) /\ config \in Seq(Handle)
      /\ Kept(config, "CONFIG", live) /\ CfgMax \in Nat /\ fresh \in Nat
  BY OwnLiveParts, LeakParts, PoolConstants DEF IInv, PoolTypes
<1>2. \A h \in ToSet(config) : h.kind = "CONFIG"
  BY <1>1 DEF OwnedBy, ToSet
<1>3. w.n \in Nat
  BY TlvAssumption
<1>4. PICK taken \in 0 .. w.n :
        /\ taken <= CfgMax /\ fresh' = fresh + taken /\ config' = Strings(taken)
        /\ live' = (live \ ToSet(config)) \cup ToSet(Strings(taken))
        /\ out'.refs = ToSet(Strings(taken)) \/ out'.refs = {}
  BY DEF ConfigStrings, Fail, Parsed
<1>5. UNCHANGED <<event, sensor, diag, diag_bytes, ring, pos>> /\ taken \in Nat
  BY <1>3 DEF ConfigStrings
<1> DEFINE new == Strings(taken)
<1>6. /\ new \in Seq(Handle) /\ Len(new) = taken
      /\ \A L : ToSet(new) \subseteq L => OwnedBy(new, "CONFIG", L)
      /\ \A h \in ToSet(new) :
           h \in Handle /\ h.kind = "CONFIG" /\ h.id >= fresh /\ h.id < fresh + taken
  BY <1>5, StringsFresh
<1> HIDE DEF new
<1>7. \A h \in live' : h.id < fresh'
  <2> SUFFICES ASSUME NEW h \in live' PROVE h.id < fresh'
    OBVIOUS
  <2>1. CASE h \in ToSet(new)
    BY <1>4, <1>6, <2>1
  <2>2. CASE h \in live
    BY <1>1, <1>4, <1>5, <2>2, HandleFields DEF IInv, FreshIsNew, PoolTypes
  <2> QED BY <1>4, <2>1, <2>2 DEF new
<1>8. OnlyKind("CONFIG")
  <2>1. \A h \in live : h \in live' \/ h.kind = "CONFIG"
    BY <1>2, <1>4
  <2>2. \A h \in live' : h \in live \/ (h.kind = "CONFIG" /\ h \in Handle)
    BY <1>4, <1>6 DEF new
  <2>3. fresh' \in Nat /\ out'.refs \subseteq live'
    BY <1>1, <1>4, <1>5
  <2> QED BY <1>5, <1>7, <2>1, <2>2, <2>3 DEF OnlyKind
<1>9. TableOk("CONFIG", config', CfgMax)
  BY <1>4, <1>6 DEF TableOk, new
<1>10. Kept(config', "CONFIG", live')
  BY <1>1, <1>4 DEF Kept
<1> QED BY <1>8, <1>9, <1>10, OneKind

(***************************************************************************)
(* The DIAG table after the evictions that precede malloc.                 *)
(***************************************************************************)
LEMMA DiagEvict ==
  ASSUME IInv, NEW n \in Nat
  PROVE  LET gone == DiagVictims(n)
             rest == DiagKept(n)
         IN  /\ rest \in Seq(Handle) /\ Len(rest) <= Len(diag) /\ Len(rest) <= DiagMax
             /\ OwnedBy(rest, "DIAG", live \ ToSet(gone))
             /\ \A h \in ToSet(gone) : h.kind = "DIAG"
             /\ Bytes(gone) \in Nat /\ Bytes(rest) \in Nat
             /\ diag_bytes - Bytes(gone) = Bytes(rest)
             /\ rest = <<>> \/ Bytes(rest) + n <= DiagBudget
<1> DEFINE e == Evicted(n)
           gone == DiagVictims(n)
           rest == DiagKept(n)
<1>1. /\ OwnedBy(diag, "DIAG", live) /\ diag \in Seq(Handle) /\ Len(diag) <= DiagMax
      /\ diag_bytes \in Nat /\ diag_bytes = Bytes(diag) /\ DiagMax \in Nat /\ DiagBudget \in Nat
      /\ Len(diag) \in Nat
  BY OwnLiveParts, PoolConstants DEF IInv, PoolTypes, Bounds, DiagAccounting
<1>2. /\ e \in 0 .. Len(diag)
      /\ e = Len(diag) \/ diag_bytes - Bytes(SubSeq(diag, 1, e)) + n <= DiagBudget
  BY <1>1, EvictedFits
<1>3. gone = SubSeq(diag, 1, e) /\ rest = SubSeq(diag, e + 1, Len(diag))
  BY DEF DiagVictims, DiagKept
<1> HIDE DEF e, gone, rest
<1>4. /\ gone \in Seq(Handle) /\ rest \in Seq(Handle) /\ Len(rest) = Len(diag) - e
      /\ \A h \in ToSet(gone) : h.kind = "DIAG"
      /\ OwnedBy(rest, "DIAG", live \ ToSet(gone))
  <2>1. Parted(diag, e, "DIAG", live)
    BY <1>1, <1>2, CutOwned
  <2> QED BY <1>3, <2>1, Zenon DEF Parted
<1>5. Bytes(diag) = Bytes(gone) + Bytes(rest)
  BY <1>1, <1>2, <1>3, BytesSplit
<1>6. Bytes(gone) \in Nat /\ Bytes(rest) \in Nat
  BY <1>4, BytesNat
<1>7. Len(rest) <= Len(diag) /\ Len(rest) <= DiagMax
  BY <1>1, <1>2, <1>4
<1>8. diag_bytes - Bytes(gone) = Bytes(rest)
  BY <1>1, <1>5, <1>6
<1>9. rest = <<>> \/ Bytes(rest) + n <= DiagBudget
  <2>1. CASE e = Len(diag)
    BY <1>1, <1>4, <2>1, EmptySeq
  <2>2. CASE diag_bytes - Bytes(gone) + n <= DiagBudget
    BY <1>8, <2>2
  <2> QED BY <1>2, <1>3, <2>1, <2>2
<1> QED BY <1>4, <1>6, <1>7, <1>8, <1>9 DEF gone, rest

(***************************************************************************)
(* malloc fails after the evictions of the DIAG table.                     *)
(***************************************************************************)
LEMMA DiagOomStep == ASSUME IInv, NEW w \in Tlvs, DiagOom(w) PROVE IInv'
<1> DEFINE gone == DiagVictims(w.n)
           rest == DiagKept(w.n)
<1>1. w.n \in Nat /\ DiagBudget \in Nat
  BY TlvAssumption, PoolConstants
<1>2. /\ diag' = rest /\ live' = live \ ToSet(gone) /\ diag_bytes' = diag_bytes - Bytes(gone)
      /\ out'.refs = {} /\ UNCHANGED <<fresh, event, sensor, config, ring, pos>>
  BY DEF DiagOom, Fail
<1>3. /\ rest \in Seq(Handle) /\ Len(rest) <= DiagMax
      /\ OwnedBy(rest, "DIAG", live \ ToSet(gone)) /\ \A h \in ToSet(gone) : h.kind = "DIAG"
      /\ Bytes(rest) \in Nat /\ diag_bytes - Bytes(gone) = Bytes(rest)
      /\ rest = <<>> \/ Bytes(rest) + w.n <= DiagBudget
  BY <1>1, DiagEvict
<1> HIDE DEF gone, rest
<1>4. OnlyKind("DIAG")
  BY <1>2, <1>3 DEF OnlyKind, IInv, FreshIsNew, PoolTypes
<1>5. diag_bytes' <= DiagBudget
  BY <1>1, <1>2, <1>3, BytesEmpty
<1>6. DiagOk
  BY <1>2, <1>3, <1>5 DEF DiagOk, TableOk
<1> QED BY <1>4, <1>6, OneKind

(***************************************************************************)
(* malloc gives a blob, recorded while the DIAG table has room.            *)
(***************************************************************************)
LEMMA DiagTakeStep == ASSUME IInv, NEW w \in Tlvs, DiagTake(w) PROVE IInv'
<1> DEFINE gone == DiagVictims(w.n)
           rest == DiagKept(w.n)
           h == Fresh("DIAG", w.n)
           L == live \ ToSet(gone)
<1>1. w.n \in Nat /\ DiagBudget \in Nat /\ DiagMax \in Nat \ {0} /\ fresh \in Nat
      /\ "DIAG" \in PoolKinds
  BY TlvAssumption, PoolConstants DEF IInv, PoolTypes, PoolKinds
<1>2. h \in Handle /\ h \notin live /\ h.kind = "DIAG" /\ h.id = fresh /\ h.size = w.n
  BY <1>1, FreshPayload
<1>3. /\ fresh' = fresh + 1 /\ out'.refs = {h} /\ live' = L \cup {h}
      /\ diag' = IF Len(rest) < DiagMax THEN Append(rest, h) ELSE rest
      /\ diag_bytes' = diag_bytes - Bytes(gone) + (IF Len(rest) < DiagMax THEN w.n ELSE 0)
      /\ UNCHANGED <<event, sensor, config, ring, pos>>
  BY DEF DiagTake, Parsed
<1>4. /\ rest \in Seq(Handle) /\ Len(rest) <= DiagMax /\ OwnedBy(rest, "DIAG", L)
      /\ \A g \in ToSet(gone) : g.kind = "DIAG"
      /\ Bytes(rest) \in Nat /\ diag_bytes - Bytes(gone) = Bytes(rest)
      /\ rest = <<>> \/ Bytes(rest) + w.n <= DiagBudget
  BY <1>1, DiagEvict
<1> HIDE DEF gone, rest, h
<1>5. OnlyKind("DIAG")
  BY <1>1, <1>2, <1>3, <1>4 DEF OnlyKind, IInv, FreshIsNew, PoolTypes, Handle
<1>6. h \notin L
  BY <1>2
<1> HIDE DEF L
<1>7. DiagOk
  <2>1. CASE Len(rest) < DiagMax
    <3>1. /\ OwnedBy(Append(rest, h), "DIAG", L \cup {h}) /\ Append(rest, h) \in Seq(Handle)
          /\ Len(Append(rest, h)) = Len(rest) + 1
      BY <1>2, <1>4, <1>6, AppendOwned
    <3>2. Bytes(Append(rest, h)) = Bytes(rest) + w.n
      BY <1>2, <1>4, BytesAppend
    <3>3. diag_bytes' = Bytes(rest) + w.n /\ diag' = Append(rest, h)
      BY <1>3, <1>4, <2>1
    <3>4. diag_bytes' <= DiagBudget \/ Len(diag') = 1
      BY <1>4, <3>1, <3>3
    <3>5. TableOk("DIAG", diag', DiagMax)
      BY <1>1, <1>3, <1>4, <2>1, <3>1, <3>3 DEF TableOk
    <3> QED BY <1>1, <1>4, <3>2, <3>3, <3>4, <3>5 DEF DiagOk
  <2>2. CASE ~(Len(rest) < DiagMax)
    <3>1. rest # <<>>
      BY <1>1, <2>2
    <3>2. diag_bytes' = Bytes(rest) /\ diag' = rest
      BY <1>3, <1>4, <2>2
    <3>3. diag_bytes' <= DiagBudget
      BY <1>1, <1>4, <3>1, <3>2
    <3>4. OwnedBy(rest, "DIAG", live')
      BY <1>3, <1>4 DEF OwnedBy
    <3> QED BY <1>4, <3>2, <3>3, <3>4 DEF DiagOk, TableOk
  <2> QED BY <2>1, <2>2
<1> QED BY <1>5, <1>7, OneKind

(***************************************************************************)
(* The KEYREF ring: the slot under the cursor is freed, refilled (with     *)
(* NULL when malloc fails) and the cursor moves to the next one.           *)
(***************************************************************************)
LEMMA RingTurn ==
  ASSUME IInv, NEW h \in Handle \cup {NULL}, h # NULL => h \notin live /\ h.kind = "KEYREF",
         live' = (live \ {ring[pos]}) \cup (IF h = NULL THEN {} ELSE {h}),
         ring' = [ring EXCEPT ![pos] = h], pos' = (pos + 1) % RingSize
  PROVE  /\ RingOk
         /\ \A g \in live : g \in live' \/ g.kind = "KEYREF"
<1>1. /\ RingOwned(ring, live) /\ RingKept(ring, live)
      /\ ring \in [0 .. RingSize - 1 -> Handle \cup {NULL}] /\ pos \in 0 .. RingSize - 1
      /\ live \subseteq Handle
  BY OwnLiveParts, LeakParts DEF IInv, PoolTypes
<1>2. NULL \notin Handle
  BY HandleFields DEF NULL, PoolKinds
<1>3. ring' \in [0 .. RingSize - 1 -> Handle \cup {NULL}]
  BY <1>1
<1>4. pos' \in 0 .. RingSize - 1
  BY <1>1, PoolConstants
<1>5. ring'[pos] = h /\ \A i \in 0 .. RingSize - 1 : i # pos => ring'[i] = ring[i]
  BY <1>1
<1>6. DOMAIN ring = 0 .. RingSize - 1 /\ DOMAIN ring' = 0 .. RingSize - 1
  BY <1>1, <1>3
<1>7. ASSUME NEW i \in 0 .. RingSize - 1, ring'[i] # NULL
      PROVE  ring'[i] \in live' /\ ring'[i].kind = "KEYREF"
  <2>1. CASE i = pos
    BY <1>5, <1>7, <2>1
  <2>2. CASE i # pos
    <3>1. ring[i] # NULL /\ ring[i] # ring[pos] /\ ring[i] \in live /\ ring[i].kind = "KEYREF"
      BY <1>1, <1>5, <1>6, <1>7, <2>2 DEF RingOwned
    <3> QED BY <1>5, <2>2, <3>1
  <2> QED BY <2>1, <2>2
<1>8. ASSUME NEW i \in 0 .. RingSize - 1, NEW j \in 0 .. RingSize - 1,
             ring'[i] = ring'[j], ring'[i] # NULL
      PROVE  i = j
  <2>1. \A k \in 0 .. RingSize - 1 : ring[k] # NULL => ring[k] \in live
    BY <1>1, <1>6 DEF RingOwned
  <2>2. CASE i = pos \/ j = pos
    BY <1>5, <1>8, <2>1, <2>2
  <2>3. CASE i # pos /\ j # pos
    BY <1>1, <1>5, <1>6, <1>8, <2>3 DEF RingOwned
  <2> QED BY <2>2, <2>3
<1>9. RingOwned(ring', live')
  BY <1>6, <1>7, <1>8 DEF RingOwned
<1>10. ASSUME NEW g \in live', g.kind = "KEYREF" PROVE \E i \in DOMAIN ring' : ring'[i] = g
  <2>1. CASE g = h /\ h # NULL
    BY <1>1, <1>5, <1>6, <2>1
  <2>2. CASE g \in live /\ g # ring[pos]
    <3>1. PICK i \in DOMAIN ring : ring[i] = g
      BY <1>1, <1>10, <2>2 DEF RingKept
    <3> QED BY <1>5, <1>6, <2>2, <3>1
  <2> QED BY <2>1, <2>2
<1>11. \A g \in live : g \in live' \/ g.kind = "KEYREF"
  BY <1>1, <1>2, <1>6 DEF RingOwned
<1> QED BY <1>3, <1>4, <1>9, <1>10, <1>11 DEF RingOk, RingKept

(***************************************************************************)
(* malloc fails after the ring slot was freed.                             *)
(***************************************************************************)
LEMMA KeyrefOomStep == ASSUME IInv, NEW w \in Tlvs, KeyrefOom(w) PROVE IInv'
<1>1. /\ live' = live \ {ring[pos]} /\ ring' = [ring EXCEPT ![pos] = NULL]
      /\ pos' = (pos + 1) % RingSize /\ out'.refs = {}
      /\ UNCHANGED <<fresh, event, sensor, config, diag, diag_bytes>>
  BY DEF KeyrefOom, Fail
<1>2. RingOk /\ \A g \in live : g \in live' \/ g.kind = "KEYREF"
  <2>1. live' = (live \ {ring[pos]}) \cup (IF NULL = NULL THEN {} ELSE {NULL})
    BY <1>1
  <2> QED BY <1>1, <2>1, RingTurn
<1>3. OnlyKind("KEYREF")
  BY <1>1, <1>2 DEF OnlyKind, IInv, FreshIsNew, PoolTypes
<1> QED BY <1>2, <1>3, OneKind

(***************************************************************************)
(* The ring slot gets the new label, also when the KEYREF is malformed.    *)
(***************************************************************************)
LEMMA KeyrefLabelStep == ASSUME IInv, NEW w \in Tlvs, KeyrefLabel(w) PROVE IInv'
<1> DEFINE h == Fresh("KEYREF", w.n)
<1>1. w.n \in Nat /\ "KEYREF" \in PoolKinds /\ fresh \in Nat
  BY TlvAssumption DEF PoolKinds, IInv, PoolTypes
<1>2. h \in Handle /\ h \notin live /\ h.kind = "KEYREF" /\ h.id = fresh
  BY <1>1, FreshPayload
<1>3. /\ live' = (live \ {ring[pos]}) \cup {h} /\ ring' = [ring EXCEPT ![pos] = h]
      /\ pos' = (pos + 1) % RingSize /\ fresh' = fresh + 1
      /\ out'.refs = {h} \/ out'.refs = {}
      /\ UNCHANGED <<event, sensor, config, diag, diag_bytes>>
  BY DEF KeyrefLabel, Fail, Parsed
<1> HIDE DEF h
<1>4. h # NULL
  BY <1>2 DEF NULL
<1>5. RingOk /\ \A g \in live : g \in live' \/ g.kind = "KEYREF"
  <2>1. live' = (live \ {ring[pos]}) \cup (IF h = NULL THEN {} ELSE {h})
    BY <1>3, <1>4
  <2> QED BY <1>2, <1>3, <2>1, RingTurn
<1>6. OnlyKind("KEYREF")
  BY <1>1, <1>2, <1>3, <1>5 DEF OnlyKind, IInv, FreshIsNew, PoolTypes, Handle
<1> QED BY <1>5, <1>6, OneKind

-----------------------------------------------------------------------------

(***************************************************************************)
(* IInv is an inductive invariant.                                         *)
(***************************************************************************)
LEMMA InitIInv == PoolInit => IInv
<1> SUFFICES ASSUME PoolInit PROVE IInv
  OBVIOUS
<1> USE PoolConstants DEF PoolInit
<1>1. PoolTypes /\ FreshIsNew
  BY DEF PoolTypes, FreshIsNew
<1>2. PoolsOwnLive
  <2>1. Bounds /\ RingOwned(ring, live)
    BY DEF Bounds, RingOwned
  <2> QED BY <2>1, EmptyOwned, OwnLiveParts
<1>3. CurrentRecordLive /\ OnlyEventAndDiagLeak
  BY DEF CurrentRecordLive, OnlyEventAndDiagLeak
<1>4. DiagAccounting
  BY BytesEmpty DEF DiagAccounting
<1> QED BY <1>1, <1>2, <1>3, <1>4 DEF IInv

(***************************************************************************)
(* One dtl_record_parse preserves the invariant.                           *)
(***************************************************************************)
LEMMA ParseStep == ASSUME IInv, NEW w \in Tlvs, RecordParse(w) PROVE IInv'
BY QuietStep, EventTakeStep, SensorOomStep, SensorTakeStep, ConfigHeaderStep, ConfigStringsStep,
   DiagOomStep, DiagTakeStep, KeyrefOomStep, KeyrefLabelStep DEF RecordParse

(***************************************************************************)
(* A step of the caller that touches no pool preserves it.                 *)
(***************************************************************************)
LEMMA StutterStep == ASSUME IInv, UNCHANGED poolVars PROVE IInv'
BY DEF poolVars, IInv, PoolTypes, FreshIsNew, PoolsOwnLive, Owned, CurrentRecordLive,
       OnlyEventAndDiagLeak, Tracked, DiagAccounting

(***************************************************************************)
(* The invariant holds throughout.                                         *)
(***************************************************************************)
LEMMA PoolsInductive == PoolSpec => []IInv
<1>1. IInv /\ [PoolNext]_poolVars => IInv'
  BY ParseStep, EventReleaseStep, StutterStep DEF PoolNext
<1> QED BY <1>1, InitIInv, PTL DEF PoolSpec

(***************************************************************************)
(* No pool frees a payload twice or hands out a freed one, whatever mix of *)
(* well-formed, malformed and out-of-memory records the stream holds.      *)
(***************************************************************************)
THEOREM PoolsNeverDoubleFree == PoolSpec => []PoolsOwnLive
<1>1. IInv => PoolsOwnLive
  BY DEF IInv
<1> QED BY <1>1, PoolsInductive, PTL

(***************************************************************************)
(* The record dtl_record_parse returned points only at live payloads.      *)
(***************************************************************************)
THEOREM RecordPointsAtLive == PoolSpec => []CurrentRecordLive
<1>1. IInv => CurrentRecordLive
  BY DEF IInv
<1> QED BY <1>1, PoolsInductive, PTL

(***************************************************************************)
(* SENSOR, CONFIG and KEYREF leak nothing, on their error paths neither.   *)
(***************************************************************************)
THEOREM ThreePoolsLeakNothing == PoolSpec => []OnlyEventAndDiagLeak
<1>1. IInv => OnlyEventAndDiagLeak
  BY DEF IInv
<1> QED BY <1>1, PoolsInductive, PTL

(***************************************************************************)
(* The byte count of the DIAG pool is the total of its blobs and stays     *)
(* within the budget, but for a single blob larger than the budget.        *)
(***************************************************************************)
THEOREM DiagBytesExact == PoolSpec => []DiagAccounting
<1>1. IInv => DiagAccounting
  BY DEF IInv
<1> QED BY <1>1, PoolsInductive, PTL
=============================================================================
