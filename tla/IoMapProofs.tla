----------------------------- MODULE IoMapProofs -----------------------------
(***************************************************************************)
(* What is proved of IoMap for every number of slaves, every description   *)
(* of their process data and every size and number of segments; and, in    *)
(* its last part, of Topology for every tree of slaves: both are walks     *)
(* over the slaves in which sums and counts are kept.                      *)
(***************************************************************************)
EXTENDS IoMap, Topology, FiniteSetTheorems, SequenceTheorems, WellFoundedInduction, TLAPS

(***************************************************************************)
(* Smallest elements, and induction on 0 .. n.                             *)
(***************************************************************************)
LEMMA Smallest ==
    ASSUME NEW S, S \subseteq Nat, S # {}
    PROVE  \E m \in S : \A n \in S : m <= n
<1> DEFINE R == OpToRel(<, Nat)
<1>1. IsWellFoundedOn(R, Nat)
    BY NatLessThanWellFounded, Zenon
<1>2. \A x, y \in Nat : x < y => <<x, y>> \in R
    BY DEF OpToRel
<1> HIDE DEF R
<1>3. PICK m \in S : \A n \in S : <<n, m>> \notin R
    BY <1>1, WFMin
<1>4. \A n \in S : ~(n < m)
    BY <1>2, <1>3
<1>5. \A n \in S : n \in Nat /\ m \in Nat
    BY <1>3
<1>6. \A n \in S : m <= n
    BY <1>4, <1>5
<1> QED BY <1>6

LEMMA MinIsIn ==
    ASSUME NEW S, S \subseteq Nat, S # {}
    PROVE  Min(S) \in S /\ \A n \in S : Min(S) <= n
BY Smallest, Zenon DEF Min

LEMMA UpTo ==
    ASSUME NEW n \in Nat, NEW T, 0 \in T,
           \A k \in 1 .. n : k - 1 \in T => k \in T
    PROVE  \A k \in 0 .. n : k \in T
<1> SUFFICES ASSUME NEW k \in 0 .. n, k \notin T
             PROVE  FALSE
    OBVIOUS
<1> DEFINE S == {j \in 0 .. n : j \notin T}
<1>0. S \subseteq Nat /\ S # {}
    OBVIOUS
<1>1. PICK m \in S : \A j \in S : m <= j
    BY <1>0, Smallest
<1>2. m \in 1 .. n /\ m \notin T
    BY <1>1
<1>3. m - 1 \in T
    BY <1>1, <1>2
<1> QED BY <1>2, <1>3
-----------------------------------------------------------------------------
(***************************************************************************)
(* Sums.                                                                   *)
(***************************************************************************)
SumOf(seq, n, f) ==
    f \in [0 .. n -> Nat] /\ f[0] = 0 /\ \A k \in 1 .. n : f[k] = f[k - 1] + seq[k]

LEMMA SumsExist ==
    ASSUME NEW n \in Nat, NEW seq \in [1 .. n -> Nat]
    PROVE  \E f : SumOf(seq, n, f)
<1> DEFINE T == {k \in 0 .. n : \E f : SumOf(seq, k, f)}
<1>1. 0 \in T
  <2> DEFINE f == [j \in 0 .. 0 |-> 0]
  <2>1. SumOf(seq, 0, f)
      BY DEF SumOf
  <2> QED BY <2>1
<1>2. ASSUME NEW k \in 1 .. n, k - 1 \in T
      PROVE  k \in T
  <2>1. PICK f : SumOf(seq, k - 1, f)
      BY <1>2
  <2> DEFINE h == [j \in 0 .. k |-> IF j = k THEN f[k - 1] + seq[k] ELSE f[j]]
  <2>2. f[k - 1] \in Nat /\ seq[k] \in Nat /\ f[k - 1] + seq[k] \in Nat
      BY <2>1 DEF SumOf
  <2>3. h \in [0 .. k -> Nat]
      BY <2>1, <2>2 DEF SumOf
  <2>4. \A j \in 0 .. k - 1 : h[j] = f[j]
      OBVIOUS
  <2>5. h[k] = f[k - 1] + seq[k]
      OBVIOUS
  <2> HIDE DEF h
  <2>6. h[0] = 0
      BY <2>1, <2>4 DEF SumOf
  <2>7. \A j \in 1 .. k : h[j] = h[j - 1] + seq[j]
    <3> TAKE j \in 1 .. k
    <3>1. CASE j = k
        BY <2>4, <2>5, <3>1
    <3>2. CASE j # k
      <4>1. j \in 1 .. k - 1 /\ j \in 0 .. k - 1 /\ j - 1 \in 0 .. k - 1
          BY <3>2
      <4> QED BY <2>1, <2>4, <4>1 DEF SumOf
    <3> QED BY <3>1, <3>2
  <2>8. SumOf(seq, k, h)
      BY <2>3, <2>6, <2>7 DEF SumOf
  <2> QED BY <2>8
<1> HIDE DEF T
<1>3. \A k \in 0 .. n : k \in T
    BY <1>1, <1>2, UpTo
<1>4. n \in T
    BY <1>3
<1> QED BY <1>4 DEF T

LEMMA SumsRule ==
    ASSUME NEW seq \in Seq(Nat)
    PROVE  /\ Sums(seq) \in [0 .. Len(seq) -> Nat] /\ Sums(seq)[0] = 0
           /\ \A k \in 1 .. Len(seq) : Sums(seq)[k] = Sums(seq)[k - 1] + seq[k]
           /\ Total(seq) \in Nat
<1> DEFINE n == Len(seq)
           body(f) == [k \in 0 .. n |-> IF k = 0 THEN 0 ELSE f[k - 1] + seq[k]]
           sum == CHOOSE f : f = body(f)
<1>1. n \in Nat /\ seq \in [1 .. n -> Nat]
    OBVIOUS
<1>2. PICK f : SumOf(seq, n, f)
    BY <1>1, SumsExist
<1>3. f = body(f)
    BY <1>1, <1>2 DEF SumOf
<1>4. sum = body(sum)
    BY <1>3, Zenon
<1>5. Sums(seq) = sum
    BY Zenon DEF Sums
<1> HIDE DEF sum
<1>6. sum[0] = 0 /\ \A k \in 1 .. n : sum[k] = sum[k - 1] + seq[k]
  <2>1. \A k \in 0 .. n : sum[k] = IF k = 0 THEN 0 ELSE sum[k - 1] + seq[k]
    <3> DEFINE g(k) == IF k = 0 THEN 0 ELSE sum[k - 1] + seq[k]
    <3>1. sum = [k \in 0 .. n |-> g(k)]
        BY <1>4
    <3> HIDE DEF g
    <3>2. \A k \in 0 .. n : sum[k] = g(k)
        BY <3>1
    <3> QED BY <3>2 DEF g
  <2>2. 0 \in 0 .. n /\ \A k \in 1 .. n : k \in 0 .. n /\ k # 0
      BY <1>1
  <2> HIDE DEF n
  <2> QED BY <2>1, <2>2
<1>7. DOMAIN sum = 0 .. n
    BY <1>4
<1> DEFINE T == {k \in 0 .. n : sum[k] \in Nat}
<1>8. \A k \in 0 .. n : k \in T
  <2>1. 0 \in T
      BY <1>1, <1>6
  <2>2. \A k \in 1 .. n : k - 1 \in T => k \in T
      BY <1>1, <1>6
  <2> HIDE DEF T
  <2> QED BY <1>1, <2>1, <2>2, UpTo
<1>9. sum \in [0 .. n -> Nat]
    BY <1>4, <1>8
<1> QED BY <1>1, <1>5, <1>6, <1>9 DEF Total

(* Sequences that begin alike, and longer beginnings.                      *)
LEMMA SumsAgree ==
    ASSUME NEW s \in Seq(Nat), NEW t \in Seq(Nat), NEW n \in Nat, n <= Len(s), n <= Len(t),
           \A k \in 1 .. n : s[k] = t[k]
    PROVE  \A k \in 0 .. n : Sums(s)[k] = Sums(t)[k]
<1> DEFINE T == {k \in 0 .. n : Sums(s)[k] = Sums(t)[k]}
<1>1. 0 \in T
    BY SumsRule
<1>2. ASSUME NEW k \in 1 .. n, k - 1 \in T
      PROVE  k \in T
  <2>1. k \in 1 .. Len(s) /\ k \in 1 .. Len(t)
      OBVIOUS
  <2> QED BY <1>2, <2>1, SumsRule
<1> HIDE DEF T
<1>3. \A k \in 0 .. n : k \in T
    BY <1>1, <1>2, UpTo
<1> QED BY <1>3 DEF T

(* One sum more.                                                           *)
LEMMA NextSum ==
    ASSUME NEW seq \in Seq(Nat), NEW k \in 1 .. Len(seq)
    PROVE  /\ k - 1 \in 0 .. Len(seq) /\ k \in 0 .. Len(seq) /\ k \in Nat
           /\ \E a, e \in Nat : a = Sums(seq)[k - 1] /\ e = seq[k] /\ Sums(seq)[k] = a + e
<1>1. Len(seq) \in Nat /\ Sums(seq) \in [0 .. Len(seq) -> Nat]
    BY SumsRule
<1>2. k - 1 \in 0 .. Len(seq) /\ k \in 0 .. Len(seq) /\ k \in Nat
    BY <1>1
<1>3. Sums(seq)[k - 1] \in Nat /\ seq[k] \in Nat
  <2>1. Sums(seq)[k - 1] \in Nat
      BY <1>1, <1>2, Zenon
  <2>2. seq[k] \in Nat
      OBVIOUS
  <2> QED BY <2>1, <2>2
<1>4. Sums(seq)[k] = Sums(seq)[k - 1] + seq[k]
    BY SumsRule
<1> QED BY <1>2, <1>3, <1>4

LEMMA SumsGrow ==
    ASSUME NEW s \in Seq(Nat), NEW m \in 0 .. Len(s), NEW k \in m .. Len(s)
    PROVE  Sums(s)[m] <= Sums(s)[k]
<1> DEFINE T == {j \in 0 .. Len(s) : j >= m => Sums(s)[m] <= Sums(s)[j]}
<1>0. Len(s) \in Nat /\ \A j \in 0 .. Len(s) : Sums(s)[j] \in Nat
  <2>1. Len(s) \in Nat /\ Sums(s) \in [0 .. Len(s) -> Nat]
      BY SumsRule
  <2> QED BY <2>1
<1>1. 0 \in T
    BY <1>0
<1>2. ASSUME NEW j \in 1 .. Len(s), j - 1 \in T
      PROVE  j \in T
  <2>1. Sums(s)[j] = Sums(s)[j - 1] + s[j] /\ s[j] \in Nat /\ j - 1 \in 0 .. Len(s) /\ j \in 0 .. Len(s)
      BY SumsRule
  <2>2. Sums(s)[j - 1] <= Sums(s)[j]
    <3>1. PICK a, e \in Nat : a = Sums(s)[j - 1] /\ Sums(s)[j] = a + e
        BY NextSum
    <3> QED BY <3>1
  <2>3. CASE j = m
      BY <1>0, <2>1, <2>3
  <2>4. CASE j > m
    <3>1. j - 1 >= m /\ Sums(s)[m] <= Sums(s)[j - 1]
        BY <1>2, <2>4
    <3>2. Sums(s)[m] \in Nat /\ Sums(s)[j - 1] \in Nat /\ Sums(s)[j] \in Nat
        BY <1>0, <2>1
    <3>3. Sums(s)[m] <= Sums(s)[j]
        BY <2>2, <3>1, <3>2
    <3> QED BY <2>1, <3>3
  <2>5. CASE j < m
      BY <2>1, <2>5
  <2> QED BY <2>3, <2>4, <2>5
<1> HIDE DEF T
<1>3. \A j \in 0 .. Len(s) : j \in T
    BY <1>0, <1>1, <1>2, UpTo
<1>4. k \in T
    BY <1>3
<1> QED BY <1>4 DEF T

LEMMA SumsOneMore ==
    ASSUME NEW s \in Seq(Nat), NEW x \in Nat
    PROVE  /\ \A k \in 0 .. Len(s) : Sums(Append(s, x))[k] = Sums(s)[k]
           /\ Total(Append(s, x)) = Total(s) + x
<1> DEFINE t == Append(s, x)
<1>1. /\ t \in Seq(Nat) /\ Len(t) = Len(s) + 1 /\ t[Len(s) + 1] = x /\ Len(s) \in Nat
      /\ \A k \in 1 .. Len(s) : t[k] = s[k]
    OBVIOUS
<1> HIDE DEF t
<1>2. \A k \in 0 .. Len(s) : Sums(t)[k] = Sums(s)[k]
  <2>1. Len(s) <= Len(s) /\ Len(s) <= Len(t)
      BY <1>1
  <2> QED BY <1>1, <2>1, SumsAgree
<1>3. Total(t) = Sums(t)[Len(s)] + x
  <2>1. Len(t) \in 1 .. Len(t) /\ Len(t) - 1 = Len(s)
      BY <1>1
  <2> QED BY <1>1, <2>1, SumsRule DEF Total
<1>4. Sums(t)[Len(s)] = Total(s)
    BY <1>1, <1>2 DEF Total
<1> QED BY <1>2, <1>3, <1>4 DEF t
-----------------------------------------------------------------------------
(***************************************************************************)
(* More about sums.                                                        *)
(***************************************************************************)
LEMMA SumsTwice ==
    ASSUME NEW s \in Seq(Nat), NEW t \in Seq(Nat), NEW u \in Seq(Nat),
           Len(t) = Len(s), Len(u) = Len(s), \A k \in 1 .. Len(s) : u[k] = 2 * s[k] + t[k]
    PROVE  \A k \in 0 .. Len(s) : Sums(u)[k] = 2 * Sums(s)[k] + Sums(t)[k]
<1> DEFINE T == {k \in 0 .. Len(s) : Sums(u)[k] = 2 * Sums(s)[k] + Sums(t)[k]}
<1>0. Len(s) \in Nat
    OBVIOUS
<1>1. 0 \in T
    BY <1>0, SumsRule
<1>2. ASSUME NEW k \in 1 .. Len(s), k - 1 \in T
      PROVE  k \in T
  <2>1. k \in 1 .. Len(t) /\ k \in 1 .. Len(u)
      OBVIOUS
  <2>2. PICK a, x \in Nat : /\ a = Sums(s)[k - 1] /\ x = s[k] /\ Sums(s)[k] = a + x
                            /\ k \in 0 .. Len(s)
      BY NextSum
  <2>3. PICK b, y \in Nat : b = Sums(t)[k - 1] /\ y = t[k] /\ Sums(t)[k] = b + y
      BY <2>1, NextSum
  <2>4. Sums(u)[k] = Sums(u)[k - 1] + u[k]
      BY <2>1, NextSum
  <2>5. Sums(u)[k - 1] = 2 * a + b /\ u[k] = 2 * x + y
    <3>1. Sums(u)[k - 1] = 2 * Sums(s)[k - 1] + Sums(t)[k - 1]
        BY <1>2
    <3>2. u[k] = 2 * s[k] + t[k]
        OBVIOUS
    <3> HIDE DEF T
    <3> QED BY <2>2, <2>3, <3>1, <3>2, Zenon
  <2>6. Sums(u)[k] = 2 * Sums(s)[k] + Sums(t)[k]
    <3>1. Sums(u)[k] = (2 * a + b) + (2 * x + y)
        BY <2>4, <2>5, Zenon
    <3>2. (2 * a + b) + (2 * x + y) = 2 * (a + x) + (b + y)
        OBVIOUS
    <3> QED BY <2>2, <2>3, <3>1, <3>2, Zenon
  <2> QED BY <2>2, <2>6
<1> HIDE DEF T
<1>3. \A k \in 0 .. Len(s) : k \in T
    BY <1>0, <1>1, <1>2, UpTo
<1> QED BY <1>3 DEF T

LEMMA SumsSmaller ==
    ASSUME NEW s \in Seq(Nat), NEW t \in Seq(Nat), Len(t) = Len(s),
           \A k \in 1 .. Len(s) : s[k] <= t[k],
           NEW i \in 1 .. Len(s), s[i] < t[i]
    PROVE  Total(s) < Total(t)
<1> DEFINE T == {k \in 0 .. Len(s) : /\ Sums(s)[k] <= Sums(t)[k]
                                     /\ k >= i => Sums(s)[k] < Sums(t)[k]}
<1>0. Len(s) \in Nat
    OBVIOUS
<1>1. 0 \in T
    BY <1>0, SumsRule
<1>2. ASSUME NEW k \in 1 .. Len(s), k - 1 \in T
      PROVE  k \in T
  <2>1. k \in 1 .. Len(t)
      OBVIOUS
  <2>2. PICK a, x \in Nat : /\ a = Sums(s)[k - 1] /\ x = s[k] /\ Sums(s)[k] = a + x
                            /\ k \in 0 .. Len(s)
      BY NextSum
  <2>3. PICK b, y \in Nat : b = Sums(t)[k - 1] /\ y = t[k] /\ Sums(t)[k] = b + y
      BY <2>1, NextSum
  <2>4. x <= y /\ a <= b /\ (k - 1 >= i => a < b)
    <3>1. s[k] <= t[k]
        OBVIOUS
    <3>2. Sums(s)[k - 1] <= Sums(t)[k - 1] /\ (k - 1 >= i => Sums(s)[k - 1] < Sums(t)[k - 1])
        BY <1>2
    <3> HIDE DEF T
    <3> QED BY <2>2, <2>3, <3>1, <3>2, Zenon
  <2>5. k = i => x < y
    <3>1. s[i] < t[i]
        OBVIOUS
    <3> QED BY <2>2, <2>3, <3>1, Zenon
  <2>6. a + x <= b + y /\ (k >= i => a + x < b + y)
    <3>1. a + x <= b + y /\ (a < b => a + x < b + y) /\ (x < y => a + x < b + y)
        BY <2>4
    <3>2. k >= i => k - 1 >= i \/ k = i
        OBVIOUS
    <3> QED BY <2>4, <2>5, <3>1, <3>2, Zenon
  <2>7. Sums(s)[k] <= Sums(t)[k] /\ (k >= i => Sums(s)[k] < Sums(t)[k])
    <3> HIDE DEF T
    <3> QED BY <2>2, <2>3, <2>6, Zenon
  <2> QED BY <2>2, <2>7
<1> HIDE DEF T
<1>3. \A k \in 0 .. Len(s) : k \in T
    BY <1>0, <1>1, <1>2, UpTo
<1>4. Len(s) \in T /\ Len(s) >= i
    BY <1>0, <1>3
<1> QED BY <1>4 DEF T, Total

LEMMA SumsZero ==
    ASSUME NEW s \in Seq(Nat), \A k \in 1 .. Len(s) : s[k] = 0
    PROVE  Total(s) = 0
<1> DEFINE T == {k \in 0 .. Len(s) : Sums(s)[k] = 0}
<1>0. Len(s) \in Nat
    OBVIOUS
<1>1. 0 \in T
    BY <1>0, SumsRule
<1>2. ASSUME NEW k \in 1 .. Len(s), k - 1 \in T
      PROVE  k \in T
  <2>1. Sums(s)[k] = Sums(s)[k - 1] + s[k] /\ s[k] = 0 /\ Sums(s)[k - 1] = 0
      BY <1>2, SumsRule
  <2> QED BY <2>1
<1> HIDE DEF T
<1>3. \A k \in 0 .. Len(s) : k \in T
    BY <1>0, <1>1, <1>2, UpTo
<1>4. Len(s) \in T
    BY <1>0, <1>3
<1> QED BY <1>4 DEF T, Total

LEMMA SumsSingle ==
    ASSUME NEW s \in Seq(Nat), NEW i \in 1 .. Len(s), s[i] = 1,
           \A k \in 1 .. Len(s) : k # i => s[k] = 0
    PROVE  Total(s) = 1
<1> DEFINE T == {k \in 0 .. Len(s) : Sums(s)[k] = IF k >= i THEN 1 ELSE 0}
<1>0. Len(s) \in Nat
    OBVIOUS
<1>1. 0 \in T
    BY <1>0, SumsRule
<1>2. ASSUME NEW k \in 1 .. Len(s), k - 1 \in T
      PROVE  k \in T
  <2>1. /\ Sums(s)[k] = Sums(s)[k - 1] + s[k]
        /\ Sums(s)[k - 1] = IF k - 1 >= i THEN 1 ELSE 0
      BY <1>2, SumsRule
  <2>2. s[k] = IF k = i THEN 1 ELSE 0
      OBVIOUS
  <2>3. Sums(s)[k] = IF k >= i THEN 1 ELSE 0
    <3>1. CASE k > i
        BY <2>1, <2>2, <3>1
    <3>2. CASE k = i
        BY <2>1, <2>2, <3>2
    <3>3. CASE k < i
        BY <2>1, <2>2, <3>3
    <3> QED BY <3>1, <3>2, <3>3
  <2> QED BY <2>3
<1> HIDE DEF T
<1>3. \A k \in 0 .. Len(s) : k \in T
    BY <1>0, <1>1, <1>2, UpTo
<1>4. Len(s) \in T /\ Len(s) >= i
    BY <1>0, <1>3
<1> QED BY <1>4 DEF T, Total
-----------------------------------------------------------------------------
(***************************************************************************)
(* What is known of a slave.                                               *)
(***************************************************************************)
Descriptions == Types \cup Assigned
Current == found[slave][pc]

Known ==
    /\ type \in [Slaves -> Types] /\ own \in [Slaves -> Descriptions]
    /\ found \in [Slaves -> Descriptions \cup {None}] /\ lrw \in BOOLEAN

LEMMA Constants ==
    /\ N \in Nat \ {0} /\ MaxSegment \in Nat \ {0} /\ MaxSegments \in Nat \ {0}
    /\ 1 \in Slaves /\ Dirs = {"out", "in"}
BY IoMapAssumption DEF Slaves, Dirs

LEMMA Description ==
    ASSUME NEW t \in Descriptions \cup {None}, NEW d \in Dirs
    PROVE  t[d] \in Seq(SyncManager)
<1>1. CASE t = None
    BY <1>1 DEF None
<1>2. CASE t \in Descriptions
    BY <1>2, IoMapAssumption DEF Descriptions
<1> QED BY <1>1, <1>2

LEMMA SyncManagerBits ==
    ASSUME NEW sms \in Seq(SyncManager), NEW k \in DOMAIN sms
    PROVE  sms[k] \in SyncManager /\ sms[k].bits \in Nat \ {0} /\ sms[k].gap \in BOOLEAN
<1>1. sms[k] \in SyncManager
    OBVIOUS
<1> QED BY <1>1 DEF SyncManager

LEMMA BitsSeq ==
    ASSUME NEW sms \in Seq(SyncManager)
    PROVE  LET b == [k \in DOMAIN sms |-> sms[k].bits]
               y == [k \in DOMAIN sms |-> SMlength(sms[k])]
           IN  /\ b \in Seq(Nat) /\ Len(b) = Len(sms) /\ \A k \in 1 .. Len(sms) : b[k] = sms[k].bits
               /\ y \in Seq(Nat) /\ Len(y) = Len(sms)
               /\ \A k \in 1 .. Len(sms) : y[k] = SMlength(sms[k])
<1>1. \A k \in DOMAIN sms : sms[k].bits \in Nat \ {0}
    BY SyncManagerBits
<1>2. \A k \in DOMAIN sms : SMlength(sms[k]) \in Nat
    BY <1>1 DEF SMlength
<1> DEFINE b == [k \in 1 .. Len(sms) |-> sms[k].bits]
           y == [k \in 1 .. Len(sms) |-> SMlength(sms[k])]
<1>3. DOMAIN sms = 1 .. Len(sms) /\ Len(sms) \in Nat
    OBVIOUS
<1>4. b \in [1 .. Len(sms) -> Nat] /\ y \in [1 .. Len(sms) -> Nat]
    BY <1>1, <1>2, <1>3
<1>5. \A k \in 1 .. Len(sms) : b[k] = sms[k].bits /\ y[k] = SMlength(sms[k])
    OBVIOUS
<1>6. b = [k \in DOMAIN sms |-> sms[k].bits] /\ y = [k \in DOMAIN sms |-> SMlength(sms[k])]
    BY <1>3
<1> HIDE DEF b, y
<1>7. /\ b \in Seq(Nat) /\ Len(b) = Len(sms)
      /\ y \in Seq(Nat) /\ Len(y) = Len(sms)
    BY <1>3, <1>4
<1> QED BY <1>5, <1>6, <1>7

LEMMA SizesOf ==
    ASSUME NEW sms \in Seq(SyncManager)
    PROVE  /\ Bits(sms) \in Nat /\ (sms # <<>> => Bits(sms) > 0) /\ (sms = <<>> => Bits(sms) = 0)
           /\ ByteCount(sms, 0) = 0
           /\ \A k \in 0 .. Len(sms) : ByteCount(sms, k) \in Nat
           /\ \A k \in 1 .. Len(sms) :
                 /\ ByteCount(sms, k) = ByteCount(sms, k - 1) + SMlength(sms[k])
                 /\ SMlength(sms[k]) \in Nat \ {0}
<1>1. PICK b \in Seq(Nat) : /\ b = [k \in DOMAIN sms |-> sms[k].bits] /\ Len(b) = Len(sms)
                            /\ \A k \in 1 .. Len(sms) : b[k] = sms[k].bits
    BY BitsSeq
<1>2. PICK y \in Seq(Nat) : /\ y = [k \in DOMAIN sms |-> SMlength(sms[k])] /\ Len(y) = Len(sms)
                            /\ \A k \in 1 .. Len(sms) : y[k] = SMlength(sms[k])
    BY BitsSeq
<1>3. Bits(sms) = Total(b) /\ \A k : ByteCount(sms, k) = Sums(y)[k]
    BY <1>1, <1>2 DEF Bits, ByteCount
<1>4. \A k \in 1 .. Len(sms) : sms[k].bits \in Nat \ {0} /\ SMlength(sms[k]) \in Nat \ {0}
  <2> TAKE k \in 1 .. Len(sms)
  <2>1. sms[k].bits \in Nat \ {0}
      BY SyncManagerBits
  <2> QED BY <2>1 DEF SMlength
<1>5. sms = <<>> => Bits(sms) = 0
    BY <1>1, <1>3, SumsRule DEF Total
<1>6. ASSUME sms # <<>>
      PROVE  Bits(sms) > 0
  <2>1. Len(b) \in 1 .. Len(b) /\ Len(b) - 1 \in 0 .. Len(b) /\ Len(b) \in 0 .. Len(b)
      BY <1>1, <1>6
  <2>2. b[Len(b)] \in Nat \ {0}
      BY <1>1, <1>4, <2>1
  <2>3. Sums(b)[Len(b)] = Sums(b)[Len(b) - 1] + b[Len(b)] /\ Sums(b) \in [0 .. Len(b) -> Nat]
      BY <2>1, SumsRule
  <2>4. Sums(b)[Len(b) - 1] \in Nat
      BY <2>1, <2>3
  <2> QED BY <1>3, <2>2, <2>3, <2>4 DEF Total
<1>7. Sums(y) \in [0 .. Len(sms) -> Nat] /\ Sums(y)[0] = 0
      /\ \A k \in 1 .. Len(sms) : Sums(y)[k] = Sums(y)[k - 1] + y[k]
    BY <1>2, SumsRule
<1>8. Bits(sms) \in Nat
    BY <1>3, SumsRule
<1>9. ByteCount(sms, 0) = 0 /\ \A k \in 0 .. Len(sms) : ByteCount(sms, k) \in Nat
    BY <1>3, <1>7
<1>10. \A k \in 1 .. Len(sms) : ByteCount(sms, k) = ByteCount(sms, k - 1) + SMlength(sms[k])
    BY <1>2, <1>3, <1>7
<1> QED BY <1>4, <1>5, <1>6, <1>8, <1>9, <1>10
-----------------------------------------------------------------------------
(***************************************************************************)
(* Where the map ends while a slave has its turn: mark is where it began.  *)
(***************************************************************************)
Sending == pc \in {"mapped", "LRD", "LWR", "LRW", "sent"}

LoopInv ==
    /\ mark <= pos \div 8
    /\ pc \notin Dirs => smc = 1
    /\ smc = 1 => done = 0 /\ mark = pos \div 8
    /\ pc \in Dirs /\ smc > 1 =>
          /\ Current # <<>>
          /\ Bits(Current) < 8 => done > 0 /\ pos \div 8 <= mark + 1
          /\ Bits(Current) > 7 => /\ pos % 8 = 0 /\ done <= WholeBytes(Bits(Current))
                                  /\ pos <= 8 * (mark + 1 + done)
    /\ Sending => pos = 8 * mark

LEMMA Rounding ==
    ASSUME NEW x \in Nat
    PROVE  /\ ByteUp(x) \in Nat /\ ByteUp(x) >= x /\ ByteUp(x) % 8 = 0
           /\ ByteUp(x) = 8 * (ByteUp(x) \div 8) /\ ByteUp(x) \div 8 \in Nat
           /\ x % 8 = 0 => ByteUp(x) = x
           /\ x % 8 # 0 => ByteUp(x) \div 8 = x \div 8 + 1
           /\ (x + 7) \div 8 \in Nat /\ x \div 8 \in Nat /\ 8 * (x \div 8) <= x
           /\ x > 0 => (x + 7) \div 8 > 0
           /\ x < 8 => (x + 7) \div 8 <= 1
BY DEF ByteUp

(* One turn of the loop that programs FMMUs.                               *)
LEMMA Mapping ==
    ASSUME TypeOK, Known, LoopInv, CreateMapping
    PROVE  /\ pc \in Dirs /\ Current \in Seq(SyncManager) /\ Current # <<>>
           /\ smc \in 1 .. Len(Current) /\ Last(Current, smc) \in smc .. Len(Current)
           /\ smc' = Last(Current, smc) + 1
           /\ UNCHANGED <<type, own, lrw, found, pc, slave, mark, IOsegment, size, group, turn, frames>>
           /\ done' \in Nat \ {0} /\ pos' \in Nat
           /\ \E from \in Nat, length \in Nat \ {0} :
                 /\ from >= pos /\ pos' = from + length
                 /\ fmmus' = fmmus \cup {Fmmu(from, length)}
                 /\ Bits(Current) > 7 =>
                       LET rest  == WholeBytes(Bits(Current)) - done
                           count == ByteCount(Current, Last(Current, smc))
                       IN  length = 8 * (IF count > rest THEN rest ELSE count) /\ length = 8 * (done' - done)
           /\ Bits(Current) < 8 => pos' \div 8 <= mark + 1
           /\ Bits(Current) > 7 => /\ pos' % 8 = 0 /\ done' <= WholeBytes(Bits(Current))
                                   /\ pos' <= 8 * (mark + 1 + done')
<1> DEFINE sms == Current
           bits == Bits(sms)
           last == Last(sms, smc)
           count == ByteCount(sms, last)
<1>1. /\ pc \in Dirs /\ smc <= Len(sms) /\ done < (bits + 7) \div 8 /\ smc' = last + 1
      /\ UNCHANGED <<type, own, lrw, found, pc, slave, mark, IOsegment, size, group, turn, frames>>
      /\ BitOriented(bits) \/ ByteOriented(bits, count)
    BY DEF CreateMapping, config, segments, sending, Current
<1>2. sms \in Seq(SyncManager)
  <2>1. found[slave] \in Descriptions \cup {None}
      BY DEF TypeOK, Known
  <2> QED BY <1>1, <2>1, Description DEF Current
<1>3. smc \in 1 .. Len(sms) /\ sms # <<>> /\ Len(sms) \in Nat
  <2>1. Len(sms) \in Nat
      BY <1>2
  <2>2. smc \in Nat /\ smc >= 1
      BY DEF TypeOK
  <2> HIDE DEF sms
  <2> QED BY <1>1, <2>1, <2>2
<1>4. last \in smc .. Len(sms)
  <2> DEFINE C == {k \in smc .. Len(sms) :
                      \/ k = Len(sms)
                      \/ sms[k + 1].gap
                      \/ 8 * ByteCount(sms, k) >= Bits(sms)}
  <2>1. C \subseteq Nat /\ Len(sms) \in C
      BY <1>3
  <2>2. last = Min(C)
      BY DEF Last
  <2> HIDE DEF C
  <2>3. last \in C
      BY <2>1, <2>2, MinIsIn
  <2> QED BY <2>3 DEF C
<1> HIDE DEF sms, last
<1>5. bits \in Nat \ {0} /\ (bits + 7) \div 8 \in Nat
  <2>1. Bits(sms) \in Nat /\ Bits(sms) > 0
      BY <1>2, <1>3, SizesOf
  <2>2. bits \in Nat /\ bits \in Nat \ {0}
      BY <2>1
  <2> HIDE DEF bits
  <2> QED BY <2>2, Rounding
<1>6. count \in Nat \ {0}
  <2>1. last \in 1 .. Len(sms) /\ last - 1 \in 0 .. Len(sms)
      BY <1>3, <1>4
  <2> QED BY <1>2, <2>1, SizesOf
<1> HIDE DEF bits, count
<1>7. pos \in Nat /\ done \in Nat /\ mark \in Nat /\ smc \in Nat \ {0}
    BY DEF TypeOK
<1>8. /\ smc = 1 => done = 0 /\ mark = pos \div 8
      /\ smc # 1 => /\ bits < 8 => done > 0
                    /\ bits > 7 => pos % 8 = 0 /\ pos <= 8 * (mark + 1 + done)
    BY <1>1, <1>7 DEF LoopInv, sms, bits
<1>9. CASE BitOriented(bits)
  <2>1. /\ bits < 8 /\ fmmus' = fmmus \cup {Fmmu(pos, bits)} /\ pos' = pos + bits
        /\ done' = done + ((pos + bits - 1) \div 8) - (pos \div 8) + 1
      BY <1>9 DEF BitOriented
  <2>2. smc = 1 /\ done = 0 /\ mark = pos \div 8
      BY <1>1, <1>5, <1>7, <1>8, <2>1
  <2>3. done' \in Nat \ {0} /\ pos' \in Nat /\ pos' \div 8 <= mark + 1
      BY <1>5, <1>7, <2>1, <2>2
  <2>4. \E from \in Nat, length \in Nat \ {0} :
            /\ from >= pos /\ pos' = from + length /\ ~(bits > 7)
            /\ fmmus' = fmmus \cup {Fmmu(from, length)}
    <3> pos \in Nat /\ bits \in Nat \ {0}
        BY <1>5, <1>7
    <3> WITNESS pos \in Nat, bits \in Nat \ {0}
    <3> QED BY <1>5, <1>7, <2>1
  <2>5. ~(bits > 7)
      BY <1>5, <2>1
  <2> QED BY <1>1, <1>2, <1>3, <1>4, <2>3, <2>4, <2>5 DEF sms, bits, last
<1>10. CASE ByteOriented(bits, count)
  <2> DEFINE rest == WholeBytes(bits) - done
             len == IF count > rest THEN rest ELSE count
  <2>1. /\ bits > 7 /\ fmmus' = fmmus \cup {Fmmu(ByteUp(pos), 8 * len)}
        /\ pos' = ByteUp(pos) + 8 * len /\ done' = done + len
      BY <1>10 DEF ByteOriented
  <2>2. WholeBytes(bits) = (bits + 7) \div 8
      BY <2>1 DEF WholeBytes
  <2>3. len \in Nat \ {0} /\ done + len <= WholeBytes(bits)
      BY <1>1, <1>5, <1>6, <1>7, <2>2
  <2>4. ByteUp(pos) \in Nat /\ ByteUp(pos) >= pos /\ ByteUp(pos) % 8 = 0
      BY <1>7, Rounding
  <2>5. ByteUp(pos) <= 8 * (mark + 1 + done)
    <3>1. CASE smc = 1
        BY <1>7, <1>8, <3>1 DEF ByteUp
    <3>2. CASE smc # 1
        BY <1>7, <1>8, <2>1, <3>2, Rounding
    <3> QED BY <3>1, <3>2
  <2>6. len = IF count > rest THEN rest ELSE count
      OBVIOUS
  <2> HIDE DEF len
  <2>7. /\ done' \in Nat \ {0} /\ pos' \in Nat /\ 8 * len \in Nat \ {0} /\ pos' % 8 = 0
        /\ pos' <= 8 * (mark + 1 + done') /\ 8 * len = 8 * (done' - done)
      BY <1>7, <2>1, <2>3, <2>4, <2>5
  <2>8. \E from \in Nat, length \in Nat \ {0} :
            /\ from >= pos /\ pos' = from + length
            /\ fmmus' = fmmus \cup {Fmmu(from, length)}
            /\ length = 8 * (IF count > rest THEN rest ELSE count) /\ length = 8 * (done' - done)
    <3> ByteUp(pos) \in Nat /\ 8 * len \in Nat \ {0}
        BY <2>4, <2>7
    <3> WITNESS ByteUp(pos) \in Nat, 8 * len \in Nat \ {0}
    <3> QED BY <2>1, <2>4, <2>6, <2>7
  <2>9. ~(bits < 8) /\ done' <= WholeBytes(bits)
      BY <1>5, <2>1, <2>3
  <2> QED BY <1>1, <1>2, <1>3, <1>4, <2>7, <2>8, <2>9 DEF sms, bits, last, count
<1> QED BY <1>1, <1>9, <1>10
-----------------------------------------------------------------------------
(***************************************************************************)
(* Where the segments end.                                                 *)
(***************************************************************************)
SizeOf(segs, last, k) == IF k <= Len(segs) THEN segs[k] ELSE last
CutOf(segs, last, k) == IF k <= Len(segs) THEN Sums(segs)[k] ELSE Total(segs) + last
Cut(k) == CutOf(IOsegment, size, k)

LEMMA CutRule ==
    ASSUME NEW segs \in Seq(Nat), NEW last \in Nat
    PROVE  /\ CutOf(segs, last, 0) = 0
           /\ \A k \in 0 .. Len(segs) + 1 : CutOf(segs, last, k) \in Nat
           /\ \A k \in 1 .. Len(segs) + 1 :
                 /\ CutOf(segs, last, k) = CutOf(segs, last, k - 1) + SizeOf(segs, last, k)
                 /\ SizeOf(segs, last, k) \in Nat
           /\ CutOf(segs, last, Len(segs) + 1) = Total(segs) + last
<1>1. /\ Len(segs) \in Nat /\ Sums(segs) \in [0 .. Len(segs) -> Nat] /\ Sums(segs)[0] = 0
      /\ \A k \in 1 .. Len(segs) : Sums(segs)[k] = Sums(segs)[k - 1] + segs[k]
      /\ Total(segs) \in Nat /\ Total(segs) = Sums(segs)[Len(segs)]
    BY SumsRule DEF Total
<1>2. \A k \in 0 .. Len(segs) : CutOf(segs, last, k) = Sums(segs)[k] /\ Sums(segs)[k] \in Nat
  <2> TAKE k \in 0 .. Len(segs)
  <2>1. k <= Len(segs)
      OBVIOUS
  <2>2. Sums(segs)[k] \in Nat
      BY <1>1
  <2> QED BY <2>1, <2>2, Zenon DEF CutOf
<1>3. CutOf(segs, last, Len(segs) + 1) = Total(segs) + last
    BY <1>1 DEF CutOf
<1>4. \A k \in 1 .. Len(segs) : SizeOf(segs, last, k) = segs[k] /\ segs[k] \in Nat
    BY <1>1 DEF SizeOf
<1>5. SizeOf(segs, last, Len(segs) + 1) = last
    BY <1>1 DEF SizeOf
<1>6. CutOf(segs, last, 0) = 0
    BY <1>1, <1>2
<1>7. \A k \in 0 .. Len(segs) + 1 : CutOf(segs, last, k) \in Nat
  <2> TAKE k \in 0 .. Len(segs) + 1
  <2>1. CASE k \in 0 .. Len(segs)
      BY <1>2, <2>1
  <2>2. CASE k = Len(segs) + 1
      BY <1>1, <1>3, <2>2
  <2> QED BY <1>1, <2>1, <2>2
<1>8. ASSUME NEW k \in 1 .. Len(segs) + 1
      PROVE  /\ CutOf(segs, last, k) = CutOf(segs, last, k - 1) + SizeOf(segs, last, k)
             /\ SizeOf(segs, last, k) \in Nat
  <2>1. CASE k \in 1 .. Len(segs)
    <3>1. k - 1 \in 0 .. Len(segs) /\ k \in 0 .. Len(segs)
        BY <1>1, <2>1
    <3> QED BY <1>1, <1>2, <1>4, <2>1, <3>1
  <2>2. CASE k = Len(segs) + 1
    <3>1. k - 1 = Len(segs) /\ Len(segs) \in 0 .. Len(segs)
        BY <1>1, <2>2
    <3> QED BY <1>1, <1>2, <1>3, <1>5, <2>2, <3>1
  <2> QED BY <1>1, <2>1, <2>2
<1> QED BY <1>3, <1>6, <1>7, <1>8

LEMMA CutsGrow ==
    ASSUME NEW segs \in Seq(Nat), NEW last \in Nat,
           NEW k \in 0 .. Len(segs) + 1, NEW j \in 0 .. k
    PROVE  CutOf(segs, last, j) <= CutOf(segs, last, k)
<1>0. Len(segs) \in Nat
    OBVIOUS
<1>1. CASE k \in 0 .. Len(segs)
  <2>1. j \in 0 .. Len(segs) /\ k \in j .. Len(segs)
      BY <1>0, <1>1
  <2>2. Sums(segs)[j] <= Sums(segs)[k]
      BY <2>1, SumsGrow
  <2> QED BY <1>1, <2>1, <2>2 DEF CutOf
<1>2. CASE k = Len(segs) + 1 /\ j \in 0 .. Len(segs)
  <2>1. Len(segs) \in j .. Len(segs)
      BY <1>0, <1>2
  <2>2. Sums(segs)[j] <= Total(segs)
      BY <1>2, <2>1, SumsGrow DEF Total
  <2>3. Total(segs) \in Nat /\ Sums(segs)[j] \in Nat
      BY <1>2, SumsRule
  <2>4. CutOf(segs, last, j) = Sums(segs)[j] /\ CutOf(segs, last, k) = Total(segs) + last
      BY <1>0, <1>2 DEF CutOf
  <2> QED BY <2>2, <2>3, <2>4
<1>3. CASE k = Len(segs) + 1 /\ j = k
  <2>1. CutOf(segs, last, k) \in Nat
      BY CutRule
  <2> QED BY <1>3, <2>1
<1> QED BY <1>0, <1>1, <1>2, <1>3

(* A segment that is completed, and one that grows.                        *)
LEMMA CutsStay ==
    ASSUME NEW segs \in Seq(Nat), NEW last \in Nat, NEW more \in Nat
    PROVE  /\ \A k \in 0 .. Len(segs) + 1 :
                 CutOf(Append(segs, last), more, k) = CutOf(segs, last, k)
           /\ CutOf(Append(segs, last), more, Len(segs) + 2) = CutOf(segs, last, Len(segs) + 1) + more
           /\ \A k \in 0 .. Len(segs) : CutOf(segs, more, k) = CutOf(segs, last, k)
<1> DEFINE t == Append(segs, last)
<1>1. t \in Seq(Nat) /\ Len(t) = Len(segs) + 1 /\ Len(segs) \in Nat
    OBVIOUS
<1>2. /\ \A k \in 0 .. Len(segs) : Sums(t)[k] = Sums(segs)[k]
      /\ Total(t) = Total(segs) + last /\ Total(t) = Sums(t)[Len(segs) + 1]
  <2>1. Total(t) = Sums(t)[Len(segs) + 1]
      BY <1>1 DEF Total
  <2> QED BY <2>1, SumsOneMore
<1> HIDE DEF t
<1>3. \A k \in 0 .. Len(segs) + 1 : CutOf(t, more, k) = CutOf(segs, last, k)
  <2> TAKE k \in 0 .. Len(segs) + 1
  <2>1. CASE k \in 0 .. Len(segs)
      BY <1>1, <1>2, <2>1 DEF CutOf
  <2>2. CASE k = Len(segs) + 1
      BY <1>1, <1>2, <2>2 DEF CutOf
  <2> QED BY <1>1, <2>1, <2>2
<1>4. CutOf(t, more, Len(segs) + 2) = Total(segs) + last + more
    BY <1>1, <1>2 DEF CutOf
<1>5. CutOf(segs, last, Len(segs) + 1) = Total(segs) + last
    BY CutRule
<1>6. \A k \in 0 .. Len(segs) : CutOf(segs, more, k) = CutOf(segs, last, k)
    BY <1>1 DEF CutOf
<1> QED BY <1>3, <1>4, <1>5, <1>6 DEF t

(* What Account does.                                                      *)
LEMMA Accounts ==
    ASSUME TypeOK, NEW diff \in Nat, Account(diff)
    PROVE  \/ size' = size + diff /\ IOsegment' = IOsegment /\ size' <= MaxSegment
           \/ /\ IOsegment' = Append(IOsegment, size) /\ size' = diff
              /\ Len(IOsegment) + 1 < MaxSegments
           \/ size' = size /\ IOsegment' = IOsegment /\ ~Enough
<1>1. /\ IOsegment \in Seq(Nat) /\ Len(IOsegment) \in Nat /\ MaxSegments \in Nat
      /\ Len(IOsegment) < MaxSegments
    BY Constants DEF TypeOK
<1> QED BY <1>1 DEF Account, Enough, nsegments

LEMMA AccountType ==
    ASSUME TypeOK, NEW diff \in Nat, Account(diff)
    PROVE  /\ size' \in Nat /\ IOsegment' \in Seq(Nat) /\ Len(IOsegment') \in Nat
           /\ Len(IOsegment') < MaxSegments /\ Len(IOsegment) <= Len(IOsegment')
<1>1. /\ IOsegment \in Seq(Nat) /\ Len(IOsegment) \in Nat /\ MaxSegments \in Nat
      /\ Len(IOsegment) < MaxSegments /\ size \in Nat
    BY Constants DEF TypeOK
<1>2. /\ Append(IOsegment, size) \in Seq(Nat)
      /\ Len(Append(IOsegment, size)) = Len(IOsegment) + 1
    BY <1>1
<1>3. \/ size' = size + diff /\ IOsegment' = IOsegment
      \/ /\ IOsegment' = Append(IOsegment, size) /\ size' = diff
         /\ Len(IOsegment) + 1 < MaxSegments
      \/ size' = size /\ IOsegment' = IOsegment
    BY Accounts
<1>4. CASE IOsegment' = IOsegment
  <2>1. size' \in Nat
    <3>1. Len(Append(IOsegment, size)) # Len(IOsegment)
        BY <1>1, <1>2
    <3> QED BY <1>1, <1>3, <1>4, <3>1
  <2>2. Len(IOsegment') = Len(IOsegment)
      BY <1>4, Zenon
  <2> QED BY <1>1, <1>4, <2>1, <2>2
<1>5. CASE IOsegment' # IOsegment
  <2>1. /\ IOsegment' = Append(IOsegment, size) /\ size' = diff
        /\ Len(IOsegment) + 1 < MaxSegments
      BY <1>3, <1>5, Zenon
  <2>2. IOsegment' \in Seq(Nat) /\ Len(IOsegment') = Len(IOsegment) + 1
      BY <1>2, <2>1, Zenon
  <2> QED BY <1>1, <2>1, <2>2
<1> QED BY <1>4, <1>5
-----------------------------------------------------------------------------
(***************************************************************************)
(* The map and its segments.                                               *)
(***************************************************************************)
Finding == pc \in {"coe", "sii"}
OutputsDone == pc \in {"in", "inputs"} \/ Sending

Begun ==
    /\ Finding => /\ fmmus = {} /\ IOsegment = <<>> /\ size = 0 /\ pos = 0 /\ mark = 0
                  /\ group.outputsWKC = 0 /\ group.inputsWKC = 0
    /\ ~Sending \/ pc = "mapped" => frames = <<>>
SegmentsInv == Enough => Cut(nsegments) = mark
GroupInv ==
    /\ OutputsDone => /\ group.Isegment <= Len(IOsegment)
                      /\ group.Ioffset <= SizeOf(IOsegment, size, group.Isegment + 1)
                      /\ group.Obytes <= mark
                      /\ Enough => group.Obytes = Cut(group.Isegment) + group.Ioffset
    /\ Sending => group.Obytes + group.Ibytes = mark
TurnInv ==
    pc \in {"LRD", "LWR", "LRW"} =>
        /\ turn.seg <= nsegments
        /\ pc = "LRD" => turn.seg > group.Isegment
        /\ pc = "LWR" => turn.length >= 0

IInv == TypeOK /\ Known /\ LoopInv /\ Begun /\ SegmentsInv /\ GroupInv /\ TurnInv

Group == [{"Obytes", "Ibytes", "Isegment", "Ioffset", "outputsWKC", "inputsWKC"} -> Nat]

LEMMA IInvInit == Init => IInv
<1> SUFFICES ASSUME Init PROVE IInv
    OBVIOUS
<1>1. own \in [Slaves -> Descriptions] /\ type \in [Slaves -> Types]
    BY DEF Init, Descriptions
<1>2. found = [s \in Slaves |-> None] /\ None \in [Dirs -> Seq(SyncManager)]
    BY DEF Init, None
<1>3. /\ 1 \in Slaves /\ 0 < MaxSegments /\ 1 \in 1 .. MaxSegments
    BY Constants
<1>4. TypeOK
  <2>1. group \in Group
      BY DEF Init, Group
  <2>2. /\ turn \in [adr : Nat, length : Int, seg : 1 .. MaxSegments]
        /\ frames \in Seq([cmd : {"LRD", "LWR", "LRW"}, adr : Nat, length : Nat])
        /\ IOsegment \in Seq(Nat) /\ Len(IOsegment) < MaxSegments
      BY <1>3 DEF Init
  <2>3. found \in [Slaves -> [Dirs -> Seq(SyncManager)]]
      BY <1>2
  <2> QED BY <1>3, <2>1, <2>2, <2>3 DEF Init, TypeOK, Group
<1>5. Known
    BY <1>1, <1>2 DEF Init, Known
<1>6. LoopInv
    BY DEF Init, LoopInv, Dirs, Sending
<1>7. SegmentsInv
  <2>1. IOsegment = <<>> /\ size = 0 /\ mark = 0 /\ nsegments = 1
      BY DEF Init, nsegments
  <2>2. Cut(1) = Total(<<>>) + 0
      BY <2>1 DEF Cut, CutOf
  <2>3. Total(<<>>) = 0
    <3>1. <<>> \in Seq(Nat) /\ Len(<<>>) = 0
        OBVIOUS
    <3>2. Sums(<<>>)[0] = 0
        BY <3>1, SumsRule
    <3> QED BY <3>1, <3>2 DEF Total
  <2> QED BY <2>1, <2>2, <2>3 DEF SegmentsInv
<1> QED BY <1>4, <1>5, <1>6, <1>7 DEF Init, IInv, Begun, GroupInv, TurnInv, Sending, OutputsDone

LEMMA NextSlaveType ==
    ASSUME NEW loop, NEW after, slave \in Slaves, NextSlave(loop, after)
    PROVE  slave' \in Slaves /\ pc' \in {loop, after}
BY Constants DEF NextSlave, Slaves

(* While process data are being found.                                     *)
LEMMA FindingKeeps ==
    ASSUME IInv, MapCoe \/ MapSii
    PROVE  /\ IInv' /\ Finding
           /\ UNCHANGED <<type, own, lrw, smc, done, fmmus, pos, mark, IOsegment, size, group, turn, frames>>
           /\ pc' \in {"coe", "sii"} \/ (pc' = "out" /\ slave' = 1)
<1>1. /\ pc \in {"coe", "sii"} /\ pc' \in {"coe", "sii", "out"} /\ slave' \in Slaves
      /\ pc' \in {"coe", "sii"} \/ (pc' = "out" /\ slave' = 1)
      /\ UNCHANGED <<type, own, lrw, smc, done, fmmus, pos, mark, IOsegment, size, group, turn, frames>>
    BY NextSlaveType DEF IInv, TypeOK, MapCoe, MapSii, NextSlave, config, mapping, segments, sending
<1>2. found \in [Slaves -> Descriptions \cup {None}] /\ slave \in Slaves
    BY DEF IInv, TypeOK, Known
<1>3. found' \in [Slaves -> Descriptions \cup {None}]
  <2>1. CASE MapCoe
      BY <1>2, <2>1 DEF MapCoe, IInv, Known
  <2>2. CASE MapSii
    <3>1. ASSUME Alike(slave) # {}
          PROVE  Min(Alike(slave)) \in Slaves
      <4>1. Alike(slave) \subseteq Slaves /\ Alike(slave) \subseteq Nat
          BY <1>2, Constants DEF Alike, Slaves
      <4> QED BY <3>1, <4>1, MinIsIn
    <3>2. type[slave] \in Descriptions
        BY <1>2 DEF IInv, Known, Descriptions
    <3> DEFINE new == IF found[slave] # None THEN found[slave]
                      ELSE IF Alike(slave) # {} /\ found[Min(Alike(slave))] # None
                           THEN found[Min(Alike(slave))]
                           ELSE type[slave]
    <3>3. new \in Descriptions \cup {None}
        BY <1>2, <3>1, <3>2
    <3>4. found' = [found EXCEPT ![slave] = new]
        BY <2>2 DEF MapSii
    <3> HIDE DEF new
    <3> QED BY <1>2, <3>3, <3>4
  <2> QED BY <2>1, <2>2
<1>4. found' \in [Slaves -> [Dirs -> Seq(SyncManager)]]
  <2>1. \A t \in Descriptions \cup {None} : t \in [Dirs -> Seq(SyncManager)]
    <3>1. None \in [Dirs -> Seq(SyncManager)]
        BY DEF None
    <3>2. Descriptions \subseteq [Dirs -> Seq(SyncManager)]
        BY IoMapAssumption DEF Descriptions
    <3> QED BY <3>1, <3>2
  <2> QED BY <1>3, <2>1
<1>5. TypeOK' /\ Known'
    BY <1>1, <1>3, <1>4 DEF IInv, TypeOK, Known, Dirs
<1>6. LoopInv'
    BY <1>1 DEF IInv, LoopInv, Dirs, Sending
<1>7. SegmentsInv'
    BY <1>1 DEF IInv, SegmentsInv, Enough, nsegments, Cut
<1>8. Begun' /\ GroupInv' /\ TurnInv'
    BY <1>1 DEF IInv, Begun, GroupInv, TurnInv, Finding, Sending, OutputsDone
<1> QED BY <1>1, <1>5, <1>6, <1>7, <1>8 DEF IInv, Finding

LEMMA MappingKeeps == IInv /\ CreateMapping => IInv'
<1> SUFFICES ASSUME IInv, CreateMapping PROVE IInv'
    OBVIOUS
<1>0. TypeOK /\ Known /\ LoopInv
    BY DEF IInv
<1>1. /\ pc \in Dirs /\ Current # <<>> /\ smc \in Nat \ {0} /\ smc' \in Nat \ {0} /\ smc' > 1
      /\ UNCHANGED <<type, own, lrw, found, pc, slave, mark, IOsegment, size, group, turn, frames>>
      /\ done' \in Nat \ {0} /\ pos' \in Nat
      /\ Bits(Current) < 8 => pos' \div 8 <= mark + 1
      /\ Bits(Current) > 7 => /\ pos' % 8 = 0 /\ done' <= WholeBytes(Bits(Current))
                              /\ pos' <= 8 * (mark + 1 + done')
  <2>1. Current \in Seq(SyncManager) /\ Len(Current) \in Nat
      BY <1>0, Mapping
  <2>2. \A n \in Nat : \A k \in 1 .. n : \A l \in k .. n : l + 1 \in Nat \ {0} /\ l + 1 > 1
      OBVIOUS
  <2> QED BY <1>0, <2>1, <2>2, Mapping
<1>2. PICK from \in Nat, length \in Nat \ {0} :
          /\ from >= pos /\ pos' = from + length
          /\ fmmus' = fmmus \cup {Fmmu(from, length)}
    BY <1>0, Mapping
<1>3. TypeOK'
  <2>1. Fmmu(from, length) \in [slave : Slaves, dir : Dirs, sm : Nat \ {0}, from : Nat, length : Nat]
      BY <1>0, <1>1 DEF Fmmu, TypeOK
  <2> HIDE DEF Fmmu
  <2> QED BY <1>0, <1>1, <1>2, <2>1 DEF TypeOK
<1>4. Known'
    BY <1>0, <1>1 DEF Known
<1>5. LoopInv'
  <2>1. mark <= pos' \div 8
      BY <1>0, <1>1, <1>2 DEF LoopInv, TypeOK
  <2>2. Current' = Current
      BY <1>1 DEF Current
  <2>3. ~Sending /\ Sending' = Sending
      BY <1>1 DEF Sending, Dirs
  <2>4. done' > 0 /\ smc' # 1
      BY <1>1
  <2> QED BY <1>1, <2>1, <2>2, <2>3, <2>4 DEF LoopInv
<1>6. SegmentsInv' /\ GroupInv' /\ TurnInv' /\ Begun'
    BY <1>1 DEF IInv, SegmentsInv, GroupInv, TurnInv, Begun, Enough, nsegments, Cut, Dirs,
                Finding, Sending, OutputsDone
<1> QED BY <1>3, <1>4, <1>5, <1>6 DEF IInv

(* What a slave has been given is accounted for when its turn ends.        *)
LEMMA TurnEnds ==
    ASSUME TypeOK, Known, LoopInv, SlaveMapped
    PROVE  /\ pc \in Dirs /\ Current \in Seq(SyncManager)
           /\ UNCHANGED <<type, own, lrw, found, pos, fmmus, turn, frames>>
           /\ smc' = 1 /\ done' = 0 /\ slave' \in Slaves /\ pos \in Nat
           /\ NextSlave(pc, IF pc = "out" THEN "outputs" ELSE "inputs")
           /\ pc' \in {pc, IF pc = "out" THEN "outputs" ELSE "inputs"}
           /\ mark' = pos \div 8 /\ mark' \in Nat /\ (pos \div 8) - mark \in Nat
           /\ IF Current = <<>>
              THEN mark' = mark /\ smc = 1 /\ UNCHANGED <<IOsegment, size, group>>
              ELSE /\ smc > 1 /\ Account((pos \div 8) - mark)
                   /\ group' = [group EXCEPT ![IF pc = "out" THEN "outputsWKC" ELSE "inputsWKC"] = @ + 1]
<1>1. /\ pc \in Dirs /\ slave \in Slaves /\ pos \in Nat /\ mark \in Nat /\ smc \in Nat \ {0}
      /\ UNCHANGED <<type, own, lrw, found, pos, fmmus, turn, frames>>
      /\ smc' = 1 /\ done' = 0 /\ NextSlave(pc, IF pc = "out" THEN "outputs" ELSE "inputs")
      /\ ~(smc <= Len(Current) /\ done < (Bits(Current) + 7) \div 8)
    BY DEF TypeOK, SlaveMapped, config, sending, Current
<1>2. slave' \in Slaves /\ pc' \in {pc, IF pc = "out" THEN "outputs" ELSE "inputs"}
    BY <1>1, NextSlaveType
<1>3. Current \in Seq(SyncManager)
  <2>1. found[slave] \in Descriptions \cup {None}
      BY <1>1 DEF Known
  <2> QED BY <1>1, <2>1, Description DEF Current
<1>4. pos \div 8 \in Nat /\ (pos \div 8) - mark \in Nat
    BY <1>1 DEF LoopInv
<1>5. CASE Current = <<>>
  <2>1. smc = 1 /\ mark = pos \div 8
      BY <1>1, <1>5 DEF LoopInv
  <2>2. UNCHANGED <<segments, group>>
      BY <1>5 DEF SlaveMapped, Current
  <2> QED BY <1>1, <1>2, <1>3, <1>4, <1>5, <2>1, <2>2 DEF segments
<1>6. CASE Current # <<>>
  <2>1. Bits(Current) \in Nat /\ Bits(Current) > 0 /\ Len(Current) \in Nat \ {0}
      BY <1>3, <1>6, SizesOf
  <2>2. (Bits(Current) + 7) \div 8 > 0
      BY <2>1, Rounding
  <2>3. smc > 1
      BY <1>1, <2>1, <2>2 DEF LoopInv
  <2>4. /\ Account((pos \div 8) - mark) /\ mark' = pos \div 8
        /\ group' = [group EXCEPT ![IF pc = "out" THEN "outputsWKC" ELSE "inputsWKC"] = @ + 1]
      BY <1>6 DEF SlaveMapped, Current
  <2> QED BY <1>1, <1>2, <1>3, <1>4, <1>6, <2>3, <2>4
<1> QED BY <1>5, <1>6

(* The segments go on to the new mark.                                     *)
LEMMA Counted ==
    ASSUME TypeOK, SegmentsInv, NEW diff \in Nat, Account(diff), mark' = mark + diff
    PROVE  /\ SegmentsInv'
           /\ Enough' => Enough
           /\ \A k \in 0 .. Len(IOsegment) : Cut(k)' = Cut(k)
           /\ \A k \in 1 .. Len(IOsegment) + 1 :
                 SizeOf(IOsegment, size, k) <= SizeOf(IOsegment, size, k)'
<1>1. /\ IOsegment \in Seq(Nat) /\ Len(IOsegment) \in Nat /\ MaxSegments \in Nat
      /\ Len(IOsegment) < MaxSegments /\ size \in Nat /\ mark \in Nat
    BY Constants DEF TypeOK
<1>2. Enough => CutOf(IOsegment, size, Len(IOsegment) + 1) = mark
    BY DEF SegmentsInv, Cut, nsegments
<1>3. CutOf(IOsegment, size, Len(IOsegment) + 1) = Total(IOsegment) + size /\ Total(IOsegment) \in Nat
    BY <1>1, CutRule, SumsRule
<1>4. CASE size' = size + diff /\ IOsegment' = IOsegment
  <2>1. CutOf(IOsegment, size', Len(IOsegment) + 1) = Total(IOsegment) + size'
      BY <1>1, <1>4, CutRule
  <2>2. SegmentsInv'
      BY <1>1, <1>2, <1>3, <1>4, <2>1 DEF SegmentsInv, Enough, nsegments, Cut
  <2>3. \A k \in 0 .. Len(IOsegment) : Cut(k)' = Cut(k)
      BY <1>1, <1>4, CutsStay DEF Cut
  <2>4. \A k \in 1 .. Len(IOsegment) + 1 :
           SizeOf(IOsegment, size, k) <= SizeOf(IOsegment, size, k)'
      BY <1>1, <1>4 DEF SizeOf
  <2> QED BY <1>4, <2>2, <2>3, <2>4 DEF Enough, nsegments
<1>5. CASE /\ IOsegment' = Append(IOsegment, size) /\ size' = diff
           /\ Len(IOsegment) + 1 < MaxSegments
  <2>1. /\ Len(IOsegment') = Len(IOsegment) + 1
        /\ \A k \in 1 .. Len(IOsegment) : IOsegment'[k] = IOsegment[k]
        /\ IOsegment'[Len(IOsegment) + 1] = size
      BY <1>1, <1>5
  <2>2. /\ \A k \in 0 .. Len(IOsegment) + 1 : Cut(k)' = Cut(k)
        /\ CutOf(IOsegment', size', Len(IOsegment) + 2)
              = CutOf(IOsegment, size, Len(IOsegment) + 1) + diff
      BY <1>1, <1>5, CutsStay DEF Cut
  <2>3. Enough /\ nsegments' = Len(IOsegment) + 2
      BY <1>1, <1>5, <2>1 DEF Enough, nsegments
  <2>4. SegmentsInv'
      BY <1>2, <2>2, <2>3 DEF SegmentsInv, Cut
  <2>5. ASSUME NEW k \in 1 .. Len(IOsegment) + 1
        PROVE  SizeOf(IOsegment, size, k) <= SizeOf(IOsegment, size, k)'
    <3>1. CASE k = Len(IOsegment) + 1
      <4>1. SizeOf(IOsegment, size, k) = size /\ SizeOf(IOsegment, size, k)' = size
          BY <1>1, <2>1, <3>1 DEF SizeOf
      <4> QED BY <1>1, <4>1
    <3>2. CASE k \in 1 .. Len(IOsegment)
      <4>1. /\ SizeOf(IOsegment, size, k) = IOsegment[k] /\ IOsegment[k] \in Nat
            /\ SizeOf(IOsegment, size, k)' = IOsegment[k]
          BY <1>1, <2>1, <3>2 DEF SizeOf
      <4> QED BY <4>1
    <3> QED BY <1>1, <3>1, <3>2
  <2>6. \A k \in 0 .. Len(IOsegment) : k \in 0 .. Len(IOsegment) + 1
      BY <1>1
  <2> QED BY <2>2, <2>3, <2>4, <2>5, <2>6
<1>6. CASE size' = size /\ IOsegment' = IOsegment /\ ~Enough
  <2>1. ~Enough'
      BY <1>6 DEF Enough, nsegments
  <2>2. \A k \in 0 .. Len(IOsegment) : Cut(k)' = Cut(k)
      BY <1>6 DEF Cut
  <2>3. \A k \in 1 .. Len(IOsegment) + 1 :
           SizeOf(IOsegment, size, k) <= SizeOf(IOsegment, size, k)'
    <3> TAKE k \in 1 .. Len(IOsegment) + 1
    <3>1. SizeOf(IOsegment, size, k)' = SizeOf(IOsegment, size, k)
        BY <1>6 DEF SizeOf
    <3>2. SizeOf(IOsegment, size, k) \in Nat
        BY <1>1, CutRule
    <3> QED BY <3>1, <3>2
  <2> QED BY <2>1, <2>2, <2>3 DEF SegmentsInv
<1> QED BY <1>4, <1>5, <1>6, Accounts

(* ... and what has been kept of the outputs still holds.                  *)
LEMMA OutputsKept ==
    ASSUME TypeOK, SegmentsInv, GroupInv, OutputsDone, NEW diff \in Nat, Account(diff),
           mark' = mark + diff,
           group'.Isegment = group.Isegment, group'.Ioffset = group.Ioffset,
           group'.Obytes = group.Obytes
    PROVE  /\ group'.Isegment <= Len(IOsegment')
           /\ group'.Ioffset <= SizeOf(IOsegment, size, group.Isegment + 1)'
           /\ group'.Obytes <= mark'
           /\ Enough' => group'.Obytes = Cut(group.Isegment)' + group'.Ioffset
<1>1. /\ IOsegment \in Seq(Nat) /\ Len(IOsegment) \in Nat /\ Len(IOsegment) <= Len(IOsegment')
      /\ IOsegment' \in Seq(Nat) /\ Len(IOsegment') \in Nat /\ size' \in Nat
      /\ size \in Nat /\ mark \in Nat
      /\ group.Isegment \in Nat /\ group.Obytes \in Nat /\ group.Ioffset \in Nat
    BY AccountType DEF TypeOK
<1>2. /\ group.Isegment <= Len(IOsegment) /\ group.Obytes <= mark
      /\ group.Ioffset <= SizeOf(IOsegment, size, group.Isegment + 1)
      /\ Enough => group.Obytes = Cut(group.Isegment) + group.Ioffset
    BY DEF GroupInv
<1> PICK i : i = group.Isegment
    OBVIOUS
<1>3. i \in 0 .. Len(IOsegment) /\ i + 1 \in 1 .. Len(IOsegment) + 1
    BY <1>1, <1>2
<1>4. /\ Enough' => Enough /\ Cut(i)' = Cut(i)
      /\ SizeOf(IOsegment, size, i + 1) <= SizeOf(IOsegment, size, i + 1)'
    BY <1>3, Counted
<1>5. SizeOf(IOsegment, size, i + 1) \in Nat /\ SizeOf(IOsegment, size, i + 1)' \in Nat
  <2>1. SizeOf(IOsegment, size, i + 1) \in Nat
      BY <1>1, <1>3, CutRule
  <2>2. \A segs \in Seq(Nat), last \in Nat :
           i + 1 \in 1 .. Len(segs) + 1 => SizeOf(segs, last, i + 1) \in Nat
      BY CutRule
  <2>3. i + 1 \in 1 .. Len(IOsegment') + 1
      BY <1>1, <1>3
  <2> QED BY <1>1, <2>1, <2>2, <2>3
<1>6. group'.Ioffset <= SizeOf(IOsegment, size, i + 1)'
    BY <1>1, <1>2, <1>4, <1>5
<1>7. Enough' => group'.Obytes = Cut(i)' + group'.Ioffset
    BY <1>2, <1>4
<1>8. group'.Isegment <= Len(IOsegment') /\ group'.Obytes <= mark'
    BY <1>1, <1>2
<1>9. i = group'.Isegment
    OBVIOUS
<1> QED BY <1>6, <1>7, <1>8, <1>9

LEMMA TurnEndsKeeps == IInv /\ SlaveMapped => IInv'
<1> SUFFICES ASSUME IInv, SlaveMapped PROVE IInv'
    OBVIOUS
<1>0. TypeOK /\ Known /\ LoopInv /\ SegmentsInv /\ GroupInv
    BY DEF IInv
<1> DEFINE wkc == IF pc = "out" THEN "outputsWKC" ELSE "inputsWKC"
<1>1. /\ pc \in Dirs /\ UNCHANGED <<type, own, lrw, found, pos, fmmus, turn, frames>>
      /\ smc' = 1 /\ done' = 0 /\ slave' \in Slaves /\ pos \in Nat
      /\ pc' \in {pc, IF pc = "out" THEN "outputs" ELSE "inputs"}
      /\ mark' = pos \div 8 /\ mark' \in Nat /\ (pos \div 8) - mark \in Nat
    BY <1>0, TurnEnds
<1>2. \/ Current = <<>> /\ mark' = mark /\ UNCHANGED <<IOsegment, size, group>>
      \/ Account((pos \div 8) - mark) /\ group' = [group EXCEPT ![wkc] = @ + 1]
    BY <1>0, TurnEnds
<1>3. /\ group \in Group /\ mark \in Nat /\ IOsegment \in Seq(Nat) /\ size \in Nat
      /\ Len(IOsegment) < MaxSegments
    BY <1>0 DEF TypeOK, Group
<1>4. /\ group' \in Group /\ group'.Isegment = group.Isegment /\ group'.Ioffset = group.Ioffset
      /\ group'.Obytes = group.Obytes
  <2>1. wkc \in {"outputsWKC", "inputsWKC"} /\ group[wkc] + 1 \in Nat
      BY <1>3 DEF Group
  <2> HIDE DEF wkc
  <2> QED BY <1>2, <1>3, <2>1 DEF Group
<1>5. /\ size' \in Nat /\ IOsegment' \in Seq(Nat) /\ Len(IOsegment') < MaxSegments
    BY <1>0, <1>1, <1>2, <1>3, AccountType
<1>6. pc' \in {"out", "in", "outputs", "inputs"} /\ (pc' \in {"in", "inputs"} <=> pc = "in")
    BY <1>1 DEF Dirs
<1>7. TypeOK'
  <2>1. /\ found' \in [Slaves -> [Dirs -> Seq(SyncManager)]] /\ slave' \in Slaves
        /\ fmmus' \subseteq [slave : Slaves, dir : Dirs, sm : Nat \ {0}, from : Nat, length : Nat]
        /\ turn' \in [adr : Nat, length : Int, seg : 1 .. MaxSegments]
        /\ frames' \in Seq([cmd : {"LRD", "LWR", "LRW"}, adr : Nat, length : Nat])
    <3>1. UNCHANGED <<found, fmmus, turn, frames>> /\ slave' \in Slaves
        BY <1>1, Zenon
    <3>2. /\ found' = found /\ fmmus' = fmmus /\ turn' = turn /\ frames' = frames
        BY <3>1
    <3> QED BY <1>0, <3>1, <3>2, Zenon DEF TypeOK
  <2>2. smc' \in Nat \ {0} /\ done' \in Nat /\ pos' \in Nat /\ mark' \in Nat
      BY <1>1
  <2>3. pc' \in {"coe", "sii", "outputs", "inputs", "mapped",
                 "LRD", "LWR", "LRW", "sent"} \cup Dirs
      BY <1>6 DEF Dirs
  <2>4. group' \in [{"Obytes", "Ibytes", "Isegment", "Ioffset",
                     "outputsWKC", "inputsWKC"} -> Nat]
      BY <1>4, Zenon DEF Group
  <2> QED BY <1>5, <2>1, <2>2, <2>3, <2>4, Zenon DEF TypeOK
<1>8. Known' /\ LoopInv'
    BY <1>0, <1>1, <1>6 DEF Known, LoopInv, Sending, Dirs
<1>9. SegmentsInv'
  <2>1. CASE mark' = mark /\ UNCHANGED <<IOsegment, size, group>>
      BY <1>0, <2>1 DEF SegmentsInv, Enough, nsegments, Cut
  <2>2. CASE Account((pos \div 8) - mark)
    <3>1. mark' = mark + ((pos \div 8) - mark)
        BY <1>1, <1>3
    <3> QED BY <1>0, <1>1, <2>2, <3>1, Counted
  <2> QED BY <1>2, <2>1, <2>2
<1>10. GroupInv'
  <2>1. CASE pc = "out"
      BY <1>6, <2>1 DEF GroupInv, OutputsDone, Sending
  <2>2. CASE pc = "in" /\ mark' = mark /\ UNCHANGED <<IOsegment, size, group>>
      BY <1>0, <1>6, <2>2 DEF GroupInv, OutputsDone, Sending, Enough, nsegments, Cut
  <2>3. CASE pc = "in" /\ Account((pos \div 8) - mark)
    <3>1. mark' = mark + ((pos \div 8) - mark) /\ OutputsDone
        BY <1>1, <1>3, <2>3 DEF OutputsDone
    <3>2. /\ group'.Isegment <= Len(IOsegment')
          /\ group'.Ioffset <= SizeOf(IOsegment, size, group.Isegment + 1)'
          /\ group'.Obytes <= mark'
          /\ Enough' => group'.Obytes = Cut(group.Isegment)' + group'.Ioffset
        BY <1>0, <1>1, <1>4, <2>3, <3>1, OutputsKept
    <3> QED BY <1>6, <2>3, <3>2 DEF GroupInv, OutputsDone, Sending
  <2> QED BY <1>1, <1>2, <2>1, <2>2, <2>3 DEF Dirs
<1>11. Begun' /\ TurnInv'
    BY <1>1, <1>6 DEF IInv, Begun, TurnInv, Finding, Sending, Dirs
<1> QED BY <1>7, <1>8, <1>9, <1>10, <1>11 DEF IInv

(* The last byte of the outputs, and of the inputs, is closed.             *)
LEMMA Pads ==
    ASSUME TypeOK, LoopInv, SegmentsInv, Pad, pc \notin Dirs
    PROVE  /\ pos' \in Nat /\ pos' = ByteUp(pos) /\ mark' = pos' \div 8 /\ pos' = 8 * mark' /\ mark' \in Nat
           /\ size' \in Nat /\ IOsegment' \in Seq(Nat) /\ Len(IOsegment') \in Nat
           /\ Len(IOsegment') < MaxSegments
           /\ mark \in Nat /\ mark <= mark' /\ SegmentsInv'
           /\ \/ mark' = mark + 0 /\ UNCHANGED <<IOsegment, size>>
              \/ mark' = mark + 1 /\ Account(1)
<1>1. /\ pos \in Nat /\ mark \in Nat /\ mark = pos \div 8 /\ pos' = ByteUp(pos) /\ mark' = pos' \div 8
    BY DEF TypeOK, LoopInv, Pad
<1>2. pos' \in Nat /\ pos' = 8 * mark' /\ mark' \in Nat
    BY <1>1, Rounding
<1>3. \/ mark' = mark + 0 /\ UNCHANGED <<IOsegment, size>>
      \/ mark' = mark + 1 /\ Account(1)
  <2>1. CASE pos % 8 = 0
      BY <1>1, <2>1, Rounding DEF Pad
  <2>2. CASE pos % 8 # 0
      BY <1>1, <2>2, Rounding DEF Pad
  <2> QED BY <2>1, <2>2
<1>4. /\ size' \in Nat /\ IOsegment' \in Seq(Nat) /\ Len(IOsegment') \in Nat
      /\ Len(IOsegment') < MaxSegments
  <2>1. IOsegment \in Seq(Nat) /\ Len(IOsegment) < MaxSegments /\ size \in Nat
      BY DEF TypeOK
  <2>2. CASE UNCHANGED <<IOsegment, size>>
    <3>1. Len(IOsegment) \in Nat
        BY <2>1
    <3>2. IOsegment' = IOsegment /\ size' = size
        BY <2>2
    <3> QED BY <2>1, <3>1, <3>2, Zenon
  <2>3. CASE Account(1)
    <3>1. 1 \in Nat
        OBVIOUS
    <3> QED BY <2>3, <3>1, AccountType, Zenon
  <2> QED BY <1>3, <2>2, <2>3
<1>5. SegmentsInv'
    BY <1>1, <1>3, Counted DEF SegmentsInv, Enough, nsegments, Cut
<1> QED BY <1>1, <1>2, <1>3, <1>4, <1>5

LEMMA OutputsKeeps == IInv /\ OutputsMapped => IInv'
<1> SUFFICES ASSUME IInv, OutputsMapped PROVE IInv'
    OBVIOUS
<1>0. /\ TypeOK /\ Known /\ LoopInv /\ SegmentsInv /\ pc = "outputs" /\ pc' = "in" /\ Pad
      /\ UNCHANGED <<type, own, lrw, found, slave, smc, done, fmmus, turn, frames>>
    BY DEF IInv, OutputsMapped, config, mapping, sending
<1>1. /\ pos' \in Nat /\ mark' = pos' \div 8 /\ mark' \in Nat
      /\ size' \in Nat /\ IOsegment' \in Seq(Nat) /\ Len(IOsegment') \in Nat
      /\ Len(IOsegment') < MaxSegments /\ SegmentsInv'
    BY <1>0, Pads DEF Dirs
<1>2. /\ group' \in Group /\ group'.Obytes = mark' /\ group'.Isegment = Len(IOsegment')
      /\ group'.Ioffset = size'
  <2>1. group' = [group EXCEPT !.Obytes = mark', !.Isegment = Len(IOsegment'), !.Ioffset = size']
      BY <1>1 DEF OutputsMapped
  <2>2. group \in Group
      BY <1>0 DEF TypeOK, Group
  <2> QED BY <1>1, <2>1, <2>2 DEF Group
<1>3. TypeOK'
    BY <1>0, <1>1, <1>2 DEF TypeOK, Group, Dirs
<1>4. Known' /\ LoopInv'
  <2>1. Known'
      BY <1>0 DEF Known
  <2>2. smc = 1 /\ done = 0
      BY <1>0 DEF LoopInv, Dirs
  <2>3. mark' <= pos' \div 8
    <3>1. \A x \in Nat : x <= x
        OBVIOUS
    <3> QED BY <1>1, <3>1, Zenon
  <2>5. ~Sending'
      BY <1>0 DEF Sending
  <2>4. smc' = 1 /\ done' = 0 /\ mark' = pos' \div 8
      BY <1>0, <1>1, <2>2
  <2> QED BY <2>1, <2>3, <2>4, <2>5 DEF LoopInv
<1>5. GroupInv'
  <2>1. SizeOf(IOsegment', size', Len(IOsegment') + 1) = size'
      BY <1>1 DEF SizeOf
  <2>2. /\ CutOf(IOsegment', size', Len(IOsegment') + 1) = Total(IOsegment') + size'
        /\ CutOf(IOsegment', size', Len(IOsegment')) = Total(IOsegment')
    <3>1. \A segs \in Seq(Nat), last \in Nat :
             /\ CutOf(segs, last, Len(segs) + 1) = Total(segs) + last
             /\ CutOf(segs, last, Len(segs)) = Total(segs)
        BY CutRule DEF CutOf, Total
    <3> QED BY <1>1, <3>1
  <2>3. Enough' => mark' = Total(IOsegment') + size'
      BY <1>1, <2>2 DEF SegmentsInv, nsegments, Cut
  <2>4. /\ group'.Isegment <= Len(IOsegment') /\ group'.Obytes <= mark'
        /\ group'.Ioffset <= SizeOf(IOsegment', size', group'.Isegment + 1)
    <3>1. size' <= size' /\ Len(IOsegment') <= Len(IOsegment') /\ mark' <= mark'
      <4>1. \A x \in Nat : x <= x
          OBVIOUS
      <4> QED BY <1>1, <4>1, Zenon
    <3> QED BY <1>2, <2>1, <3>1
  <2>6. ~Sending'
      BY <1>0 DEF Sending
  <2>5. Enough' => group'.Obytes = CutOf(IOsegment', size', group'.Isegment) + group'.Ioffset
      BY <1>2, <2>2, <2>3
  <2> QED BY <2>4, <2>5, <2>6 DEF GroupInv, Cut
<1>6. Begun' /\ TurnInv'
    BY <1>0 DEF IInv, Begun, TurnInv, Finding, Sending
<1> QED BY <1>1, <1>3, <1>4, <1>5, <1>6 DEF IInv

LEMMA InputsKeeps == IInv /\ InputsMapped => IInv'
<1> SUFFICES ASSUME IInv, InputsMapped PROVE IInv'
    OBVIOUS
<1>0. /\ TypeOK /\ Known /\ LoopInv /\ SegmentsInv /\ GroupInv
      /\ pc = "inputs" /\ pc' = "mapped" /\ Pad /\ OutputsDone
      /\ UNCHANGED <<type, own, lrw, found, slave, smc, done, fmmus, turn, frames>>
    BY DEF IInv, InputsMapped, config, mapping, sending, OutputsDone
<1>1. /\ pos' \in Nat /\ mark' = pos' \div 8 /\ mark' \in Nat /\ pos' = 8 * mark'
      /\ size' \in Nat /\ IOsegment' \in Seq(Nat) /\ Len(IOsegment') \in Nat
      /\ Len(IOsegment') < MaxSegments /\ SegmentsInv' /\ mark \in Nat /\ mark <= mark'
      /\ \/ mark' = mark + 0 /\ UNCHANGED <<IOsegment, size>>
         \/ mark' = mark + 1 /\ Account(1)
    BY <1>0, Pads DEF Dirs
<1>2. /\ group' \in Group /\ group'.Obytes = group.Obytes /\ group'.Isegment = group.Isegment
      /\ group'.Ioffset = group.Ioffset /\ group'.Ibytes = mark' - group.Obytes
  <2>1. group' = [group EXCEPT !.Ibytes = mark' - group.Obytes]
      BY <1>1 DEF InputsMapped
  <2>2. group \in Group
      BY <1>0 DEF TypeOK, Group
  <2>3. group.Obytes \in Nat /\ group.Obytes <= mark
      BY <1>0, <2>2 DEF GroupInv, Group
  <2>4. mark' - group.Obytes \in Nat
      BY <1>1, <2>3
  <2> QED BY <2>1, <2>2, <2>4 DEF Group
<1>3. TypeOK'
    BY <1>0, <1>1, <1>2 DEF TypeOK, Group, Dirs
<1>4. Known' /\ LoopInv'
    BY <1>0, <1>1 DEF Known, LoopInv, Sending, Dirs
<1>5. GroupInv'
  <2>1. /\ group'.Isegment <= Len(IOsegment')
        /\ group'.Ioffset <= SizeOf(IOsegment, size, group.Isegment + 1)'
        /\ group'.Obytes <= mark'
        /\ Enough' => group'.Obytes = Cut(group.Isegment)' + group'.Ioffset
    <3>1. CASE mark' = mark + 0 /\ UNCHANGED <<IOsegment, size>>
        BY <1>0, <1>1, <1>2, <3>1 DEF GroupInv, Enough, nsegments, Cut
    <3>2. CASE mark' = mark + 1 /\ Account(1)
        BY <1>0, <1>2, <3>2, OutputsKept
    <3> QED BY <1>1, <3>1, <3>2
  <2>2. group'.Obytes + group'.Ibytes = mark'
    <3>1. PICK o \in Nat : o = group'.Obytes
        BY <1>2 DEF Group
    <3>2. PICK m \in Nat : m = mark'
        BY <1>1
    <3>3. group'.Ibytes = m - o
        BY <1>2, <3>1, <3>2
    <3> QED BY <3>1, <3>2, <3>3
  <2> QED BY <1>0, <1>2, <2>1, <2>2 DEF GroupInv
<1>6. Begun' /\ TurnInv'
    BY <1>0 DEF IInv, Begun, TurnInv, Finding, Sending
<1> QED BY <1>1, <1>3, <1>4, <1>5, <1>6 DEF IInv
-----------------------------------------------------------------------------
(***************************************************************************)
(* The frames.                                                             *)
(***************************************************************************)
Looping == pc \in {"LRD", "LWR", "LRW"}

LEMMA SegmentFacts ==
    ASSUME TypeOK
    PROVE  /\ IOsegment \in Seq(Nat) /\ Len(IOsegment) \in Nat /\ size \in Nat /\ MaxSegments \in Nat
           /\ nsegments \in Nat \ {0} /\ nsegments = Len(IOsegment) + 1 /\ nsegments <= MaxSegments
           /\ \A k \in 1 .. nsegments : /\ SegmentSize(k) = SizeOf(IOsegment, size, k)
                                        /\ SegmentSize(k) \in Nat
                                        /\ Cut(k) = Cut(k - 1) + SegmentSize(k)
           /\ Cut(0) = 0 /\ \A k \in 0 .. nsegments : Cut(k) \in Nat
           /\ \A k \in 0 .. nsegments : \A j \in 0 .. k : Cut(j) <= Cut(k)
<1>1. /\ IOsegment \in Seq(Nat) /\ Len(IOsegment) \in Nat /\ size \in Nat /\ MaxSegments \in Nat
      /\ nsegments \in Nat \ {0} /\ nsegments = Len(IOsegment) + 1 /\ nsegments <= MaxSegments
    BY Constants DEF TypeOK, nsegments
<1>2. \A k \in 1 .. nsegments : SegmentSize(k) = SizeOf(IOsegment, size, k)
    BY <1>1 DEF SegmentSize, SizeOf
<1>3. \A k \in 1 .. nsegments : Cut(k) = Cut(k - 1) + SizeOf(IOsegment, size, k)
                                /\ SizeOf(IOsegment, size, k) \in Nat
    BY <1>1, CutRule DEF Cut
<1>4. Cut(0) = 0 /\ \A k \in 0 .. nsegments : Cut(k) \in Nat
    BY <1>1, CutRule DEF Cut
<1>5. \A k \in 0 .. nsegments : \A j \in 0 .. k : Cut(j) <= Cut(k)
    BY <1>1, CutsGrow DEF Cut
<1> QED BY <1>1, <1>2, <1>3, <1>4, <1>5

LEMMA GroupFacts ==
    ASSUME IInv, Sending
    PROVE  /\ group \in Group /\ group.Obytes \in Nat /\ group.Ibytes \in Nat /\ mark \in Nat
           /\ group.Isegment \in Nat /\ group.Isegment + 1 <= nsegments /\ group.Ioffset \in Nat
           /\ group.Ioffset <= SegmentSize(group.Isegment + 1)
           /\ group.Obytes + group.Ibytes = mark
           /\ Enough => group.Obytes = Cut(group.Isegment) + group.Ioffset
<1>1. group \in Group /\ TypeOK /\ GroupInv /\ OutputsDone /\ mark \in Nat
    BY DEF IInv, TypeOK, Group, OutputsDone
<1>2. /\ group.Obytes \in Nat /\ group.Ibytes \in Nat /\ group.Isegment \in Nat
      /\ group.Ioffset \in Nat
    BY <1>1 DEF Group
<1>3. nsegments = Len(IOsegment) + 1 /\ Len(IOsegment) \in Nat
    BY <1>1, SegmentFacts
<1>4. group.Isegment + 1 <= nsegments /\ group.Isegment + 1 \in 1 .. nsegments
    BY <1>1, <1>2, <1>3 DEF GroupInv
<1>5. SegmentSize(group.Isegment + 1) = SizeOf(IOsegment, size, group.Isegment + 1)
    BY <1>1, <1>4, SegmentFacts
<1> QED BY <1>1, <1>2, <1>4, <1>5 DEF GroupInv

LEMMA OutputsStart ==
    ASSUME StartOutputs
    PROVE  \/ pc' = "LWR" /\ turn' = Outputs /\ group.Obytes > 0
           \/ pc' = "sent" /\ turn' = turn /\ ~(group.Obytes > 0)
BY DEF StartOutputs, Start

LEMMA LoopTypes ==
    ASSUME IInv, Sending
    PROVE  /\ Inputs \in [adr : Nat, length : Nat, seg : 1 .. nsegments]
           /\ Outputs \in [adr : Nat, length : Nat, seg : 1 .. nsegments]
           /\ Whole \in [adr : Nat, length : Nat, seg : 1 .. nsegments]
<1>1. nsegments \in Nat \ {0}
    BY SegmentFacts DEF IInv
<1>2. 1 \in 1 .. nsegments
    BY <1>1
<1>3. group.Isegment + 1 \in 1 .. nsegments /\ group.Obytes + group.Ibytes \in Nat
      /\ group.Obytes \in Nat /\ group.Ibytes \in Nat
    BY <1>1, GroupFacts
<1> QED BY <1>2, <1>3 DEF Inputs, Outputs, Whole

LEMMA SendKeeps == IInv /\ Send => IInv'
<1> SUFFICES ASSUME IInv, Send PROVE IInv'
    OBVIOUS
<1>0. /\ TypeOK /\ Known /\ Sending /\ pc = "mapped" /\ LoopInv /\ SegmentsInv /\ GroupInv
      /\ UNCHANGED <<type, own, lrw, found, slave, smc, done, fmmus, pos, mark, IOsegment,
                     size, group, frames>>
    BY DEF IInv, Send, Sending, config, mapping, segments
<1>1. \/ pc' = "sent" /\ turn' = turn
      \/ pc' = "LRW" /\ turn' = Whole
      \/ pc' = "LRD" /\ turn' = Inputs
      \/ pc' = "LWR" /\ turn' = Outputs
    BY OutputsStart DEF Send, Start
<1>2. /\ turn \in [adr : Nat, length : Int, seg : 1 .. MaxSegments]
      /\ nsegments \in Nat /\ MaxSegments \in Nat /\ nsegments <= MaxSegments
    BY <1>0, SegmentFacts DEF TypeOK
<1>3. /\ turn' \in [adr : Nat, length : Int, seg : 1 .. MaxSegments]
      /\ pc' # "sent" => turn'.seg <= nsegments /\ turn'.length >= 0
  <2>1. ASSUME NEW l \in [adr : Nat, length : Nat, seg : 1 .. nsegments]
        PROVE  /\ l \in [adr : Nat, length : Int, seg : 1 .. MaxSegments]
               /\ l.seg <= nsegments /\ l.length >= 0
      BY <1>2
  <2> QED BY <1>0, <1>1, <1>2, <2>1, LoopTypes
<1>4. pc' = "LRD" => turn'.seg > group.Isegment
  <2>1. group.Isegment \in Nat
      BY <1>0, GroupFacts
  <2> QED BY <1>1, <2>1 DEF Inputs
<1>5. pc' \in {"sent", "LRW", "LRD", "LWR"}
    BY <1>1
<1>6. TypeOK'
    BY <1>0, <1>3, <1>5 DEF TypeOK
<1>7. Known' /\ LoopInv' /\ SegmentsInv' /\ GroupInv'
    BY <1>0, <1>5 DEF Known, LoopInv, SegmentsInv, GroupInv, Enough, nsegments, Cut, Dirs,
                      Sending, OutputsDone
<1>8. TurnInv'
    BY <1>0, <1>3, <1>4, <1>5 DEF TurnInv, nsegments
<1>9. Begun'
    BY <1>0, <1>5 DEF IInv, Begun, Finding, Sending
<1> QED BY <1>6, <1>7, <1>8, <1>9 DEF IInv

(* A frame is a segment, or the rest of what is to be sent.                *)
LEMMA FrameFacts ==
    ASSUME IInv, Looping
    PROVE  /\ turn.seg \in 1 .. nsegments /\ turn.adr \in Nat /\ turn.length \in Int
           /\ Sublength \in Nat
           /\ pc = "LRW" => Sublength = SegmentSize(turn.seg)
           /\ pc = "LRD" => Sublength = IF turn.seg = group.Isegment + 1
                                        THEN SegmentSize(turn.seg) - group.Ioffset
                                        ELSE SegmentSize(turn.seg)
           /\ pc = "LWR" => Sublength = IF turn.length < SegmentSize(turn.seg)
                                        THEN turn.length ELSE SegmentSize(turn.seg)
           /\ pc = "LWR" => turn.length - Sublength >= 0
           /\ Sublength <= SegmentSize(turn.seg)
<1>1. TypeOK /\ TurnInv /\ Sending
    BY DEF IInv, Looping, Sending
<1>2. turn.seg \in 1 .. nsegments /\ turn.adr \in Nat /\ turn.length \in Int
  <2>1. turn \in [adr : Nat, length : Int, seg : 1 .. MaxSegments]
      BY <1>1 DEF TypeOK
  <2>2. turn.seg <= nsegments
      BY <1>1 DEF TurnInv, Looping
  <2> QED BY <1>1, <2>1, <2>2, SegmentFacts
<1>3. SegmentSize(turn.seg) \in Nat
    BY <1>1, <1>2, SegmentFacts
<1>4. CASE pc = "LRW"
  <2>1. Sublength = SegmentSize(turn.seg)
      BY <1>4, Zenon DEF Sublength
  <2> QED BY <1>2, <1>3, <1>4, <2>1
<1>5. CASE pc = "LRD"
  <2>1. Sublength = IF turn.seg = group.Isegment + 1
                    THEN SegmentSize(turn.seg) - group.Ioffset ELSE SegmentSize(turn.seg)
      BY <1>5, Zenon DEF Sublength
  <2>2. group.Ioffset <= SegmentSize(group.Isegment + 1) /\ group.Ioffset \in Nat
      BY <1>1, GroupFacts
  <2> QED BY <1>2, <1>3, <1>5, <2>1, <2>2
<1>6. CASE pc = "LWR"
  <2>1. Sublength = IF turn.length < SegmentSize(turn.seg)
                    THEN turn.length ELSE SegmentSize(turn.seg)
      BY <1>6, Zenon DEF Sublength
  <2>2. turn.length >= 0
      BY <1>1, <1>6 DEF TurnInv
  <2> QED BY <1>2, <1>3, <1>6, <2>1, <2>2
<1> QED BY <1>4, <1>5, <1>6 DEF Looping

LEMMA FrameKeeps == IInv /\ SendFrame => IInv'
<1> SUFFICES ASSUME IInv, SendFrame PROVE IInv'
    OBVIOUS
<1>0. /\ TypeOK /\ Known /\ Looping /\ Sending /\ LoopInv /\ SegmentsInv /\ GroupInv /\ TurnInv
      /\ UNCHANGED <<type, own, lrw, found, slave, smc, done, fmmus, pos, mark, IOsegment,
                     size, group>>
    BY DEF IInv, SendFrame, Looping, Sending, config, mapping, segments
<1> DEFINE next == [adr |-> turn.adr + Sublength, length |-> turn.length - Sublength,
                    seg |-> turn.seg + 1]
<1>1. \/ pc' = pc /\ turn' = next /\ turn.seg < nsegments
      \/ pc' = "sent" /\ turn' = turn
      \/ pc' = "LWR" /\ turn' = Outputs
    BY OutputsStart DEF SendFrame
<1>2. /\ turn.seg \in 1 .. nsegments /\ turn.adr \in Nat /\ turn.length \in Int /\ Sublength \in Nat
      /\ pc = "LWR" => turn.length - Sublength >= 0
      /\ nsegments \in Nat /\ MaxSegments \in Nat /\ nsegments <= MaxSegments
    BY <1>0, FrameFacts, SegmentFacts
<1>3. ASSUME turn.seg < nsegments
      PROVE  /\ next \in [adr : Nat, length : Int, seg : 1 .. MaxSegments]
             /\ next.seg <= nsegments /\ next.seg = turn.seg + 1
             /\ next.length = turn.length - Sublength
    BY <1>2, <1>3
<1>4. /\ Outputs \in [adr : Nat, length : Int, seg : 1 .. MaxSegments]
      /\ Outputs.seg <= nsegments /\ Outputs.length >= 0
    BY <1>0, <1>2, LoopTypes
<1>5. /\ turn' \in [adr : Nat, length : Int, seg : 1 .. MaxSegments]
      /\ pc' # "sent" => turn'.seg <= nsegments
      /\ pc' = "LWR" => turn'.length >= 0
  <2>1. turn \in [adr : Nat, length : Int, seg : 1 .. MaxSegments]
      BY <1>0 DEF TypeOK
  <2>2. CASE turn' = next /\ turn.seg < nsegments /\ pc' = pc
    <3> HIDE DEF next
    <3> QED BY <1>2, <1>3, <2>2
  <2>3. CASE turn' = turn /\ pc' = "sent"
      BY <2>1, <2>3
  <2>4. CASE turn' = Outputs
      BY <1>4, <2>4
  <2> QED BY <1>1, <2>2, <2>3, <2>4
<1>6. pc' = "LRD" => turn'.seg > group.Isegment
  <2> SUFFICES ASSUME pc' = "LRD" PROVE turn'.seg > group.Isegment
      OBVIOUS
  <2>1. pc = "LRD" /\ turn'.seg = turn.seg + 1
      BY <1>1
  <2>2. turn.seg > group.Isegment /\ group.Isegment \in Nat
      BY <1>0, <2>1, GroupFacts DEF TurnInv
  <2> QED BY <1>2, <2>1, <2>2
<1>7. pc' \in {"sent", "LRW", "LRD", "LWR"}
    BY <1>0, <1>1 DEF Looping
<1>8. frames' \in Seq([cmd : {"LRD", "LWR", "LRW"}, adr : Nat, length : Nat])
  <2>1. frames' = Append(frames, [cmd |-> pc, adr |-> turn.adr, length |-> Sublength])
      BY DEF SendFrame
  <2>2. [cmd |-> pc, adr |-> turn.adr, length |-> Sublength]
            \in [cmd : {"LRD", "LWR", "LRW"}, adr : Nat, length : Nat]
      BY <1>0, <1>2 DEF Looping
  <2> QED BY <1>0, <2>1, <2>2 DEF TypeOK
<1>9. TypeOK'
    BY <1>0, <1>5, <1>7, <1>8 DEF TypeOK
<1>10. Known' /\ LoopInv' /\ SegmentsInv' /\ GroupInv'
    BY <1>0, <1>7 DEF Known, LoopInv, SegmentsInv, GroupInv, Enough, nsegments, Cut, Dirs,
                      Sending, OutputsDone
<1>11. TurnInv'
    BY <1>0, <1>5, <1>6, <1>7 DEF TurnInv, nsegments
<1>12. Begun'
    BY <1>0, <1>7 DEF IInv, Begun, Finding, Sending
<1> QED BY <1>9, <1>10, <1>11, <1>12 DEF IInv

LEMMA IInvNext == IInv /\ [Next]_vars => IInv'
<1> SUFFICES ASSUME IInv, [Next]_vars PROVE IInv'
    OBVIOUS
<1>1. CASE UNCHANGED vars
  <2>1. UNCHANGED <<type, own, lrw, found, pc, slave, smc, done, fmmus, pos, mark, IOsegment,
                    size, group, turn, frames>>
      BY <1>1 DEF vars, config, mapping, segments, sending
  <2>2. TypeOK' /\ Known'
      BY <2>1 DEF IInv, TypeOK, Known
  <2>3. LoopInv'
    <3>1. Current' = Current /\ Sending' = Sending
        BY <2>1 DEF Current, Sending
    <3> QED BY <2>1, <3>1 DEF IInv, LoopInv
  <2>4. SegmentsInv' /\ GroupInv' /\ TurnInv' /\ Begun'
      BY <2>1 DEF IInv, SegmentsInv, GroupInv, TurnInv, Begun, Enough, nsegments, Cut,
                  Finding, Sending, OutputsDone
  <2> QED BY <2>2, <2>3, <2>4 DEF IInv
<1>2. CASE MapCoe \/ MapSii
    BY <1>2, FindingKeeps
<1>3. CASE CreateMapping \/ SlaveMapped \/ OutputsMapped \/ InputsMapped \/ Send \/ SendFrame
    BY <1>3, MappingKeeps, TurnEndsKeeps, OutputsKeeps, InputsKeeps, SendKeeps, FrameKeeps
<1> QED BY <1>1, <1>2, <1>3 DEF Next

LEMMA Inductive == Spec => []IInv
BY IInvInit, IInvNext, PTL DEF Spec

(* What ecx_config_map_group and ecx_main_send_processdata keep has its    *)
(* type: sizes are never negative, and no segment beyond the last is used. *)
THEOREM Typed == Spec => []TypeOK
<1>1. IInv => TypeOK
    BY DEF IInv
<1> QED BY <1>1, Inductive, PTL
-----------------------------------------------------------------------------
(***************************************************************************)
(* An FMMU is placed behind all that are there already.                    *)
(***************************************************************************)
PlacedBehind ==
    \A f \in fmmus : f.from \in Nat /\ f.length \in Nat /\ f.from + f.length <= pos
Placed == PlacedBehind /\ Disjoint

LEMMA PlacedNext == IInv /\ Placed /\ [Next]_vars => Placed'
<1> SUFFICES ASSUME IInv, Placed, [Next]_vars PROVE Placed'
    OBVIOUS
<1>0. TypeOK /\ Known /\ LoopInv /\ pos \in Nat
    BY DEF IInv, TypeOK
<1>1. ASSUME fmmus' = fmmus, pos' \in Nat, pos <= pos' PROVE Placed'
  <2>1. \A f \in fmmus : f.from \in Nat /\ f.length \in Nat /\ f.from + f.length <= pos'
    <3> TAKE f \in fmmus
    <3>1. f.from \in Nat /\ f.length \in Nat /\ f.from + f.length <= pos
        BY DEF Placed, PlacedBehind
    <3> QED BY <1>0, <1>1, <3>1
  <2> QED BY <1>1, <2>1 DEF Placed, PlacedBehind, Disjoint
<1>2. CASE CreateMapping
  <2>1. PICK from \in Nat, length \in Nat :
            /\ from >= pos /\ pos' = from + length
            /\ fmmus' = fmmus \cup {Fmmu(from, length)}
      BY <1>0, <1>2, Mapping
  <2> DEFINE g == Fmmu(from, length)
  <2>2. g.from = from /\ g.length = length
      BY DEF Fmmu
  <2>3. fmmus' = fmmus \cup {g}
      BY <2>1
  <2> HIDE DEF g
  <2>4. ASSUME NEW f \in fmmus
        PROVE  /\ f.from \in Nat /\ f.length \in Nat /\ f.from + f.length <= pos'
               /\ f.from + f.length <= g.from
    <3>1. f.from \in Nat /\ f.length \in Nat /\ f.from + f.length <= pos
        BY DEF Placed, PlacedBehind
    <3> QED BY <1>0, <2>1, <2>2, <3>1
  <2>5. g.from \in Nat /\ g.length \in Nat /\ g.from + g.length <= pos'
      BY <2>1, <2>2
  <2>6. PlacedBehind'
      BY <2>3, <2>4, <2>5 DEF PlacedBehind
  <2>7. \A f \in fmmus : Before(f, g)
      BY <2>4 DEF Before
  <2>8. Disjoint'
      BY <2>3, <2>7 DEF Placed, Disjoint
  <2> QED BY <2>6, <2>8 DEF Placed
<1>3. \A x \in Nat : x <= x
    OBVIOUS
<1>4. CASE MapCoe \/ MapSii \/ SlaveMapped \/ Send \/ SendFrame \/ UNCHANGED vars
  <2>1. fmmus' = fmmus /\ pos' = pos
      BY <1>4 DEF MapCoe, MapSii, SlaveMapped, Send, SendFrame, mapping, vars
  <2>2. pos' \in Nat /\ pos <= pos'
      BY <1>0, <1>3, <2>1, Zenon
  <2> QED BY <1>1, <2>1, <2>2
<1>5. CASE OutputsMapped \/ InputsMapped
  <2>1. fmmus' = fmmus /\ pos' = ByteUp(pos)
      BY <1>5 DEF OutputsMapped, InputsMapped, Pad, mapping
  <2>2. pos' \in Nat /\ pos <= pos'
      BY <1>0, <2>1, Rounding
  <2> QED BY <1>1, <2>1, <2>2
<1> QED BY <1>2, <1>4, <1>5 DEF Next

(* No bit of the IO map is given to two FMMUs, whatever the slaves         *)
(* exchange: ecx_config_create_output_mappings and its twin place every    *)
(* FMMU behind all before it.                                              *)
THEOREM FmmusAreDisjoint == Spec => []Disjoint
<1>1. Init => Placed
    BY DEF Init, Placed, PlacedBehind, Disjoint
<1>2. Placed => Disjoint
    BY DEF Placed
<1> QED BY <1>1, <1>2, Inductive, PlacedNext, PTL DEF Spec
-----------------------------------------------------------------------------
(***************************************************************************)
(* What the frames of a command carry.                                     *)
(***************************************************************************)
Frame == [cmd : {"LRD", "LWR", "LRW"}, adr : Nat, length : Nat]
Bytes(f) == f.adr .. f.adr + f.length - 1
OfCmd(fs, cmd) == {k \in DOMAIN fs : fs[k].cmd = cmd}
AllBytes(fs, cmd) == UNION {Bytes(fs[k]) : k \in OfCmd(fs, cmd)}
Part(fs, cmd, from, to) ==
    /\ AllBytes(fs, cmd) = from .. to - 1
    /\ \A j, k \in OfCmd(fs, cmd) : j # k => Bytes(fs[j]) \cap Bytes(fs[k]) = {}

LEMMA PartBegins ==
    ASSUME NEW fs, NEW cmd, NEW from \in Nat, \A k \in DOMAIN fs : fs[k].cmd # cmd
    PROVE  Part(fs, cmd, from, from)
<1>1. OfCmd(fs, cmd) = {}
    BY DEF OfCmd
<1>2. from .. from - 1 = {}
    OBVIOUS
<1>3. AllBytes(fs, cmd) = {}
    BY <1>1 DEF AllBytes
<1> QED BY <1>1, <1>2, <1>3 DEF Part

LEMMA PartGrows ==
    ASSUME NEW fs \in Seq(Frame), NEW cmd, NEW from \in Nat, NEW to \in Nat, NEW length \in Nat,
           from <= to, Part(fs, cmd, from, to)
    PROVE  Part(Append(fs, [cmd |-> cmd, adr |-> to, length |-> length]), cmd, from, to + length)
<1> DEFINE f == [cmd |-> cmd, adr |-> to, length |-> length]
           g == Append(fs, f)
           n == Len(fs) + 1
<1>1. f.cmd = cmd /\ f.adr = to /\ f.length = length
    OBVIOUS
<1>2. /\ n \in Nat \ {0} /\ DOMAIN fs = 1 .. n - 1 /\ DOMAIN g = 1 .. n
      /\ g[n] = f /\ \A k \in 1 .. n - 1 : g[k] = fs[k]
    OBVIOUS
<1> HIDE DEF f, g, n
<1>3. Bytes(f) = to .. to + length - 1
    BY <1>1 DEF Bytes
<1>4. OfCmd(g, cmd) = OfCmd(fs, cmd) \cup {n} /\ n \notin OfCmd(fs, cmd)
    BY <1>1, <1>2 DEF OfCmd
<1>5. \A k \in OfCmd(fs, cmd) : Bytes(g[k]) = Bytes(fs[k])
    BY <1>2 DEF OfCmd
<1>6. Bytes(g[n]) = to .. to + length - 1
    BY <1>2, <1>3
<1>7. AllBytes(g, cmd) = AllBytes(fs, cmd) \cup Bytes(g[n])
  <2>1. \A x : x \in AllBytes(g, cmd) <=> \E k \in OfCmd(g, cmd) : x \in Bytes(g[k])
      BY Zenon DEF AllBytes
  <2>2. \A x : x \in AllBytes(fs, cmd) <=> \E k \in OfCmd(fs, cmd) : x \in Bytes(fs[k])
      BY Zenon DEF AllBytes
  <2>3. \A x : x \in AllBytes(g, cmd) <=> x \in AllBytes(fs, cmd) \/ x \in Bytes(g[n])
      BY <1>4, <1>5, <2>1, <2>2
  <2> QED BY <2>3
<1>8. from .. to + length - 1 = (from .. to - 1) \cup (to .. to + length - 1)
    OBVIOUS
<1>9. AllBytes(g, cmd) = from .. to + length - 1
    BY <1>6, <1>7, <1>8 DEF Part
<1>10. \A k \in OfCmd(fs, cmd) : Bytes(fs[k]) \cap (to .. to + length - 1) = {}
  <2> TAKE k \in OfCmd(fs, cmd)
  <2>1. Bytes(fs[k]) \subseteq AllBytes(fs, cmd)
      BY Zenon DEF AllBytes
  <2>3. AllBytes(fs, cmd) = from .. to - 1
      BY DEF Part
  <2>2. (from .. to - 1) \cap (to .. to + length - 1) = {}
      OBVIOUS
  <2> QED BY <2>1, <2>2, <2>3
<1>11. \A j, k \in OfCmd(g, cmd) : j # k => Bytes(g[j]) \cap Bytes(g[k]) = {}
    BY <1>4, <1>5, <1>6, <1>10 DEF Part
<1>12. Part(g, cmd, from, to + length)
    BY <1>9, <1>11 DEF Part
<1> QED BY <1>12 DEF f, g

LEMMA PartStays ==
    ASSUME NEW fs \in Seq(Frame), NEW cmd, NEW from, NEW to, Part(fs, cmd, from, to),
           NEW f, f.cmd # cmd
    PROVE  Part(Append(fs, f), cmd, from, to)
<1> DEFINE g == Append(fs, f)
           n == Len(fs) + 1
<1>1. /\ n \in Nat \ {0} /\ DOMAIN fs = 1 .. n - 1 /\ DOMAIN g = 1 .. n
      /\ g[n] = f /\ \A k \in 1 .. n - 1 : g[k] = fs[k]
    OBVIOUS
<1> HIDE DEF g, n
<1>2. OfCmd(g, cmd) = OfCmd(fs, cmd) /\ \A k \in OfCmd(fs, cmd) : g[k] = fs[k]
    BY <1>1 DEF OfCmd
<1>3. AllBytes(g, cmd) = AllBytes(fs, cmd)
    BY <1>2 DEF AllBytes
<1>4. Part(g, cmd, from, to)
    BY <1>2, <1>3 DEF Part
<1> QED BY <1>4 DEF g

Larger(a, b) == IF a < b THEN b ELSE a
First(cmd) == IF cmd = "LRD" THEN group.Obytes ELSE 0
After(cmd) == IF cmd = "LWR" THEN group.Obytes ELSE mark

(* A loop has sent what lies before its address.                           *)
SendInv ==
    /\ pc \in {"LRD", "LWR", "LRW"} =>
          /\ pc \in Cmds
          /\ Enough => /\ turn.adr = Larger(Cut(turn.seg - 1), First(pc))
                       /\ turn.length = After(pc) - turn.adr
                       /\ turn.adr <= After(pc)
                       /\ Part(frames, pc, First(pc), turn.adr)
    /\ pc = "LRD" => \A k \in DOMAIN frames : frames[k].cmd = "LRD"
    /\ pc = "LWR" /\ Enough => Part(frames, "LRD", First("LRD"), After("LRD"))
    /\ pc = "sent" /\ Enough => \A cmd \in Cmds : Part(frames, cmd, First(cmd), After(cmd))

(* Where a frame ends: at the end of its segment, or of what is to be sent.*)
LEMMA FrameEnds ==
    ASSUME IInv, SendInv, Looping, Enough
    PROVE  /\ First(pc) \in Nat /\ First(pc) <= turn.adr
           /\ turn.adr + Sublength <= After(pc) /\ turn.adr + Sublength <= Cut(turn.seg)
           /\ turn.length - Sublength = After(pc) - (turn.adr + Sublength)
           /\ turn.length - Sublength # 0 =>
                 /\ turn.seg < nsegments
                 /\ turn.adr + Sublength = Larger(Cut(turn.seg), First(pc))
<1>0. TypeOK /\ Sending
    BY DEF IInv, Looping, Sending
<1>1. /\ turn.seg \in 1 .. nsegments /\ turn.adr \in Nat /\ turn.length \in Int
      /\ Sublength \in Nat /\ nsegments \in Nat \ {0}
    BY <1>0, FrameFacts, SegmentFacts
<1>2. /\ turn.adr = Larger(Cut(turn.seg - 1), First(pc))
      /\ turn.length = After(pc) - turn.adr
      /\ turn.adr <= After(pc)
    BY DEF SendInv, Looping
<1> DEFINE seg == turn.seg
           from == Cut(seg - 1)
           to == Cut(seg)
           len == SegmentSize(seg)
<1>3. /\ from \in Nat /\ len \in Nat /\ to = from + len /\ to <= mark
      /\ mark = Cut(nsegments) /\ mark \in Nat /\ seg - 1 \in 0 .. nsegments
      /\ (seg = nsegments => to = mark)
  <2>1. seg - 1 \in 0 .. nsegments /\ seg \in 0 .. nsegments /\ nsegments \in 0 .. nsegments
      BY <1>1
  <2>2. from \in Nat /\ len \in Nat /\ to = from + len /\ to <= Cut(nsegments)
      BY <1>0, <1>1, <2>1, SegmentFacts
  <2>3. Cut(nsegments) = mark /\ mark \in Nat
      BY <1>0 DEF IInv, SegmentsInv, TypeOK
  <2> QED BY <2>1, <2>2, <2>3
<1>4. /\ group.Obytes \in Nat /\ group.Isegment \in Nat /\ group.Isegment + 1 <= nsegments
      /\ group.Ioffset \in Nat /\ group.Ioffset <= SegmentSize(group.Isegment + 1)
      /\ group.Obytes = Cut(group.Isegment) + group.Ioffset /\ group.Obytes <= mark
    BY <1>0, GroupFacts DEF IInv, GroupInv, OutputsDone
<1>5. CASE pc = "LRW"
  <2>1. First(pc) = 0 /\ After(pc) = mark
      BY <1>5 DEF First, After
  <2>2. Sublength = len
      BY <1>5, FrameFacts
  <2>3. turn.adr = from /\ to = Larger(to, 0)
      BY <1>2, <1>3, <2>1 DEF Larger
  <2> HIDE DEF seg, from, to, len
  <2>4. seg < nsegments \/ to = mark
      BY <1>1, <1>3 DEF seg
  <2> QED BY <1>1, <1>2, <1>3, <2>1, <2>2, <2>3, <2>4 DEF seg, to
<1>6. CASE pc = "LWR"
  <2>1. First(pc) = 0 /\ After(pc) = group.Obytes
      BY <1>6 DEF First, After
  <2>2. Sublength = IF turn.length < len THEN turn.length ELSE len
      BY <1>6, FrameFacts
  <2>3. turn.adr = from /\ to = Larger(to, 0)
      BY <1>2, <1>3, <2>1 DEF Larger
  <2> HIDE DEF seg, from, to, len
  <2>4. seg < nsegments \/ to = mark
      BY <1>1, <1>3 DEF seg
  <2>5. turn.length - Sublength # 0 => Sublength = len /\ to < group.Obytes
      BY <1>1, <1>2, <1>3, <1>4, <2>1, <2>2, <2>3
  <2>6. Sublength <= turn.length
      BY <1>1, <1>2, <1>3, <1>4, <2>1, <2>2
  <2>7. turn.adr + Sublength <= to
      BY <1>1, <1>3, <2>2, <2>3
  <2>8. turn.adr + Sublength <= group.Obytes
      BY <1>1, <1>2, <1>4, <2>1, <2>6
  <2>9. turn.length - Sublength = group.Obytes - (turn.adr + Sublength)
      BY <1>1, <1>2, <1>4, <2>1
  <2>10. turn.length - Sublength # 0 => seg < nsegments /\ turn.adr + Sublength = to
      BY <1>3, <1>4, <2>3, <2>4, <2>5
  <2> QED BY <1>1, <2>1, <2>3, <2>7, <2>8, <2>9, <2>10 DEF seg, to
<1>7. CASE pc = "LRD"
  <2>1. First(pc) = group.Obytes /\ After(pc) = mark
      BY <1>7 DEF First, After
  <2>2. Sublength = IF seg = group.Isegment + 1 THEN len - group.Ioffset ELSE len
      BY <1>7, FrameFacts
  <2>3. seg > group.Isegment
      BY <1>7 DEF IInv, TurnInv
  <2>4. /\ turn.adr + Sublength = to
        /\ group.Obytes <= to
    <3>1. CASE seg = group.Isegment + 1
      <4>1. from = Cut(group.Isegment) /\ len = SegmentSize(group.Isegment + 1)
          BY <1>4, <3>1
      <4> HIDE DEF seg, from, to, len
      <4>2. turn.adr = group.Obytes
          BY <1>2, <1>3, <1>4, <2>1, <4>1 DEF Larger, from, seg
      <4> QED BY <1>3, <1>4, <2>2, <3>1, <4>1, <4>2
    <3>2. CASE seg # group.Isegment + 1
      <4>1. group.Isegment + 1 \in 0 .. seg - 1 /\ group.Isegment + 1 \in 1 .. nsegments
            /\ (group.Isegment + 1) - 1 = group.Isegment
          BY <1>1, <1>4, <2>3, <3>2
      <4>2. Cut(group.Isegment + 1) = Cut(group.Isegment) + SegmentSize(group.Isegment + 1)
            /\ SegmentSize(group.Isegment + 1) \in Nat
        <5>1. PICK k : k = group.Isegment + 1
            OBVIOUS
        <5>2. Cut(k) = Cut(k - 1) + SegmentSize(k) /\ SegmentSize(k) \in Nat
            BY <1>0, <4>1, <5>1, SegmentFacts
        <5> QED BY <4>1, <5>1, <5>2
      <4>3. Cut(group.Isegment + 1) <= from
          BY <1>0, <1>3, <4>1, SegmentFacts
      <4>6. group.Isegment \in 0 .. nsegments
          BY <1>1, <1>4
      <4>4. Cut(group.Isegment) \in Nat
          BY <1>0, <4>6, SegmentFacts
      <4> HIDE DEF seg, from, to, len
      <4>5. group.Obytes <= from /\ turn.adr = from
        <5>1. group.Obytes <= from
            BY <1>3, <1>4, <4>2, <4>3, <4>4
        <5> QED BY <1>2, <1>3, <1>4, <2>1, <5>1 DEF Larger, from, seg
      <4> QED BY <1>3, <1>4, <2>2, <3>2, <4>5
    <3> QED BY <3>1, <3>2
  <2>5. to = Larger(to, group.Obytes) /\ group.Obytes <= turn.adr
    <3>1. turn.adr = from \/ turn.adr = group.Obytes
        BY <1>2, <2>1 DEF Larger
    <3>2. ~(from < group.Obytes) \/ turn.adr = group.Obytes
        BY <1>2, <2>1 DEF Larger
    <3> HIDE DEF from, to
    <3> QED BY <1>3, <1>4, <2>4, <3>1, <3>2 DEF Larger
  <2> HIDE DEF seg, from, to, len
  <2>6. seg < nsegments \/ to = mark
      BY <1>1, <1>3 DEF seg
  <2> QED BY <1>1, <1>2, <1>3, <1>4, <2>1, <2>4, <2>5, <2>6 DEF seg, to
<1> QED BY <1>5, <1>6, <1>7 DEF Looping

LEMMA SendBegins == IInv /\ Send => SendInv'
<1> SUFFICES ASSUME IInv, Send PROVE SendInv'
    OBVIOUS
<1>0. /\ TypeOK /\ Sending /\ pc = "mapped" /\ frames = <<>> /\ mark \in Nat
      /\ UNCHANGED <<lrw, mark, IOsegment, size, group, frames>>
    BY DEF IInv, Send, Sending, Begun, config, mapping, segments, TypeOK
<1>1. /\ group.Obytes \in Nat /\ group.Ibytes \in Nat /\ group.Obytes + group.Ibytes = mark
      /\ group.Isegment \in Nat /\ group.Isegment + 1 <= nsegments /\ group.Ioffset \in Nat
      /\ Enough => group.Obytes = Cut(group.Isegment) + group.Ioffset
    BY <1>0, GroupFacts
<1>2. \/ pc' = "sent" /\ mark = 0
      \/ pc' = "LRW" /\ turn' = Whole /\ lrw
      \/ pc' = "LRD" /\ turn' = Inputs /\ ~lrw
      \/ pc' = "LWR" /\ turn' = Outputs /\ ~lrw /\ group.Ibytes = 0
    BY <1>1, OutputsStart DEF Send, Start
<1>3. \A cmd : \A from \in Nat : Part(frames', cmd, from, from)
  <2>1. DOMAIN frames' = {}
      BY <1>0
  <2> QED BY <2>1, PartBegins
<1>4. Cut(0) = 0 /\ Cut(group.Isegment) \in Nat
  <2>1. group.Isegment \in 0 .. nsegments /\ nsegments \in Nat
      BY <1>0, <1>1, SegmentFacts
  <2> QED BY <1>0, <2>1, SegmentFacts
<1>5. \A k \in DOMAIN frames' : frames'[k].cmd = "LRD"
    BY <1>0
<1>6. CASE pc' = "sent" /\ mark = 0
  <2>1. group.Obytes = 0
      BY <1>1, <1>6
  <2>2. \A cmd : First(cmd)' = 0 /\ After(cmd)' = 0
      BY <1>0, <1>6, <2>1 DEF First, After
  <2>3. \A cmd : Part(frames', cmd, 0, 0)
      BY <1>3
  <2> QED BY <1>6, <2>2, <2>3 DEF SendInv
<1>7. CASE pc' = "LRW" /\ turn' = Whole /\ lrw
  <2>1. First(pc)' = 0 /\ After(pc)' = mark /\ pc' \in Cmds'
      BY <1>0, <1>7 DEF First, After, Cmds
  <2>2. turn'.adr = 0 /\ turn'.length = mark /\ turn'.seg - 1 = 0
      BY <1>1, <1>7 DEF Whole
  <2>3. Cut(turn.seg - 1)' = 0
      BY <1>0, <1>4, <2>2 DEF Cut
  <2>4. turn'.adr = Larger(Cut(turn.seg - 1)', First(pc)')
      BY <2>1, <2>2, <2>3 DEF Larger
  <2>5. turn'.length = After(pc)' - turn'.adr /\ turn'.adr <= After(pc)'
      BY <1>0, <2>1, <2>2
  <2>6. Part(frames', pc', First(pc)', turn'.adr)
      BY <1>3, <2>1, <2>2
  <2> QED BY <1>7, <2>1, <2>4, <2>5, <2>6 DEF SendInv
<1>8. CASE pc' = "LRD" /\ turn' = Inputs /\ ~lrw
  <2>1. First(pc)' = group.Obytes /\ After(pc)' = mark /\ pc' \in Cmds'
      BY <1>0, <1>8 DEF First, After, Cmds
  <2>2. /\ turn'.adr = group.Obytes /\ turn'.length = group.Ibytes
        /\ turn'.seg - 1 = group.Isegment
      BY <1>1, <1>8 DEF Inputs
  <2>3. Cut(turn.seg - 1)' = Cut(group.Isegment)
      BY <1>0, <2>2 DEF Cut
  <2>4. Enough => turn'.adr = Larger(Cut(turn.seg - 1)', First(pc)')
      BY <1>1, <1>4, <2>1, <2>2, <2>3 DEF Larger
  <2>5. turn'.length = After(pc)' - turn'.adr /\ turn'.adr <= After(pc)'
      BY <1>0, <1>1, <2>1, <2>2
  <2>6. Part(frames', pc', First(pc)', turn'.adr)
      BY <1>1, <1>3, <2>1, <2>2
  <2>7. Enough' = Enough
      BY <1>0 DEF Enough, nsegments
  <2> QED BY <1>5, <1>8, <2>1, <2>4, <2>5, <2>6, <2>7 DEF SendInv
<1>9. CASE pc' = "LWR" /\ turn' = Outputs /\ ~lrw /\ group.Ibytes = 0
  <2>1. First(pc)' = 0 /\ After(pc)' = mark /\ pc' \in Cmds' /\ group.Obytes = mark
        /\ First("LRD")' = mark /\ After("LRD")' = mark
      BY <1>0, <1>1, <1>9 DEF First, After, Cmds
  <2>2. turn'.adr = 0 /\ turn'.length = mark /\ turn'.seg - 1 = 0
      BY <1>9, <2>1 DEF Outputs
  <2>3. Cut(turn.seg - 1)' = 0
      BY <1>0, <1>4, <2>2 DEF Cut
  <2>4. turn'.adr = Larger(Cut(turn.seg - 1)', First(pc)')
      BY <2>1, <2>2, <2>3 DEF Larger
  <2>5. turn'.length = After(pc)' - turn'.adr /\ turn'.adr <= After(pc)'
      BY <1>0, <2>1, <2>2
  <2>6. Part(frames', pc', First(pc)', turn'.adr)
      BY <1>3, <2>1, <2>2
  <2>7. Part(frames', "LRD", First("LRD")', After("LRD")')
      BY <1>0, <1>3, <2>1
  <2> QED BY <1>9, <2>1, <2>4, <2>5, <2>6, <2>7 DEF SendInv
<1> QED BY <1>2, <1>6, <1>7, <1>8, <1>9

LEMMA SendGoesOn == IInv /\ SendInv /\ SendFrame => SendInv'
<1> SUFFICES ASSUME IInv, SendInv, SendFrame PROVE SendInv'
    OBVIOUS
<1> DEFINE f == [cmd |-> pc, adr |-> turn.adr, length |-> Sublength]
           end == turn.adr + Sublength
           rest == turn.length - Sublength
<1>0. /\ TypeOK /\ Looping /\ Sending /\ mark \in Nat /\ frames \in Seq(Frame)
      /\ frames' = Append(frames, f) /\ f.cmd = pc
      /\ UNCHANGED <<lrw, mark, IOsegment, size, group>>
    BY DEF IInv, SendFrame, Looping, Sending, config, mapping, segments, TypeOK, Frame
<1>1. \/ /\ pc' = pc /\ rest # 0 /\ turn.seg < nsegments
         /\ turn' = [adr |-> end, length |-> rest, seg |-> turn.seg + 1]
      \/ pc' = "sent" /\ ~(rest # 0 /\ turn.seg < nsegments) /\ pc # "LRD"
      \/ /\ pc = "LRD" /\ ~(rest # 0 /\ turn.seg < nsegments)
         /\ \/ pc' = "LWR" /\ turn' = Outputs
            \/ pc' = "sent" /\ ~(group.Obytes > 0)
    BY OutputsStart DEF SendFrame
<1>2. /\ Enough' = Enough /\ nsegments' = nsegments /\ Cmds' = Cmds
      /\ \A cmd : First(cmd)' = First(cmd) /\ After(cmd)' = After(cmd)
    BY <1>0 DEF Enough, nsegments, Cmds, First, After
<1>3. /\ turn.seg \in 1 .. nsegments /\ turn.adr \in Nat /\ turn.length \in Int
      /\ Sublength \in Nat /\ end \in Nat
    BY <1>0, FrameFacts
<1>4. /\ pc \in {"LRD", "LWR", "LRW"} /\ pc \in Cmds
      /\ pc = "LRD" => \A k \in DOMAIN frames : frames[k].cmd = "LRD"
    BY <1>0 DEF SendInv, Looping
<1>5. pc = "LRD" => \A k \in DOMAIN frames' : frames'[k].cmd = "LRD"
    BY <1>0, <1>4
<1>6. ASSUME Enough
      PROVE  /\ Part(frames', pc, First(pc), end) /\ end <= After(pc) /\ rest = After(pc) - end
             /\ rest # 0 => turn.seg < nsegments /\ end = Larger(Cut(turn.seg), First(pc))
             /\ After(pc) \in Nat
             /\ pc = "LWR" => Part(frames', "LRD", First("LRD"), After("LRD"))
  <2>1. /\ First(pc) \in Nat /\ First(pc) <= turn.adr
        /\ end <= After(pc) /\ rest = After(pc) - end
        /\ rest # 0 => turn.seg < nsegments /\ end = Larger(Cut(turn.seg), First(pc))
      BY <1>0, <1>6, FrameEnds
  <2>2. Part(frames, pc, First(pc), turn.adr)
      BY <1>4, <1>6 DEF SendInv
  <2>3. Part(frames', pc, First(pc), end)
      BY <1>0, <1>3, <2>1, <2>2, PartGrows
  <2>4. After(pc) \in Nat
      BY <1>0, GroupFacts DEF After
  <2>5. pc = "LWR" => Part(frames', "LRD", First("LRD"), After("LRD"))
      BY <1>0, <1>6, PartStays DEF SendInv
  <2> QED BY <2>1, <2>3, <2>4, <2>5
<1> HIDE DEF f, end, rest
<1>7. CASE /\ pc' = pc /\ rest # 0 /\ turn.seg < nsegments
           /\ turn' = [adr |-> end, length |-> rest, seg |-> turn.seg + 1]
  <2>1. First(pc)' = First(pc) /\ After(pc)' = After(pc)
      BY <1>0, <1>7 DEF First, After
  <2>2. turn'.adr = end /\ turn'.length = rest /\ turn'.seg - 1 = turn.seg
      BY <1>3, <1>7
  <2>3. Cut(turn.seg - 1)' = Cut(turn.seg)
      BY <1>0, <2>2 DEF Cut
  <2>4. Enough => /\ turn'.adr = Larger(Cut(turn.seg - 1)', First(pc)')
                  /\ turn'.length = After(pc)' - turn'.adr /\ turn'.adr <= After(pc)'
                  /\ Part(frames', pc', First(pc)', turn'.adr)
                  /\ pc = "LWR" => Part(frames', "LRD", First("LRD")', After("LRD")')
      BY <1>2, <1>6, <1>7, <2>1, <2>2, <2>3
  <2>5. pc' # "sent"
      BY <1>4, <1>7
  <2> QED BY <1>2, <1>4, <1>5, <1>7, <2>4, <2>5 DEF SendInv
<1>8. ASSUME ~(rest # 0 /\ turn.seg < nsegments), Enough
      PROVE  Part(frames', pc, First(pc), After(pc))
  <2>1. rest = 0
      BY <1>6, <1>8
  <2>2. end = After(pc)
      BY <1>3, <1>6, <1>8, <2>1
  <2> QED BY <1>6, <1>8, <2>2
<1>9. CASE pc' = "sent" /\ ~(rest # 0 /\ turn.seg < nsegments) /\ pc # "LRD"
  <2> SUFFICES ASSUME Enough, NEW cmd \in Cmds PROVE Part(frames', cmd, First(cmd), After(cmd))
      BY <1>2, <1>9 DEF SendInv
  <2>1. cmd = pc \/ (pc = "LWR" /\ cmd = "LRD")
      BY <1>4, <1>9 DEF Cmds
  <2> QED BY <1>6, <1>8, <1>9, <2>1
<1>10. CASE /\ pc = "LRD" /\ ~(rest # 0 /\ turn.seg < nsegments)
            /\ pc' = "LWR" /\ turn' = Outputs
  <2>1. First(pc)' = 0 /\ After(pc)' = group.Obytes /\ "LWR" \in Cmds
      BY <1>0, <1>4, <1>10 DEF First, After, Cmds
  <2>2. turn'.adr = 0 /\ turn'.length = group.Obytes /\ turn'.seg - 1 = 0
      BY <1>10 DEF Outputs
  <2>3. Cut(turn.seg - 1)' = 0
    <3>1. Cut(0) = 0
        BY <1>0, SegmentFacts
    <3> QED BY <1>0, <2>2, <3>1 DEF Cut
  <2>4. turn'.adr = Larger(Cut(turn.seg - 1)', First(pc)')
      BY <2>1, <2>2, <2>3 DEF Larger
  <2>5. turn'.length = After(pc)' - turn'.adr /\ turn'.adr <= After(pc)'
      BY <1>0, <2>1, <2>2, GroupFacts
  <2>6. Part(frames', "LWR", 0, 0)
      BY <1>5, <1>10, PartBegins
  <2>7. Enough => Part(frames', "LRD", First("LRD")', After("LRD")')
      BY <1>2, <1>8, <1>10
  <2> QED BY <1>2, <1>10, <2>1, <2>2, <2>4, <2>5, <2>6, <2>7 DEF SendInv
<1>11. CASE /\ pc = "LRD" /\ ~(rest # 0 /\ turn.seg < nsegments)
            /\ pc' = "sent" /\ ~(group.Obytes > 0)
  <2> SUFFICES ASSUME Enough, NEW cmd \in Cmds PROVE Part(frames', cmd, First(cmd), After(cmd))
      BY <1>2, <1>11 DEF SendInv
  <2>1. cmd = "LRD" \/ cmd = "LWR"
      BY <1>4, <1>11 DEF Cmds
  <2>2. First("LWR") = 0 /\ After("LWR") = 0
      BY <1>0, <1>11, GroupFacts DEF First, After
  <2>3. Part(frames', "LWR", 0, 0)
      BY <1>5, <1>11, PartBegins
  <2> QED BY <1>8, <1>11, <2>1, <2>2, <2>3
<1> QED BY <1>1, <1>7, <1>9, <1>10, <1>11

LEMMA SendInvNext == IInv /\ SendInv /\ [Next]_vars => SendInv'
<1> SUFFICES ASSUME IInv, SendInv, [Next]_vars PROVE SendInv'
    OBVIOUS
<1>1. CASE MapCoe \/ MapSii \/ CreateMapping \/ SlaveMapped \/ OutputsMapped \/ InputsMapped
  <2>1. pc' \notin {"LRD", "LWR", "LRW", "sent"}
    <3>1. CASE MapCoe \/ MapSii
        BY <3>1, FindingKeeps
    <3>2. CASE CreateMapping
        BY <3>2 DEF CreateMapping, Dirs
    <3>3. CASE SlaveMapped
        BY <3>3 DEF SlaveMapped, NextSlave, Dirs
    <3>4. CASE OutputsMapped \/ InputsMapped
        BY <3>4 DEF OutputsMapped, InputsMapped
    <3> QED BY <1>1, <3>1, <3>2, <3>3, <3>4
  <2> QED BY <2>1 DEF SendInv
<1>2. CASE UNCHANGED vars
  <2>1. UNCHANGED <<lrw, pc, mark, IOsegment, size, group, turn, frames>>
      BY <1>2 DEF vars, config, segments, sending
  <2> QED BY <2>1 DEF SendInv, Cmds, Enough, nsegments, Cut, First, After
<1> QED BY <1>1, <1>2, SendBegins, SendGoesOn DEF Next
-----------------------------------------------------------------------------
(***************************************************************************)
(* Slaves that fit a segment.                                              *)
(***************************************************************************)
Short == \A s \in Slaves, d \in Dirs : Bits(found[s][d]) <= 8 * (MaxSegment - 1)
ShortInv ==
    Short => /\ size <= MaxSegment /\ \A k \in DOMAIN IOsegment : IOsegment[k] <= MaxSegment
             /\ \A k \in DOMAIN frames : frames[k].length <= MaxSegment

(* A slave adds no more to the map than fits a segment.                    *)
LEMMA ShortTurn ==
    ASSUME IInv, SlaveMapped, Short
    PROVE  (pos \div 8) - mark <= MaxSegment
<1>0. TypeOK /\ Known /\ LoopInv
    BY DEF IInv
<1>1. /\ pc \in Dirs /\ slave \in Slaves /\ pos \in Nat /\ mark \in Nat /\ done \in Nat
      /\ smc \in Nat \ {0} /\ MaxSegment \in Nat \ {0} /\ Current \in Seq(SyncManager)
    BY <1>0, TurnEnds, Constants DEF TypeOK
<1>2. Bits(Current) \in Nat /\ Bits(Current) <= 8 * (MaxSegment - 1)
    BY <1>1, SizesOf DEF Short, Current
<1>3. CASE smc = 1
  <2>1. mark = pos \div 8
      BY <1>0, <1>3 DEF LoopInv
  <2> QED BY <1>1, <2>1
<1>4. CASE smc > 1 /\ Bits(Current) < 8
  <2>1. pos \div 8 <= mark + 1
      BY <1>0, <1>1, <1>4 DEF LoopInv
  <2> QED BY <1>1, <2>1
<1>5. CASE smc > 1 /\ Bits(Current) > 7
  <2>1. done <= WholeBytes(Bits(Current)) /\ pos <= 8 * (mark + 1 + done)
      BY <1>0, <1>1, <1>5 DEF LoopInv
  <2>2. WholeBytes(Bits(Current)) = (Bits(Current) + 7) \div 8
      BY <1>5 DEF WholeBytes
  <2>3. \A b \in Nat, m \in Nat : b <= 8 * m => (b + 7) \div 8 <= m
      OBVIOUS
  <2>4. (Bits(Current) + 7) \div 8 <= MaxSegment - 1
      BY <1>1, <1>2, <2>3
  <2>5. done <= MaxSegment - 1
      BY <1>1, <1>2, <2>1, <2>2, <2>4
  <2> QED BY <1>1, <2>1, <2>5
<1> QED BY <1>1, <1>2, <1>3, <1>4, <1>5

LEMMA ShortAccount ==
    ASSUME TypeOK, NEW diff \in Nat, diff <= MaxSegment, Account(diff),
           size <= MaxSegment, \A k \in DOMAIN IOsegment : IOsegment[k] <= MaxSegment
    PROVE  size' <= MaxSegment /\ \A k \in DOMAIN IOsegment' : IOsegment'[k] <= MaxSegment
<1>1. IOsegment \in Seq(Nat) /\ size \in Nat /\ MaxSegment \in Nat
    BY Constants DEF TypeOK
<1>2. CASE IOsegment' = IOsegment /\ size' <= MaxSegment
    BY <1>2
<1>3. CASE IOsegment' = Append(IOsegment, size) /\ size' = diff
  <2>1. \A k \in DOMAIN Append(IOsegment, size) : Append(IOsegment, size)[k] <= MaxSegment
    <3> TAKE k \in DOMAIN Append(IOsegment, size)
    <3>1. \/ k \in DOMAIN IOsegment /\ Append(IOsegment, size)[k] = IOsegment[k]
          \/ Append(IOsegment, size)[k] = size
        BY <1>1
    <3> QED BY <3>1
  <2> QED BY <1>3, <2>1
<1>4. \/ size' = size + diff /\ IOsegment' = IOsegment /\ size' <= MaxSegment
      \/ IOsegment' = Append(IOsegment, size) /\ size' = diff
      \/ size' = size /\ IOsegment' = IOsegment
    BY Accounts
<1> QED BY <1>2, <1>3, <1>4

LEMMA ShortFrame ==
    ASSUME IInv, SendFrame, Short, ShortInv
    PROVE  Sublength <= MaxSegment
<1>1. Looping /\ TypeOK /\ MaxSegment \in Nat
    BY Constants DEF SendFrame, Looping, IInv
<1>2. /\ Sublength \in Nat /\ Sublength <= SegmentSize(turn.seg) /\ turn.seg \in 1 .. nsegments
    BY <1>1, FrameFacts
<1>3. /\ SegmentSize(turn.seg) \in Nat /\ IOsegment \in Seq(Nat)
      /\ nsegments = Len(IOsegment) + 1 /\ Len(IOsegment) \in Nat
    BY <1>1, <1>2, SegmentFacts
<1>4. SegmentSize(turn.seg) <= MaxSegment
  <2>1. CASE turn.seg < nsegments
    <3>1. turn.seg \in DOMAIN IOsegment
        BY <1>2, <1>3, <2>1
    <3> QED BY <2>1, <3>1 DEF SegmentSize, ShortInv
  <2>2. CASE ~(turn.seg < nsegments)
      BY <2>2 DEF SegmentSize, ShortInv
  <2> QED BY <2>1, <2>2
<1> QED BY <1>1, <1>2, <1>3, <1>4

LEMMA ShortInvNext == IInv /\ ShortInv /\ [Next]_vars => ShortInv'
<1> SUFFICES ASSUME IInv, ShortInv, [Next]_vars, Short' PROVE ShortInv'
    BY DEF ShortInv
<1>0. TypeOK /\ MaxSegment \in Nat \ {0} /\ 0 <= MaxSegment /\ 1 <= MaxSegment
    BY Constants DEF IInv
<1>1. CASE MapCoe \/ MapSii
  <2>1. IOsegment' = <<>> /\ size' = 0 /\ frames' = <<>>
      BY <1>1, FindingKeeps DEF IInv, Begun, Finding, Sending
  <2> QED BY <1>0, <2>1 DEF ShortInv
<1>2. ASSUME found' = found
      PROVE  /\ Short /\ size <= MaxSegment
             /\ \A k \in DOMAIN IOsegment : IOsegment[k] <= MaxSegment
             /\ \A k \in DOMAIN frames : frames[k].length <= MaxSegment
    BY <1>2 DEF Short, ShortInv
<1>3. CASE CreateMapping \/ Send \/ UNCHANGED vars
  <2>1. UNCHANGED <<found, IOsegment, size, frames>>
      BY <1>3 DEF CreateMapping, Send, vars, segments, sending
  <2> QED BY <1>2, <2>1 DEF ShortInv
<1>4. CASE SlaveMapped
  <2>1. /\ UNCHANGED <<found, frames>> /\ (pos \div 8) - mark \in Nat
        /\ UNCHANGED <<IOsegment, size>> \/ Account((pos \div 8) - mark)
      BY <1>4, TurnEnds DEF IInv
  <2>2. (pos \div 8) - mark <= MaxSegment
      BY <1>2, <1>4, <2>1, ShortTurn
  <2> QED BY <1>0, <1>2, <2>1, <2>2, ShortAccount DEF ShortInv
<1>5. CASE OutputsMapped \/ InputsMapped
  <2>1. UNCHANGED <<found, frames>> /\ (UNCHANGED <<IOsegment, size>> \/ Account(1))
      BY <1>5 DEF OutputsMapped, InputsMapped, Pad, sending
  <2> QED BY <1>0, <1>2, <2>1, ShortAccount DEF ShortInv
<1>6. CASE SendFrame
  <2>1. /\ UNCHANGED <<found, IOsegment, size>>
        /\ frames' = Append(frames, [cmd |-> pc, adr |-> turn.adr, length |-> Sublength])
      BY <1>6 DEF SendFrame, segments
  <2>2. Sublength <= MaxSegment
      BY <1>2, <1>6, <2>1, ShortFrame
  <2>3. \A k \in DOMAIN frames' : frames'[k].length <= MaxSegment
    <3> DEFINE f == [cmd |-> pc, adr |-> turn.adr, length |-> Sublength]
    <3>1. f.length = Sublength
        OBVIOUS
    <3> HIDE DEF f
    <3>2. frames \in Seq(Frame) /\ frames' = Append(frames, f)
        BY <1>0, <2>1 DEF TypeOK, Frame, f
    <3>3. \A k \in DOMAIN frames' : \/ k \in DOMAIN frames /\ frames'[k] = frames[k]
                                    \/ frames'[k] = f
        BY <3>2
    <3> QED BY <1>2, <2>1, <2>2, <3>1, <3>3
  <2> QED BY <1>2, <2>1, <2>3 DEF ShortInv
<1> QED BY <1>1, <1>3, <1>4, <1>5, <1>6 DEF Next

LEMMA CarriesAll == IInv /\ SendInv /\ ShortInv => FramesCarryAll
<1> SUFFICES ASSUME IInv, SendInv, ShortInv, pc = "sent" PROVE FramesCarryAll
    BY DEF FramesCarryAll
<1>1. Short => \A k \in DOMAIN frames : frames[k].length <= MaxSegment
    BY DEF ShortInv
<1>2. ASSUME Enough, NEW cmd \in Cmds
      PROVE  LET mine == {k \in DOMAIN frames : frames[k].cmd = cmd}
             IN  /\ UNION {Carried(k) : k \in mine} = Area(cmd)
                 /\ \A j, k \in mine : j # k => Carried(j) \cap Carried(k) = {}
  <2>1. Part(frames, cmd, First(cmd), After(cmd))
      BY <1>2 DEF SendInv
  <2>2. Area(cmd) = First(cmd) .. After(cmd) - 1
    <3>1. Sending
        BY DEF Sending
    <3>2. group.Obytes + group.Ibytes = mark
        BY <3>1, GroupFacts
    <3> QED BY <3>2 DEF Area, First, After
  <2> DEFINE mine == {k \in DOMAIN frames : frames[k].cmd = cmd}
  <2>3. mine = OfCmd(frames, cmd)
      BY DEF OfCmd
  <2>4. \A k : Carried(k) = Bytes(frames[k])
      BY DEF Carried, Bytes
  <2> HIDE DEF mine
  <2>5. UNION {Carried(k) : k \in mine} = AllBytes(frames, cmd)
      BY <2>3, <2>4 DEF AllBytes
  <2>6. UNION {Carried(k) : k \in mine} = Area(cmd)
      BY <2>1, <2>2, <2>5 DEF Part
  <2>7. \A j, k \in mine : j # k => Carried(j) \cap Carried(k) = {}
      BY <2>1, <2>3, <2>4 DEF Part
  <2> QED BY <2>6, <2>7 DEF mine
<1> QED BY <1>1, <1>2, Zenon DEF FramesCarryAll, Short

(* What ecx_main_send_processdata sends of a command covers its part of    *)
(* the map, every byte once, whatever the slaves exchange and wherever the *)
(* segments end, as long as they suffice; and with slaves that fit a       *)
(* segment no frame is longer than one.                                    *)
THEOREM AllCarried == Spec => []FramesCarryAll
<1>1. Init => SendInv /\ ShortInv
  <2> SUFFICES ASSUME Init PROVE SendInv /\ ShortInv
      OBVIOUS
  <2>1. 0 <= MaxSegment
      BY Constants
  <2> QED BY <2>1 DEF Init, SendInv, ShortInv
<1> QED BY <1>1, Inductive, SendInvNext, ShortInvNext, CarriesAll, PTL DEF Spec
-----------------------------------------------------------------------------
(***************************************************************************)
(* Slaves of whole bytes.                                                  *)
(***************************************************************************)
LEMMA ByteCountsGrow ==
    ASSUME NEW sms \in Seq(SyncManager), NEW k \in 1 .. Len(sms), NEW j \in 0 .. k - 1
    PROVE  /\ ByteCount(sms, j) \in Nat /\ ByteCount(sms, k) \in Nat
           /\ ByteCount(sms, j) < ByteCount(sms, k)
<1>1. PICK y \in Seq(Nat) : y = [i \in DOMAIN sms |-> SMlength(sms[i])] /\ Len(y) = Len(sms)
    BY BitsSeq
<1>2. \A i : ByteCount(sms, i) = Sums(y)[i]
    BY <1>1 DEF ByteCount
<1>3. Len(sms) \in Nat /\ j \in 0 .. Len(y) /\ k - 1 \in j .. Len(y)
    BY <1>1
<1>4. Sums(y)[j] <= Sums(y)[k - 1]
    BY <1>3, SumsGrow
<1>5. j \in 0 .. Len(sms) /\ k - 1 \in 0 .. Len(sms) /\ k \in 0 .. Len(sms)
    BY <1>3
<1>6. /\ ByteCount(sms, j) \in Nat /\ ByteCount(sms, k - 1) \in Nat /\ ByteCount(sms, k) \in Nat
      /\ ByteCount(sms, k) = ByteCount(sms, k - 1) + SMlength(sms[k]) /\ SMlength(sms[k]) \in Nat \ {0}
    BY <1>5, SizesOf
<1> QED BY <1>2, <1>4, <1>6

LEMMA BitsOfBytes ==
    ASSUME NEW sms \in Seq(SyncManager), OfWholeBytes(sms)
    PROVE  Bits(sms) = 8 * ByteCount(sms, Len(sms))
<1>1. PICK b \in Seq(Nat) : /\ b = [k \in DOMAIN sms |-> sms[k].bits] /\ Len(b) = Len(sms)
                            /\ \A k \in 1 .. Len(sms) : b[k] = sms[k].bits
    BY BitsSeq
<1>2. Bits(sms) = Sums(b)[Len(sms)] /\ Len(sms) \in Nat
    BY <1>1 DEF Bits, Total
<1> DEFINE T == {k \in 0 .. Len(sms) : Sums(b)[k] = 8 * ByteCount(sms, k)}
<1>3. 0 \in T
    BY <1>2, SumsRule, SizesOf
<1>4. ASSUME NEW k \in 1 .. Len(sms), k - 1 \in T
      PROVE  k \in T
  <2>1. sms[k].bits \in Nat /\ sms[k].bits % 8 = 0
      BY SyncManagerBits DEF OfWholeBytes
  <2>2. SMlength(sms[k]) \in Nat /\ sms[k].bits = 8 * SMlength(sms[k])
    <3>1. \A x \in Nat : x % 8 = 0 => (x + 7) \div 8 \in Nat /\ x = 8 * ((x + 7) \div 8)
        OBVIOUS
    <3> QED BY <2>1, <3>1 DEF SMlength
  <2>3. Sums(b)[k] = Sums(b)[k - 1] + sms[k].bits
      BY <1>1, SumsRule
  <2>4. ByteCount(sms, k) = ByteCount(sms, k - 1) + SMlength(sms[k])
      BY SizesOf
  <2>5. k - 1 \in 0 .. Len(sms) /\ k \in 0 .. Len(sms)
      BY <1>2
  <2>6. ByteCount(sms, k - 1) \in Nat /\ Sums(b)[k - 1] = 8 * ByteCount(sms, k - 1)
      BY <1>4, <2>5, SizesOf
  <2>7. Sums(b)[k] = 8 * ByteCount(sms, k)
      BY <2>2, <2>3, <2>4, <2>6
  <2> QED BY <2>5, <2>7
<1> HIDE DEF T
<1>5. \A k \in 0 .. Len(sms) : k \in T
    BY <1>2, <1>3, <1>4, UpTo
<1>6. Len(sms) \in T
    BY <1>2, <1>5
<1> QED BY <1>2, <1>6 DEF T

(* Without a gap a sync manager goes on where the one before ends.         *)
LEMMA LastConnects ==
    ASSUME NEW sms \in Seq(SyncManager), OfWholeBytes(sms), NEW from \in 1 .. Len(sms)
    PROVE  Last(sms, from) \in from .. Len(sms) /\ Connect(sms, from, Last(sms, from))
<1> DEFINE C == {k \in from .. Len(sms) :
                    \/ k = Len(sms)
                    \/ sms[k + 1].gap
                    \/ 8 * ByteCount(sms, k) >= Bits(sms)}
<1>0. Len(sms) \in Nat
    OBVIOUS
<1>1. C \subseteq Nat /\ Len(sms) \in C
    BY <1>0
<1>2. Last(sms, from) = Min(C)
    BY DEF Last
<1>3. \A k \in from .. Len(sms) : k \notin C => k # Len(sms) /\ ~sms[k + 1].gap
    OBVIOUS
<1>4. \A k \in C : k \in from .. Len(sms) /\ (k = Len(sms) \/ sms[k + 1].gap)
  <2> TAKE k \in C
  <2>1. k \in from .. Len(sms)
      OBVIOUS
  <2>2. CASE k # Len(sms) /\ 8 * ByteCount(sms, k) >= Bits(sms)
    <3>1. Len(sms) \in 1 .. Len(sms) /\ k \in 0 .. Len(sms) - 1
        BY <1>0, <2>1, <2>2
    <3>2. /\ ByteCount(sms, k) \in Nat /\ ByteCount(sms, Len(sms)) \in Nat
          /\ ByteCount(sms, k) < ByteCount(sms, Len(sms))
        BY <3>1, ByteCountsGrow
    <3>3. FALSE
        BY <2>2, <3>2, BitsOfBytes
    <3> QED BY <3>3
  <2> QED BY <2>1, <2>2
<1> HIDE DEF C
<1>5. Min(C) \in C /\ \A k \in C : Min(C) <= k
    BY <1>1, MinIsIn
<1>6. ASSUME NEW k \in from + 1 .. Min(C)
      PROVE  ~sms[k].gap
  <2>1. k - 1 \in from .. Len(sms) /\ k - 1 < Min(C) /\ Min(C) \in Nat
      BY <1>0, <1>4, <1>5
  <2>2. k - 1 \notin C
      BY <1>0, <1>5, <2>1
  <2>3. (k - 1) + 1 = k
      BY <1>0
  <2> QED BY <1>3, <2>1, <2>2, <2>3
<1> QED BY <1>2, <1>4, <1>5, <1>6 DEF Connect

LEMMA OneGap ==
    ASSUME NEW sms \in Seq(SyncManager), Gaps(sms) < 2,
           NEW i \in DOMAIN sms, i > 1, sms[i].gap, NEW j \in DOMAIN sms, j > 1, sms[j].gap
    PROVE  i = j
<1> SUFFICES ASSUME i # j PROVE FALSE
    OBVIOUS
<1> DEFINE S == {k \in DOMAIN sms : k > 1 /\ sms[k].gap}
<1>1. IsFiniteSet(S) /\ Cardinality(S) \in Nat
  <2>1. DOMAIN sms = 1 .. Len(sms) /\ Len(sms) \in Nat
      OBVIOUS
  <2>2. IsFiniteSet(1 .. Len(sms))
      BY <2>1, FS_Interval
  <2>3. S \subseteq 1 .. Len(sms)
      BY <2>1
  <2>4. IsFiniteSet(S)
      BY <2>2, <2>3, FS_Subset
  <2> QED BY <2>4, FS_CardinalityType
<1>2. Cardinality({i, j}) = 2 /\ Cardinality({i, j}) <= Cardinality(S)
  <2>1. IsFiniteSet({i}) /\ Cardinality({i}) = 1
      BY FS_Singleton
  <2>2. Cardinality({i} \cup {j}) = 2
    <3>1. j \notin {i}
        OBVIOUS
    <3>2. Cardinality({i} \cup {j}) = Cardinality({i}) + 1
        BY <2>1, <3>1, FS_AddElement, Zenon
    <3>3. 1 + 1 = 2
        OBVIOUS
    <3> QED BY <2>1, <3>2, <3>3, Zenon
  <2>3. {i} \cup {j} = {i, j} /\ {i, j} \subseteq S
      OBVIOUS
  <2> QED BY <1>1, <2>2, <2>3, FS_Subset
<1> QED BY <1>1, <1>2 DEF Gaps
-----------------------------------------------------------------------------
(* What is mapped of a slave goes as far as its first gap, then to its end.*)
GapInv ==
    pc \in Dirs /\ smc > 1 /\ OfWholeBytes(Current) /\ Gaps(Current) < 2 =>
        /\ done = ByteCount(Current, smc - 1)
        /\ smc <= Len(Current) => Current[smc].gap

LEMMA Breaks ==
    ASSUME IInv, GapInv, CreateMapping, OfWholeBytes(Current), Gaps(Current) < 2
    PROVE  LET last == Last(Current, smc)
           IN  /\ done' = ByteCount(Current, last) /\ last \in smc .. Len(Current)
               /\ Connect(Current, smc, last)
               /\ \E from, length :
                     /\ fmmus' = fmmus \cup {Fmmu(from, length)}
                     /\ length = 8 * (ByteCount(Current, last) - ByteCount(Current, smc - 1))
<1> DEFINE sms == Current
           last == Last(sms, smc)
           all == ByteCount(sms, Len(sms))
           before == ByteCount(sms, smc - 1)
           upto == ByteCount(sms, last)
<1>1. TypeOK /\ Known /\ LoopInv
    BY DEF IInv
<1>2. /\ pc \in Dirs /\ sms \in Seq(SyncManager) /\ smc \in 1 .. Len(sms)
      /\ Len(sms) \in Nat \ {0}
  <2>1. /\ pc \in Dirs /\ sms \in Seq(SyncManager) /\ smc \in 1 .. Len(sms)
      BY <1>1, Mapping
  <2> QED BY <2>1
<1>3. last \in smc .. Len(sms) /\ Connect(sms, smc, last)
    BY <1>2, LastConnects
<1>4. done \in Nat /\ done' \in Nat
    BY <1>1, Mapping DEF TypeOK
<1> HIDE DEF sms, last
<1>5. /\ before \in Nat /\ upto \in Nat /\ all \in Nat \ {0} /\ before < upto /\ upto <= all
      /\ (smc > 1 => before > 0) /\ (smc = 1 => before = 0) /\ (last = Len(sms) => upto = all)
  <2>1. last \in 1 .. Len(sms) /\ smc - 1 \in 0 .. last - 1 /\ Len(sms) \in 1 .. Len(sms)
        /\ 0 \in 0 .. Len(sms) - 1
      BY <1>2, <1>3
  <2>2. before \in Nat /\ upto \in Nat /\ before < upto
      BY <1>2, <2>1, ByteCountsGrow
  <2>3. ByteCount(sms, 0) = 0 /\ all \in Nat /\ ByteCount(sms, 0) < all
      BY <1>2, <2>1, ByteCountsGrow, SizesOf
  <2>4. last # Len(sms) => upto < all
    <3> SUFFICES ASSUME last # Len(sms) PROVE upto < all
        OBVIOUS
    <3>1. last \in 0 .. Len(sms) - 1
        BY <1>2, <2>1
    <3> QED BY <1>2, <2>1, <3>1, ByteCountsGrow
  <2>5. smc > 1 => ByteCount(sms, 0) < before
    <3> SUFFICES ASSUME smc > 1 PROVE ByteCount(sms, 0) < before
        OBVIOUS
    <3>1. smc - 1 \in 1 .. Len(sms) /\ 0 \in 0 .. (smc - 1) - 1
        BY <1>2
    <3> QED BY <1>2, <3>1, ByteCountsGrow
  <2>6. smc = 1 => before = 0
      BY <2>3
  <2> QED BY <2>2, <2>3, <2>4, <2>5, <2>6
<1>6. Bits(sms) = 8 * all /\ Bits(sms) > 7 /\ WholeBytes(Bits(sms)) = all
  <2>1. Bits(sms) = 8 * all
      BY <1>2, BitsOfBytes DEF sms
  <2> HIDE DEF all
  <2>2. 8 * all > 7 /\ (8 * all + 7) \div 8 = all
      BY <1>5
  <2> QED BY <2>1, <2>2 DEF WholeBytes
<1>7. PICK from, length \in Nat :
          /\ fmmus' = fmmus \cup {Fmmu(from, length)}
          /\ length = 8 * (IF upto > all - done THEN all - done ELSE upto)
          /\ length = 8 * (done' - done)
    BY <1>1, <1>6, Mapping DEF sms, last
<1> HIDE DEF all, before, upto
<1>8. length = 8 * (upto - before) /\ done = before
  <2>1. CASE smc = 1
    <3>1. done = 0
        BY <1>1, <2>1 DEF LoopInv
    <3> QED BY <1>4, <1>5, <1>7, <2>1, <3>1
  <2>2. CASE smc > 1
    <3>1. done = before /\ sms[smc].gap
        BY <1>2, <2>2 DEF GapInv, sms, before
    <3>2. last = Len(sms)
      <4> SUFFICES ASSUME last # Len(sms) PROVE FALSE
          OBVIOUS
      <4>1. sms[last + 1].gap
          BY <1>3 DEF Connect
      <4>2. last + 1 \in DOMAIN sms /\ last + 1 > 1 /\ smc \in DOMAIN sms /\ last + 1 # smc
          BY <1>2, <1>3
      <4> QED BY <1>2, <2>2, <3>1, <4>1, <4>2, OneGap DEF sms
    <3>3. upto = all
        BY <1>5, <3>2
    <3> QED BY <1>4, <1>5, <1>7, <2>2, <3>1, <3>3
  <2> QED BY <1>2, <2>1, <2>2
<1>9. done' = upto
  <2>1. \A a, b, c \in Nat : 8 * (a - b) = 8 * (c - b) => c = a
      OBVIOUS
  <2>2. 8 * (upto - before) = 8 * (done' - before)
      BY <1>7, <1>8
  <2> QED BY <1>4, <1>5, <2>1, <2>2
<1> QED BY <1>3, <1>7, <1>8, <1>9 DEF sms, last, before, upto

Broken == GapInv /\ BreaksUpOnce

LEMMA BrokenNext == IInv /\ Broken /\ [Next]_vars => Broken'
<1> SUFFICES ASSUME IInv, Broken, [Next]_vars PROVE Broken'
    OBVIOUS
<1>0. TypeOK /\ Known /\ LoopInv
    BY DEF IInv
<1>1. CASE CreateMapping
  <2> DEFINE last == Last(Current, smc)
  <2>1. /\ UNCHANGED <<found, slave, pc>> /\ smc' = last + 1 /\ pc \in Dirs
        /\ Current \in Seq(SyncManager) /\ last \in smc .. Len(Current) /\ smc \in 1 .. Len(Current)
      BY <1>0, <1>1, Mapping
  <2>2. Current' = Current
      BY <2>1 DEF Current
  <2>3. GapInv'
    <3> SUFFICES ASSUME OfWholeBytes(Current), Gaps(Current) < 2
                 PROVE  /\ done' = ByteCount(Current, smc' - 1)
                        /\ smc' <= Len(Current) => Current[smc'].gap
        BY <2>2 DEF GapInv
    <3>1. done' = ByteCount(Current, last) /\ Connect(Current, smc, last)
        BY <1>1, Breaks DEF Broken
    <3> HIDE DEF last
    <3>2. smc' - 1 = last /\ last \in Int /\ Len(Current) \in Int
        BY <2>1
    <3>3. smc' <= Len(Current) => last # Len(Current)
        BY <2>1, <3>2
    <3> QED BY <2>1, <3>1, <3>2, <3>3 DEF Connect
  <2>4. BreaksUpOnce'
    <3>1. PICK from, length : fmmus' = fmmus \cup {Fmmu(from, length)}
                              /\ (OfWholeBytes(Current) /\ Gaps(Current) < 2 =>
                                  length = 8 * (ByteCount(Current, last) - ByteCount(Current, smc - 1)))
      <4>1. CASE OfWholeBytes(Current) /\ Gaps(Current) < 2
          BY <1>1, <4>1, Breaks DEF Broken
      <4>2. CASE ~(OfWholeBytes(Current) /\ Gaps(Current) < 2)
        <5>1. \E from \in Nat, length \in Nat : fmmus' = fmmus \cup {Fmmu(from, length)}
            BY <1>0, <1>1, Mapping
        <5> QED BY <4>2, <5>1
      <4> QED BY <4>1, <4>2
    <3> DEFINE g == Fmmu(from, length)
    <3>2. g.slave = slave /\ g.dir = pc /\ g.sm = smc /\ g.length = length
        BY DEF Fmmu
    <3>3. fmmus' = fmmus \cup {g}
        BY <3>1
    <3> HIDE DEF g
    <3>4. ASSUME NEW f \in fmmus' PROVE Gaps(found'[f.slave][f.dir]) < 2 => MapsWhatConnects(f)'
      <4>1. CASE f \in fmmus
          BY <2>1, <4>1 DEF Broken, BreaksUpOnce, MapsWhatConnects
      <4>2. CASE f = g
        <5> SUFFICES ASSUME Gaps(Current) < 2, OfWholeBytes(Current)
                     PROVE  \E to \in g.sm .. Len(Current) :
                                /\ Connect(Current, g.sm, to)
                                /\ g.length = 8 * (ByteCount(Current, to) - ByteCount(Current, g.sm - 1))
            BY <2>1, <3>2, <4>2 DEF MapsWhatConnects, Current
        <5>1. Connect(Current, smc, last)
            BY <1>1, Breaks DEF Broken
        <5> HIDE DEF last
        <5> QED BY <2>1, <3>1, <3>2, <5>1
      <4> QED BY <3>3, <4>1, <4>2
    <3> QED BY <3>4 DEF BreaksUpOnce
  <2> QED BY <2>3, <2>4 DEF Broken
<1>2. CASE MapCoe \/ MapSii
  <2>1. fmmus' = {} /\ smc' = 1
      BY <1>0, <1>2, FindingKeeps DEF IInv, Begun, LoopInv, Finding, Dirs
  <2> QED BY <2>1 DEF Broken, GapInv, BreaksUpOnce
<1>3. CASE \/ SlaveMapped \/ OutputsMapped \/ InputsMapped \/ Send \/ SendFrame
           \/ UNCHANGED vars
  <2>1. UNCHANGED <<found, fmmus>>
      BY <1>3 DEF SlaveMapped, OutputsMapped, InputsMapped, Send, SendFrame, mapping, vars
  <2>2. BreaksUpOnce'
      BY <2>1 DEF Broken, BreaksUpOnce, MapsWhatConnects
  <2>3. GapInv'
    <3>1. CASE UNCHANGED vars
        BY <3>1 DEF Broken, GapInv, Current, vars, mapping
    <3>2. CASE SlaveMapped
        BY <3>2 DEF GapInv, SlaveMapped
    <3>3. CASE OutputsMapped \/ InputsMapped \/ Send \/ SendFrame
      <4>1. smc' = smc /\ pc \notin Dirs
          BY <3>3 DEF OutputsMapped, InputsMapped, Send, SendFrame, mapping, Dirs
      <4>2. smc = 1
          BY <1>0, <4>1 DEF LoopInv
      <4> QED BY <4>1, <4>2 DEF GapInv
    <3> QED BY <1>3, <3>1, <3>2, <3>3
  <2> QED BY <2>2, <2>3 DEF Broken
<1> QED BY <1>1, <1>2, <1>3 DEF Next

(* An FMMU of a slave of whole bytes maps the memory of the sync managers  *)
(* that connect, for every description with at most one gap.               *)
THEOREM OneFmmuPerStretch == Spec => []BreaksUpOnce
<1>1. Init => Broken
    BY DEF Init, Broken, GapInv, BreaksUpOnce
<1>2. Broken => BreaksUpOnce
    BY DEF Broken
<1> QED BY <1>1, <1>2, Inductive, BrokenNext, PTL DEF Spec
-----------------------------------------------------------------------------
(***************************************************************************)
(* The slaves have their turns, one after the other, for the outputs and   *)
(* then for the inputs.                                                    *)
(***************************************************************************)
Turns(d) ==
    IF pc = d THEN slave - 1
    ELSE IF Finding \/ (d = "in" /\ pc \in {"out", "outputs"}) THEN 0 ELSE N
InTurn(s, d) == pc = d /\ slave = s /\ smc > 1
OrderInv == pc = "outputs" => slave = 1

LEMMA TurnsFacts ==
    ASSUME TypeOK, NEW d \in Dirs
    PROVE  Turns(d) \in 0 .. N /\ (pc = d => Turns(d) = slave - 1) /\ N \in Nat /\ slave \in 1 .. N
BY Constants DEF TypeOK, Turns, Slaves

LEMMA TurnsStay ==
    ASSUME IInv, OrderInv, [Next]_vars, ~SlaveMapped
    PROVE  /\ \A d \in Dirs : Turns(d)' = Turns(d)
           /\ OrderInv'
<1>0. slave \in 1 .. N /\ N \in Nat
    BY Constants DEF IInv, TypeOK, Slaves
<1>1. CASE MapCoe \/ MapSii
  <2>1. Finding /\ (pc' \in {"coe", "sii"} \/ (pc' = "out" /\ slave' = 1))
      BY <1>1, FindingKeeps
  <2> QED BY <2>1 DEF Finding, Turns, OrderInv, Dirs
<1>2. CASE CreateMapping \/ UNCHANGED vars
  <2>1. UNCHANGED <<pc, slave>>
      BY <1>2 DEF CreateMapping, vars
  <2> QED BY <2>1 DEF Turns, OrderInv, Finding
<1>3. CASE OutputsMapped
  <2>1. pc = "outputs" /\ pc' = "in" /\ slave' = slave /\ slave = 1
      BY <1>3 DEF OutputsMapped, OrderInv
  <2> QED BY <2>1 DEF Turns, OrderInv, Finding, Dirs
<1>4. CASE InputsMapped
  <2>1. pc = "inputs" /\ pc' = "mapped"
      BY <1>4 DEF InputsMapped
  <2> QED BY <2>1 DEF Turns, OrderInv, Finding, Dirs
<1>5. CASE Send \/ SendFrame
  <2>1. pc \in {"mapped", "LRD", "LWR", "LRW"} /\ pc' \in {"LRD", "LWR", "LRW", "sent"}
      BY <1>5, OutputsStart DEF Send, SendFrame, Start
  <2> QED BY <2>1 DEF Turns, OrderInv, Finding, Dirs
<1> QED BY <1>1, <1>2, <1>3, <1>4, <1>5 DEF Next

LEMMA TurnsGrow ==
    ASSUME IInv, SlaveMapped
    PROVE  /\ \A d \in Dirs : Turns(d)' = IF pc = d THEN slave ELSE Turns(d)
           /\ OrderInv'
<1>0. slave \in 1 .. N /\ N \in Nat /\ pc \in Dirs
    BY Constants DEF IInv, TypeOK, Slaves, SlaveMapped
<1>1. NextSlave(pc, IF pc = "out" THEN "outputs" ELSE "inputs")
    BY TurnEnds DEF IInv
<1>2. CASE pc = "out"
  <2>1. \/ slave < N /\ pc' = "out" /\ slave' = slave + 1
        \/ slave = N /\ pc' = "outputs" /\ slave' = 1
      BY <1>0, <1>1, <1>2 DEF NextSlave
  <2>2. Turns("out")' = slave
      BY <1>0, <2>1 DEF Turns, Finding
  <2>3. Turns("in")' = Turns("in")
      BY <1>2, <2>1 DEF Turns, Finding
  <2> QED BY <1>2, <2>1, <2>2, <2>3 DEF OrderInv, Dirs
<1>3. CASE pc = "in"
  <2>1. \/ slave < N /\ pc' = "in" /\ slave' = slave + 1
        \/ slave = N /\ pc' = "inputs" /\ slave' = 1
      BY <1>0, <1>1, <1>3 DEF NextSlave
  <2>2. Turns("in")' = slave
      BY <1>0, <2>1 DEF Turns, Finding
  <2>3. Turns("out")' = Turns("out")
      BY <1>3, <2>1 DEF Turns, Finding
  <2> QED BY <1>3, <2>1, <2>2, <2>3 DEF OrderInv, Dirs
<1> QED BY <1>0, <1>2, <1>3 DEF Dirs
-----------------------------------------------------------------------------
(* outputsWKC and inputsWKC: the slaves that exchange something.           *)
Exchanging(d) == [s \in Slaves |-> IF found[s][d] = <<>> THEN 0 ELSE 1]
CountInv ==
    /\ group.outputsWKC = Sums(Exchanging("out"))[Turns("out")]
    /\ group.inputsWKC = Sums(Exchanging("in"))[Turns("in")]

LEMMA ExchangingSeq ==
    \A map, d : LET e == [s \in Slaves |-> IF map[s][d] = <<>> THEN 0 ELSE 1]
                IN  /\ e \in Seq(Nat) /\ Len(e) = N
                    /\ \A s \in Slaves : e[s] = IF map[s][d] = <<>> THEN 0 ELSE 1
<1> TAKE map, d
<1> DEFINE e == [s \in Slaves |-> IF map[s][d] = <<>> THEN 0 ELSE 1]
<1>1. N \in Nat /\ Slaves = 1 .. N
    BY Constants DEF Slaves
<1>2. e \in [1 .. N -> Nat] /\ \A s \in Slaves : e[s] = IF map[s][d] = <<>> THEN 0 ELSE 1
    BY <1>1
<1> HIDE DEF e
<1>3. e \in Seq(Nat) /\ Len(e) = N
    BY <1>1, <1>2
<1> QED BY <1>2, <1>3 DEF e

LEMMA CountNext == IInv /\ OrderInv /\ CountInv /\ [Next]_vars => CountInv'
<1> SUFFICES ASSUME IInv, OrderInv, CountInv, [Next]_vars PROVE CountInv'
    OBVIOUS
<1>0. TypeOK /\ Known /\ group \in Group /\ "out" \in Dirs /\ "in" \in Dirs
    BY DEF IInv, TypeOK, Group, Dirs
<1>1. CASE MapCoe \/ MapSii
  <2>1. /\ Finding /\ group' = group /\ group.outputsWKC = 0 /\ group.inputsWKC = 0
        /\ ~SlaveMapped
      BY <1>1, FindingKeeps DEF IInv, Begun, SlaveMapped, Dirs, Finding
  <2>2. Turns("out")' = 0 /\ Turns("in")' = 0
    <3>1. Turns("out") = 0 /\ Turns("in") = 0
        BY <2>1 DEF Turns, Finding
    <3> QED BY <1>0, <2>1, <3>1, TurnsStay
  <2>3. Sums(Exchanging("out")')[0] = 0 /\ Sums(Exchanging("in")')[0] = 0
      BY ExchangingSeq, SumsRule DEF Exchanging
  <2> QED BY <2>1, <2>2, <2>3 DEF CountInv
<1>2. CASE SlaveMapped
  <2>1. pc \in Dirs /\ found' = found /\ slave \in 1 .. N /\ N \in Nat /\ slave \in Slaves
      BY <1>0, <1>2, Constants DEF SlaveMapped, TypeOK, Slaves
  <2> PICK c \in Dirs : c = pc
      BY <2>1
  <2> DEFINE wkc == IF pc = "out" THEN "outputsWKC" ELSE "inputsWKC"
  <2>2. group'[wkc] = group[wkc] + (IF Current = <<>> THEN 0 ELSE 1)
        /\ \A x \in {"outputsWKC", "inputsWKC"} : x # wkc => group'[x] = group[x]
    <3>1. CASE Current = <<>>
      <4>1. group' = group
          BY <1>2, <3>1, TurnEnds DEF IInv
      <4>2. group[wkc] \in Nat
          BY <1>0 DEF Group
      <4> QED BY <3>1, <4>1, <4>2
    <3>2. CASE Current # <<>>
      <4>1. group' = [group EXCEPT ![wkc] = @ + 1]
          BY <1>2, <3>2, TurnEnds DEF IInv
      <4>2. wkc \in {"outputsWKC", "inputsWKC"}
          OBVIOUS
      <4> HIDE DEF wkc
      <4> QED BY <1>0, <3>2, <4>1, <4>2 DEF Group
    <3> QED BY <3>1, <3>2
  <2>3. Sums(Exchanging(c))[slave]
            = Sums(Exchanging(c))[slave - 1] + (IF Current = <<>> THEN 0 ELSE 1)
    <3>1. /\ Exchanging(c) \in Seq(Nat) /\ Len(Exchanging(c)) = N
          /\ Exchanging(c)[slave] = IF found[slave][c] = <<>> THEN 0 ELSE 1
        BY <2>1, ExchangingSeq DEF Exchanging
    <3>2. Sums(Exchanging(c))[slave] = Sums(Exchanging(c))[slave - 1] + Exchanging(c)[slave]
        BY <2>1, <3>1, SumsRule
    <3> QED BY <3>1, <3>2 DEF Current
  <2>4. Exchanging("out")' = Exchanging("out") /\ Exchanging("in")' = Exchanging("in")
      BY <2>1 DEF Exchanging
  <2>5. /\ Turns(c) = slave - 1 /\ Turns(c)' = slave
        /\ \A d \in Dirs : d # c => Turns(d)' = Turns(d)
      BY <1>0, <1>2, TurnsFacts, TurnsGrow
  <2>6. CASE pc = "out"
    <3>1. c = "out" /\ wkc = "outputsWKC" /\ "in" # c
        BY <2>6
    <3> HIDE DEF wkc
    <3> QED BY <1>0, <2>2, <2>3, <2>4, <2>5, <3>1 DEF CountInv
  <2>7. CASE pc = "in"
    <3>1. c = "in" /\ wkc = "inputsWKC" /\ "out" # c
        BY <2>7
    <3> HIDE DEF wkc
    <3> QED BY <1>0, <2>2, <2>3, <2>4, <2>5, <3>1 DEF CountInv
  <2> QED BY <2>1, <2>6, <2>7 DEF Dirs
<1>3. CASE /\ ~SlaveMapped
           /\ \/ CreateMapping \/ OutputsMapped \/ InputsMapped \/ Send \/ SendFrame
              \/ UNCHANGED vars
  <2>1. found' = found
      BY <1>3 DEF CreateMapping, OutputsMapped, InputsMapped, Send, SendFrame, vars
  <2>2. group'.outputsWKC = group.outputsWKC /\ group'.inputsWKC = group.inputsWKC
    <3>1. CASE CreateMapping \/ Send \/ SendFrame \/ UNCHANGED vars
        BY <3>1 DEF CreateMapping, Send, SendFrame, vars
    <3>2. CASE OutputsMapped
        BY <1>0, <3>2 DEF OutputsMapped, Group
    <3>3. CASE InputsMapped
        BY <1>0, <3>3 DEF InputsMapped, Group
    <3> QED BY <1>3, <3>1, <3>2, <3>3
  <2>3. Turns("out")' = Turns("out") /\ Turns("in")' = Turns("in")
      BY <1>0, <1>3, TurnsStay
  <2>4. Exchanging("out")' = Exchanging("out") /\ Exchanging("in")' = Exchanging("in")
      BY <2>1 DEF Exchanging
  <2> QED BY <2>2, <2>3, <2>4 DEF CountInv
<1> QED BY <1>1, <1>2, <1>3 DEF Next
-----------------------------------------------------------------------------
(***************************************************************************)
(* The FMMUs of a slave: it has them once it has had its turn, its outputs *)
(* lie before all inputs, and what it has just been given behind mark.     *)
(***************************************************************************)
Of(s, d) == {f \in fmmus : f.slave = s /\ f.dir = d}

OwnerInv ==
    \A f \in fmmus :
        /\ f.slave \in Slaves /\ f.dir \in Dirs /\ f.length > 0 /\ found[f.slave][f.dir] # <<>>
        /\ f.slave <= Turns(f.dir) \/ (InTurn(f.slave, f.dir) /\ 8 * mark <= f.from)
SideInv ==
    OutputsDone =>
        \A f \in fmmus : IF f.dir = "out" THEN f.from + f.length <= 8 * group.Obytes
                                          ELSE 8 * group.Obytes <= f.from
ServedInv ==
    \A s \in Slaves, d \in Dirs :
        found[s][d] # <<>> /\ (s <= Turns(d) \/ InTurn(s, d)) => Of(s, d) # {}
FmmuInv == OwnerInv /\ SideInv /\ ServedInv

LEMMA FmmuTypes ==
    ASSUME Placed, NEW f \in fmmus
    PROVE  f.from \in Nat /\ f.length \in Nat /\ f.from + f.length <= pos
BY DEF Placed, PlacedBehind

LEMMA FmmuFinding ==
    ASSUME IInv, OrderInv, MapCoe \/ MapSii
    PROVE  FmmuInv'
<1>1. /\ fmmus' = {} /\ smc' = 1 /\ Finding /\ ~SlaveMapped
    BY FindingKeeps DEF IInv, Begun, LoopInv, Finding, Dirs, SlaveMapped
<1>2. \A d \in Dirs : Turns(d)' = 0
  <2>1. \A d \in Dirs : Turns(d) = 0
      BY <1>1 DEF Turns, Finding, Dirs
  <2> QED BY <1>1, <2>1, TurnsStay DEF Next
<1>3. \A s \in Slaves, d \in Dirs : ~(s <= Turns(d)') /\ ~InTurn(s, d)'
  <2>1. \A s \in Slaves : ~(s <= 0)
      BY Constants DEF Slaves
  <2> QED BY <1>1, <1>2, <2>1 DEF InTurn
<1> QED BY <1>1, <1>3 DEF FmmuInv, OwnerInv, SideInv, ServedInv

LEMMA FmmuCreated ==
    ASSUME IInv, Placed, OrderInv, FmmuInv, CreateMapping
    PROVE  FmmuInv'
<1>0. TypeOK /\ Known /\ LoopInv /\ GroupInv /\ mark \in Nat /\ pos \in Nat /\ slave \in Slaves
    BY DEF IInv, TypeOK
<1>1. /\ UNCHANGED <<found, slave, pc, mark, group>> /\ smc' > 1 /\ pc \in Dirs
      /\ Current # <<>> /\ smc \in Nat \ {0}
  <2>1. /\ Current \in Seq(SyncManager) /\ Len(Current) \in Nat /\ smc \in 1 .. Len(Current)
        /\ Last(Current, smc) \in smc .. Len(Current) /\ smc' = Last(Current, smc) + 1
      BY <1>0, Mapping
  <2>2. smc' > 1 /\ smc \in Nat \ {0}
      BY <2>1
  <2> QED BY <1>0, <2>2, Mapping
<1>2. PICK from \in Nat, length \in Nat \ {0} :
          from >= pos /\ fmmus' = fmmus \cup {Fmmu(from, length)}
    BY <1>0, Mapping
<1> DEFINE g == Fmmu(from, length)
<1>3. g.slave = slave /\ g.dir = pc /\ g.from = from /\ g.length = length
    BY DEF Fmmu
<1>4. fmmus' = fmmus \cup {g}
    BY <1>2
<1> HIDE DEF g
<1>5. 8 * mark <= from
    BY <1>0, <1>2 DEF LoopInv
<1>6. /\ \A d \in Dirs : Turns(d)' = Turns(d)
      /\ \A s, d : InTurn(s, d)' = (pc = d /\ slave = s)
      /\ \A s, d : InTurn(s, d) => InTurn(s, d)'
  <2>1. ~SlaveMapped
    <3>1. smc' # 1
        BY <1>1
    <3> QED BY <3>1 DEF SlaveMapped
  <2>2. \A d \in Dirs : Turns(d)' = Turns(d)
      BY <2>1, TurnsStay DEF Next
  <2>3. \A s, d : InTurn(s, d)' = (pc = d /\ slave = s)
      BY <1>1 DEF InTurn
  <2> QED BY <2>2, <2>3 DEF InTurn
<1>7. OwnerInv'
  <2> SUFFICES ASSUME NEW f \in fmmus'
               PROVE  /\ f.slave \in Slaves /\ f.dir \in Dirs /\ f.length > 0
                      /\ found'[f.slave][f.dir] # <<>>
                      /\ f.slave <= Turns(f.dir)' \/ (InTurn(f.slave, f.dir)' /\ 8 * mark' <= f.from)
      BY DEF OwnerInv
  <2>1. CASE f \in fmmus
      BY <1>1, <1>6, <2>1 DEF FmmuInv, OwnerInv
  <2>2. CASE f = g
    <3>1. f.length > 0
        BY <1>2, <1>3, <2>2
    <3> QED BY <1>0, <1>1, <1>3, <1>5, <1>6, <2>2, <3>1 DEF Current
  <2> QED BY <1>4, <2>1, <2>2
<1>8. SideInv'
  <2> SUFFICES ASSUME OutputsDone, NEW f \in fmmus'
               PROVE  IF f.dir = "out" THEN f.from + f.length <= 8 * group.Obytes
                                       ELSE 8 * group.Obytes <= f.from
      BY <1>1 DEF SideInv, OutputsDone, Sending
  <2>1. CASE f \in fmmus
      BY <2>1 DEF FmmuInv, SideInv
  <2>2. CASE f = g
    <3>1. f.dir # "out"
        BY <1>1, <1>3, <2>2 DEF OutputsDone, Sending, Dirs
    <3>2. group.Obytes \in Nat /\ group.Obytes <= mark
        BY <1>0 DEF GroupInv, TypeOK
    <3>3. 8 * group.Obytes <= f.from
        BY <1>0, <1>3, <1>5, <2>2, <3>2
    <3> QED BY <3>1, <3>3
  <2> QED BY <1>4, <2>1, <2>2
<1>9. ServedInv'
  <2> SUFFICES ASSUME NEW s \in Slaves, NEW d \in Dirs, found[s][d] # <<>>,
                      s <= Turns(d) \/ InTurn(s, d)'
               PROVE  \E f \in fmmus' : f.slave = s /\ f.dir = d
      BY <1>1, <1>6 DEF ServedInv, Of
  <2>1. CASE s <= Turns(d)
    <3>1. \E f \in fmmus : f.slave = s /\ f.dir = d
        BY <2>1 DEF FmmuInv, ServedInv, Of
    <3> QED BY <1>4, <3>1
  <2>2. CASE InTurn(s, d)'
      BY <1>3, <1>4, <1>6, <2>2
  <2> QED BY <2>1, <2>2
<1> QED BY <1>7, <1>8, <1>9 DEF FmmuInv

LEMMA FmmuTurnEnds ==
    ASSUME IInv, Placed, OrderInv, FmmuInv, SlaveMapped
    PROVE  FmmuInv'
<1>0. TypeOK /\ Known /\ LoopInv /\ slave \in Slaves /\ slave \in 1 .. N /\ N \in Nat
    BY Constants DEF IInv, TypeOK, Slaves
<1>1. /\ UNCHANGED <<found, fmmus>> /\ smc' = 1 /\ pc \in Dirs
      /\ Current # <<>> => smc > 1
      /\ group'.Obytes = group.Obytes /\ OutputsDone' = OutputsDone
  <2>1. group \in Group
      BY <1>0 DEF TypeOK, Group
  <2>2. group'.Obytes = group.Obytes
    <3>1. CASE group' = group
        BY <3>1
    <3>2. CASE group' = [group EXCEPT ![IF pc = "out" THEN "outputsWKC" ELSE "inputsWKC"] = @ + 1]
        BY <2>1, <3>2 DEF Group
    <3> QED BY <1>0, <3>1, <3>2, TurnEnds
  <2>3. pc \in Dirs /\ pc' \in {pc, IF pc = "out" THEN "outputs" ELSE "inputs"}
      BY <1>0, TurnEnds
  <2>4. OutputsDone' = OutputsDone
    <3>1. CASE pc = "out"
        BY <2>3, <3>1 DEF OutputsDone, Sending
    <3>2. CASE pc = "in"
        BY <2>3, <3>2 DEF OutputsDone, Sending
    <3> QED BY <2>3, <3>1, <3>2 DEF Dirs
  <2> QED BY <1>0, <2>2, <2>3, <2>4, TurnEnds
<1>2. /\ \A d \in Dirs : Turns(d)' = IF pc = d THEN slave ELSE Turns(d)
      /\ \A d \in Dirs : Turns(d) \in 0 .. N /\ (pc = d => Turns(d) = slave - 1)
    BY <1>0, TurnsFacts, TurnsGrow
<1>3. OwnerInv'
  <2> SUFFICES ASSUME NEW f \in fmmus
               PROVE  /\ f.slave \in Slaves /\ f.dir \in Dirs /\ f.length > 0
                      /\ found[f.slave][f.dir] # <<>>
                      /\ f.slave <= Turns(f.dir)'
      BY <1>1 DEF OwnerInv
  <2>1. /\ f.slave \in Slaves /\ f.dir \in Dirs /\ f.length > 0
        /\ found[f.slave][f.dir] # <<>>
        /\ f.slave <= Turns(f.dir) \/ InTurn(f.slave, f.dir)
      BY DEF FmmuInv, OwnerInv
  <2>2. PICK s \in 1 .. N, d \in Dirs : s = f.slave /\ d = f.dir
      BY <2>1 DEF Slaves
  <2>3. s <= Turns(d) \/ (pc = d /\ slave = s)
      BY <2>1, <2>2 DEF InTurn
  <2>4. s <= Turns(d)'
    <3>1. CASE pc = d
      <4>1. Turns(d)' = slave /\ Turns(d) = slave - 1
          BY <1>2, <3>1
      <4> QED BY <1>0, <2>3, <4>1
    <3>2. CASE pc # d
        BY <1>2, <2>3, <3>2
    <3> QED BY <3>1, <3>2
  <2> QED BY <2>1, <2>2, <2>4
<1>4. SideInv'
    BY <1>1 DEF FmmuInv, SideInv
<1>5. ServedInv'
  <2> SUFFICES ASSUME NEW s \in Slaves, NEW d \in Dirs, found[s][d] # <<>>, s <= Turns(d)'
               PROVE  Of(s, d) # {}
    <3>1. \A s, d : ~InTurn(s, d)'
        BY <1>1 DEF InTurn
    <3> QED BY <1>1, <3>1 DEF ServedInv, Of
  <2>1. s \in 1 .. N
      BY DEF Slaves
  <2>2. s <= Turns(d) \/ (pc = d /\ slave = s)
      BY <1>0, <1>2, <2>1
  <2>3. s <= Turns(d) \/ InTurn(s, d)
      BY <1>1, <2>2 DEF InTurn, Current
  <2> QED BY <2>3 DEF FmmuInv, ServedInv
<1> QED BY <1>3, <1>4, <1>5 DEF FmmuInv

LEMMA FmmuOthers ==
    ASSUME IInv, Placed, OrderInv, FmmuInv,
           OutputsMapped \/ InputsMapped \/ Send \/ SendFrame
    PROVE  FmmuInv'
<1>0. TypeOK /\ LoopInv /\ group \in Group /\ pos \in Nat /\ SegmentsInv
    BY DEF IInv, TypeOK, Group
<1>1. UNCHANGED <<found, fmmus, smc, slave>> /\ pc \notin Dirs
    BY DEF OutputsMapped, InputsMapped, Send, SendFrame, mapping, Dirs
<1>2. smc = 1 /\ \A s, d : ~InTurn(s, d) /\ ~InTurn(s, d)'
    BY <1>0, <1>1 DEF LoopInv, InTurn
<1>3. \A d \in Dirs : Turns(d)' = Turns(d)
  <2>1. ~SlaveMapped
      BY <1>1 DEF SlaveMapped
  <2> QED BY <2>1, TurnsStay DEF Next
<1>4. OwnerInv' /\ ServedInv'
  <2>1. OwnerInv'
      BY <1>1, <1>2, <1>3 DEF FmmuInv, OwnerInv
  <2>2. ServedInv'
    <3>1. \A s, d : Of(s, d)' = Of(s, d)
        BY <1>1 DEF Of
    <3> QED BY <1>1, <1>2, <1>3, <3>1 DEF FmmuInv, ServedInv
  <2> QED BY <2>1, <2>2
<1>5. SideInv'
  <2>1. CASE OutputsMapped
    <3>1. pc = "outputs" /\ pos' \in Nat /\ pos <= pos' /\ pos' = 8 * mark' /\ mark' \in Nat
      <4>1. pc = "outputs" /\ Pad
          BY <2>1 DEF OutputsMapped
      <4>2. pos' \in Nat /\ pos' = ByteUp(pos) /\ pos' = 8 * mark' /\ mark' \in Nat
          BY <1>0, <1>1, <4>1, Pads
      <4> QED BY <1>0, <4>1, <4>2, Rounding
    <3>2. group'.Obytes = mark'
      <4>1. group' = [group EXCEPT !.Obytes = mark', !.Isegment = Len(IOsegment'), !.Ioffset = size']
          BY <2>1 DEF OutputsMapped, Pad
      <4> QED BY <1>0, <4>1 DEF Group
    <3> SUFFICES ASSUME NEW f \in fmmus
                 PROVE  f.dir = "out" /\ f.from + f.length <= 8 * mark'
        BY <1>1, <3>2 DEF SideInv
    <3>3. f.from \in Nat /\ f.length \in Nat /\ f.from + f.length <= pos
        BY FmmuTypes
    <3>4. f.dir \in Dirs /\ f.slave \in Slaves /\ f.slave <= Turns(f.dir)
        BY <1>2 DEF FmmuInv, OwnerInv
    <3>5. Turns("in") = 0
        BY <3>1 DEF Turns
    <3>6. f.dir # "in"
        BY <3>4, <3>5, Constants DEF Slaves
    <3>7. f.from + f.length <= 8 * mark'
      <4>1. \A a, b, x, y \in Nat : a + b <= x /\ x <= y => a + b <= y
          OBVIOUS
      <4>2. f.from + f.length <= pos'
          BY <1>0, <3>1, <3>3, <4>1
      <4> QED BY <3>1, <4>2
    <3> QED BY <3>4, <3>6, <3>7 DEF Dirs
  <2>2. CASE InputsMapped \/ Send \/ SendFrame
    <3>1. group'.Obytes = group.Obytes
      <4>1. CASE InputsMapped
          BY <1>0, <4>1 DEF InputsMapped, Group
      <4>2. CASE Send \/ SendFrame
          BY <4>2 DEF Send, SendFrame
      <4> QED BY <2>2, <4>1, <4>2
    <3>2. OutputsDone
        BY <2>2 DEF InputsMapped, Send, SendFrame, OutputsDone, Sending
    <3> QED BY <1>1, <3>1, <3>2 DEF FmmuInv, SideInv
  <2> QED BY <2>1, <2>2
<1> QED BY <1>4, <1>5 DEF FmmuInv

LEMMA FmmuNext == IInv /\ Placed /\ OrderInv /\ FmmuInv /\ [Next]_vars => FmmuInv'
<1> SUFFICES ASSUME IInv, Placed, OrderInv, FmmuInv, [Next]_vars PROVE FmmuInv'
    OBVIOUS
<1>1. CASE UNCHANGED vars
  <2>1. UNCHANGED <<found, fmmus, pc, slave, smc, mark, group>>
      BY <1>1 DEF vars, mapping, segments
  <2>2. /\ \A d : Turns(d)' = Turns(d)
        /\ \A s, d : InTurn(s, d)' = InTurn(s, d) /\ Of(s, d)' = Of(s, d)
        /\ OutputsDone' = OutputsDone
      BY <2>1 DEF Turns, Finding, InTurn, Of, OutputsDone, Sending
  <2>3. OwnerInv'
      BY <2>1, <2>2 DEF FmmuInv, OwnerInv
  <2>4. SideInv'
      BY <2>1, <2>2 DEF FmmuInv, SideInv
  <2>5. ServedInv'
      BY <2>1, <2>2 DEF FmmuInv, ServedInv
  <2> QED BY <2>3, <2>4, <2>5 DEF FmmuInv
<1> QED BY <1>1, FmmuFinding, FmmuCreated, FmmuTurnEnds, FmmuOthers DEF Next
-----------------------------------------------------------------------------
(***************************************************************************)
(* Slaves of at least a byte: what a slave has of a direction lies in one  *)
(* segment.                                                                *)
(***************************************************************************)
InSegment(f, k) == 8 * Cut(k - 1) <= f.from /\ f.from + f.length <= 8 * Cut(k)
Together(s, d) == \E k \in 1 .. nsegments : \A f \in Of(s, d) : InSegment(f, k)
TogetherInv ==
    OnlyBytes /\ Enough =>
        /\ pos % 8 = 0
        /\ \A s \in Slaves, d \in Dirs : s <= Turns(d) => Together(s, d)

LEMMA CutsKept ==
    ASSUME TypeOK, SegmentsInv, NEW diff \in Nat, Account(diff), mark' = mark + diff, Enough'
    PROVE  /\ nsegments' \in Nat /\ nsegments \in Nat \ {0} /\ nsegments <= nsegments'
           /\ \A k \in 1 .. nsegments : /\ Cut(k - 1) \in Nat /\ Cut(k) \in Nat /\ Cut(k)' \in Nat
                                        /\ Cut(k - 1)' = Cut(k - 1) /\ Cut(k) <= Cut(k)'
           /\ CutOf(IOsegment', size', nsegments' - 1) <= mark
           /\ CutOf(IOsegment', size', nsegments' - 1) \in Nat
           /\ CutOf(IOsegment', size', nsegments') = mark'
<1>1. /\ IOsegment \in Seq(Nat) /\ Len(IOsegment) \in Nat /\ size \in Nat /\ mark \in Nat
      /\ nsegments = Len(IOsegment) + 1 /\ nsegments' = Len(IOsegment') + 1
    BY DEF TypeOK, nsegments
<1>2. /\ IOsegment' \in Seq(Nat) /\ Len(IOsegment') \in Nat /\ size' \in Nat
      /\ Len(IOsegment) <= Len(IOsegment')
    BY AccountType
<1>3. /\ Enough /\ Cut(nsegments) = mark
      /\ \A k \in 0 .. Len(IOsegment) : Cut(k)' = Cut(k)
      /\ \A k \in 1 .. Len(IOsegment) + 1 :
            SizeOf(IOsegment, size, k) <= SizeOf(IOsegment, size, k)'
      /\ CutOf(IOsegment', size', nsegments') = mark'
    BY Counted DEF SegmentsInv, Cut
<1>4. \A k \in 1 .. nsegments :
          /\ Cut(k - 1) \in Nat /\ Cut(k) \in Nat /\ Cut(k) = Cut(k - 1) + SizeOf(IOsegment, size, k)
          /\ SizeOf(IOsegment, size, k) \in Nat
  <2>1. \A k \in 1 .. nsegments : k \in 0 .. Len(IOsegment) + 1 /\ k - 1 \in 0 .. Len(IOsegment) + 1
      BY <1>1
  <2> QED BY <1>1, <2>1, CutRule DEF Cut
<1>5. \A segs \in Seq(Nat), last \in Nat, k \in Nat :
          k \in 1 .. Len(segs) + 1 =>
              /\ CutOf(segs, last, k - 1) \in Nat /\ CutOf(segs, last, k) \in Nat
              /\ CutOf(segs, last, k) = CutOf(segs, last, k - 1) + SizeOf(segs, last, k)
              /\ SizeOf(segs, last, k) \in Nat
  <2> TAKE segs \in Seq(Nat), last \in Nat, k \in Nat
  <2> HAVE k \in 1 .. Len(segs) + 1
  <2>1. k \in 0 .. Len(segs) + 1 /\ k - 1 \in 0 .. Len(segs) + 1
      OBVIOUS
  <2> QED BY <2>1, CutRule
<1>6. ASSUME NEW k \in 1 .. nsegments
      PROVE  /\ Cut(k - 1) \in Nat /\ Cut(k) \in Nat /\ Cut(k)' \in Nat
             /\ Cut(k - 1)' = Cut(k - 1) /\ Cut(k) <= Cut(k)'
  <2>1. k - 1 \in 0 .. Len(IOsegment) /\ k \in 1 .. Len(IOsegment) + 1
        /\ k \in 1 .. Len(IOsegment') + 1 /\ k \in Nat
      BY <1>1, <1>2
  <2>2. Cut(k - 1)' = Cut(k - 1)
      BY <1>3, <2>1
  <2>3. /\ Cut(k)' \in Nat /\ Cut(k)' = Cut(k - 1)' + SizeOf(IOsegment, size, k)'
        /\ SizeOf(IOsegment, size, k)' \in Nat
      BY <1>2, <1>5, <2>1 DEF Cut
  <2>4. SizeOf(IOsegment, size, k) <= SizeOf(IOsegment, size, k)'
      BY <1>3, <2>1
  <2> QED BY <1>4, <2>2, <2>3, <2>4
<1>7. /\ CutOf(IOsegment', size', nsegments' - 1) \in Nat
      /\ CutOf(IOsegment', size', nsegments' - 1) <= mark
  <2>1. CASE IOsegment' = IOsegment
    <3>1. nsegments' - 1 = Len(IOsegment) /\ nsegments - 1 = Len(IOsegment)
          /\ nsegments \in 1 .. nsegments
        BY <1>1, <2>1
    <3>2. Cut(nsegments - 1)' = Cut(nsegments - 1) /\ Cut(nsegments - 1) \in Nat
          /\ Cut(nsegments - 1) <= Cut(nsegments)
      <4> PICK n : n = nsegments
          OBVIOUS
      <4>1. Cut(n - 1)' = Cut(n - 1)
          BY <1>6, <3>1
      <4>2. nsegments' = nsegments
          BY <1>1, <2>1
      <4>3. Cut(n) = Cut(n - 1) + SizeOf(IOsegment, size, n) /\ Cut(n - 1) \in Nat
            /\ SizeOf(IOsegment, size, n) \in Nat
          BY <1>4, <3>1
      <4> QED BY <4>1, <4>2, <4>3
    <3> QED BY <1>3, <3>1, <3>2 DEF Cut
  <2>2. CASE IOsegment' = Append(IOsegment, size) /\ size' = diff
    <3>1. nsegments' - 1 = Len(IOsegment) + 1
        BY <1>1, <2>2
    <3>2. CutOf(IOsegment', size', Len(IOsegment) + 1) = CutOf(IOsegment, size, Len(IOsegment) + 1)
      <4>1. Len(IOsegment) + 1 \in 0 .. Len(IOsegment) + 1
          BY <1>1
      <4> QED BY <1>1, <2>2, <4>1, CutsStay
    <3>3. CutOf(IOsegment, size, Len(IOsegment) + 1) = mark
        BY <1>1, <1>3 DEF Cut
    <3>4. mark <= mark
        BY <1>1
    <3> QED BY <1>1, <3>1, <3>2, <3>3, <3>4
  <2> QED BY <2>1, <2>2, Accounts
<1> QED BY <1>1, <1>2, <1>3, <1>6, <1>7

(* What lies in a segment still does when the segments go on.              *)
LEMMA StaysIn ==
    ASSUME TypeOK, SegmentsInv, Placed, fmmus' = fmmus, Enough',
           \/ UNCHANGED <<IOsegment, size>>
           \/ \E diff \in Nat : Account(diff) /\ mark' = mark + diff,
           NEW s, NEW d, Together(s, d)
    PROVE  Together(s, d)'
<1>1. CASE UNCHANGED <<IOsegment, size>>
    BY <1>1 DEF Together, Of, InSegment, Cut, nsegments
<1>2. CASE \E diff \in Nat : Account(diff) /\ mark' = mark + diff
  <2>1. /\ nsegments' \in Nat /\ nsegments \in Nat \ {0} /\ nsegments <= nsegments'
        /\ \A k \in 1 .. nsegments : /\ Cut(k - 1) \in Nat /\ Cut(k) \in Nat /\ Cut(k)' \in Nat
                                     /\ Cut(k - 1)' = Cut(k - 1) /\ Cut(k) <= Cut(k)'
      BY <1>2, CutsKept
  <2>2. PICK k \in 1 .. nsegments : \A f \in Of(s, d) : InSegment(f, k)
      BY DEF Together
  <2>3. ASSUME NEW f \in Of(s, d) PROVE 8 * Cut(k - 1)' <= f.from /\ f.from + f.length <= 8 * Cut(k)'
    <3>1. f.from \in Nat /\ f.length \in Nat
        BY FmmuTypes DEF Of
    <3>2. 8 * Cut(k - 1) <= f.from /\ f.from + f.length <= 8 * Cut(k)
        BY <2>2 DEF InSegment
    <3>3. Cut(k - 1)' = Cut(k - 1) /\ Cut(k) <= Cut(k)' /\ Cut(k) \in Nat /\ Cut(k)' \in Nat
        BY <2>1
    <3> QED BY <3>1, <3>2, <3>3
  <2>4. k \in 1 .. nsegments'
      BY <2>1
  <2>5. Of(s, d)' = Of(s, d)
      BY DEF Of
  <2> QED BY <2>3, <2>4, <2>5 DEF Together, InSegment
<1> QED BY <1>1, <1>2

LEMMA TogetherCreated ==
    ASSUME IInv, Placed, OrderInv, FmmuInv, TogetherInv, CreateMapping
    PROVE  TogetherInv'
<1> SUFFICES ASSUME OnlyBytes, Enough
             PROVE  /\ pos' % 8 = 0
                    /\ \A s \in Slaves, d \in Dirs : s <= Turns(d)' => Together(s, d)'
    BY DEF TogetherInv, CreateMapping, segments, OnlyBytes, Enough, nsegments
<1>0. TypeOK /\ Known /\ LoopInv /\ slave \in 1 .. N /\ N \in Nat /\ slave \in Slaves
    BY Constants DEF IInv, TypeOK, Slaves
<1>1. pc \in Dirs /\ Current # <<>> /\ UNCHANGED <<IOsegment, size>>
    BY <1>0, Mapping
<1>2. Bits(Current) > 7
    BY <1>0, <1>1 DEF OnlyBytes, Current
<1>3. pos' % 8 = 0
    BY <1>0, <1>2, Mapping
<1>4. \A d \in Dirs : Turns(d)' = Turns(d)
  <2>1. ~SlaveMapped
      BY DEF CreateMapping, SlaveMapped
  <2> QED BY <2>1, TurnsStay DEF Next
<1>5. ASSUME NEW s \in Slaves, NEW d \in Dirs, s <= Turns(d) PROVE Together(s, d)'
  <2>1. ~(s = slave /\ d = pc)
      BY <1>0, <1>5, TurnsFacts DEF Slaves
  <2>2. \E from, length : fmmus' = fmmus \cup {Fmmu(from, length)}
    <3>1. \E from \in Nat, length \in Nat \ {0} : fmmus' = fmmus \cup {Fmmu(from, length)}
        BY <1>0, Mapping
    <3> QED BY <3>1
  <2>3. Of(s, d)' = Of(s, d)
      BY <2>1, <2>2 DEF Of, Fmmu
  <2>4. Together(s, d)
      BY <1>5 DEF TogetherInv
  <2> QED BY <1>1, <2>3, <2>4 DEF Together, InSegment, Cut, nsegments
<1> QED BY <1>3, <1>4, <1>5

LEMMA TogetherTurnEnds ==
    ASSUME IInv, Placed, OrderInv, FmmuInv, TogetherInv, SlaveMapped
    PROVE  TogetherInv'
<1>0. TypeOK /\ Known /\ LoopInv /\ SegmentsInv /\ slave \in 1 .. N /\ N \in Nat /\ slave \in Slaves
      /\ mark \in Nat /\ pos \in Nat
    BY Constants DEF IInv, TypeOK, Slaves
<1>1. /\ pc \in Dirs /\ UNCHANGED <<found, pos, fmmus>> /\ mark' = pos \div 8
      /\ (pos \div 8) - mark \in Nat /\ mark' = mark + ((pos \div 8) - mark)
      /\ IF Current = <<>> THEN mark' = mark /\ UNCHANGED <<IOsegment, size>>
                           ELSE smc > 1 /\ Account((pos \div 8) - mark)
  <2>1. /\ pc \in Dirs /\ UNCHANGED <<found, pos, fmmus>> /\ mark' = pos \div 8
        /\ (pos \div 8) - mark \in Nat /\ pos \div 8 \in Nat
        /\ IF Current = <<>> THEN mark' = mark /\ UNCHANGED <<IOsegment, size>>
                             ELSE smc > 1 /\ Account((pos \div 8) - mark)
      BY <1>0, TurnEnds
  <2> QED BY <1>0, <2>1
<1>2. Enough' => Enough
  <2>1. CASE UNCHANGED <<IOsegment, size>>
      BY <2>1 DEF Enough, nsegments
  <2>2. CASE Account((pos \div 8) - mark)
      BY <1>0, <1>1, <2>2, Counted
  <2> QED BY <1>1, <2>1, <2>2
<1> SUFFICES ASSUME OnlyBytes, Enough, Enough'
             PROVE  /\ pos' % 8 = 0
                    /\ \A s \in Slaves, d \in Dirs : s <= Turns(d)' => Together(s, d)'
    BY <1>1, <1>2 DEF TogetherInv, OnlyBytes
<1>3. pos % 8 = 0
    BY DEF TogetherInv
<1>4. ASSUME NEW s \in Slaves, NEW d \in Dirs, s <= Turns(d) PROVE Together(s, d)'
  <2>1. Together(s, d)
      BY <1>4 DEF TogetherInv
  <2>2. \/ UNCHANGED <<IOsegment, size>>
        \/ \E diff \in Nat : Account(diff) /\ mark' = mark + diff
      BY <1>1
  <2> QED BY <1>0, <1>1, <2>1, <2>2, StaysIn
<1>5. ASSUME NEW s, NEW d, s = slave, d = pc PROVE Together(s, d)'
  <2>1. CASE Current = <<>>
    <3>1. Of(s, d) = {}
        BY <1>5, <2>1 DEF FmmuInv, OwnerInv, Of, Current
    <3>2. nsegments' \in Nat \ {0}
      <4>1. nsegments \in Nat \ {0} /\ nsegments' = nsegments
          BY <1>0, <1>1, <2>1, SegmentFacts DEF nsegments
      <4> QED BY <4>1
    <3>3. 1 \in 1 .. nsegments' /\ Of(s, d)' = {}
        BY <1>1, <3>1, <3>2 DEF Of
    <3> QED BY <3>3 DEF Together
  <2>2. CASE Current # <<>>
    <3>1. smc > 1 /\ Account((pos \div 8) - mark)
        BY <1>1, <2>2
    <3>2. /\ nsegments' \in Nat /\ nsegments \in Nat \ {0} /\ nsegments <= nsegments'
          /\ CutOf(IOsegment', size', nsegments' - 1) <= mark
          /\ CutOf(IOsegment', size', nsegments' - 1) \in Nat
          /\ CutOf(IOsegment', size', nsegments') = mark'
        BY <1>0, <1>1, <3>1, CutsKept
    <3> PICK k : k = nsegments'
        OBVIOUS
    <3>3. k \in 1 .. nsegments'
        BY <3>2
    <3>4. Cut(k - 1)' <= mark /\ Cut(k - 1)' \in Nat /\ Cut(k)' = mark'
        BY <3>2 DEF Cut
    <3>5. ASSUME NEW f \in Of(s, d)
          PROVE  8 * Cut(k - 1)' <= f.from /\ f.from + f.length <= 8 * Cut(k)'
      <4>1. f \in fmmus /\ f.from \in Nat /\ f.length \in Nat /\ f.from + f.length <= pos
          BY FmmuTypes DEF Of
      <4>2. f.slave = slave /\ f.dir = pc
          BY <1>5 DEF Of
      <4>3. f.slave <= Turns(f.dir) \/ 8 * mark <= f.from
          BY <4>1 DEF FmmuInv, OwnerInv
      <4>4. Turns(pc) = slave - 1
          BY <1>0, <1>1, TurnsFacts
      <4>5. 8 * mark <= f.from
          BY <1>0, <4>2, <4>3, <4>4
      <4>6. 8 * mark' = pos
          BY <1>0, <1>1, <1>3
      <4>7. 8 * Cut(k - 1)' <= f.from
          BY <1>0, <3>4, <4>1, <4>5
      <4> QED BY <3>4, <4>1, <4>6, <4>7
    <3>6. Of(s, d)' = Of(s, d)
        BY <1>1 DEF Of
    <3> QED BY <3>3, <3>5, <3>6 DEF Together, InSegment
  <2> QED BY <2>1, <2>2
<1>6. \A d \in Dirs : Turns(d)' = IF pc = d THEN slave ELSE Turns(d)
    BY TurnsGrow
<1>7. ASSUME NEW s \in Slaves, NEW d \in Dirs, s <= Turns(d)' PROVE Together(s, d)'
  <2>1. s <= Turns(d) \/ (pc = d /\ slave = s)
      BY <1>0, <1>6, <1>7, TurnsFacts DEF Slaves
  <2>2. CASE s <= Turns(d)
      BY <1>4, <2>2
  <2>3. CASE s = slave /\ d = pc
      BY <1>5, <2>3
  <2> QED BY <2>1, <2>2, <2>3
<1> QED BY <1>1, <1>3, <1>7

LEMMA TogetherNext == IInv /\ Placed /\ OrderInv /\ FmmuInv /\ TogetherInv /\ [Next]_vars => TogetherInv'
<1> SUFFICES ASSUME IInv, Placed, OrderInv, FmmuInv, TogetherInv, [Next]_vars PROVE TogetherInv'
    OBVIOUS
<1>0. TypeOK /\ pos \in Nat /\ SegmentsInv
    BY DEF IInv, TypeOK
<1>1. CASE MapCoe \/ MapSii
  <2>1. pos = 0 /\ pos' = 0 /\ Finding /\ ~SlaveMapped
      BY <1>1, FindingKeeps DEF IInv, Begun, LoopInv, Finding, SlaveMapped, Dirs, MapCoe, MapSii
  <2>2. \A d \in Dirs : Turns(d)' = 0
    <3>1. \A d \in Dirs : Turns(d) = 0
        BY <2>1 DEF Turns, Finding, Dirs
    <3> QED BY <2>1, <3>1, TurnsStay
  <2>3. \A s \in Slaves : ~(s <= 0)
      BY Constants DEF Slaves
  <2> QED BY <2>1, <2>2, <2>3 DEF TogetherInv
<1>2. CASE Send \/ SendFrame \/ UNCHANGED vars \/ OutputsMapped \/ InputsMapped
  <2>0. ~SlaveMapped \/ UNCHANGED vars
      BY <1>2 DEF SlaveMapped, Send, SendFrame, OutputsMapped, InputsMapped, Dirs
  <2>1. found' = found /\ fmmus' = fmmus /\ \A d \in Dirs : Turns(d)' = Turns(d)
    <3>1. found' = found /\ fmmus' = fmmus
        BY <1>2 DEF Send, SendFrame, OutputsMapped, InputsMapped, vars, mapping
    <3>2. CASE UNCHANGED vars
        BY <3>1, <3>2 DEF vars, Turns, Finding
    <3>3. CASE ~SlaveMapped
        BY <3>1, <3>3, TurnsStay
    <3> QED BY <2>0, <3>1, <3>2, <3>3
  <2> SUFFICES ASSUME OnlyBytes, Enough'
               PROVE  /\ pos' % 8 = 0
                      /\ \A s \in Slaves, d \in Dirs : s <= Turns(d) => Together(s, d)'
      BY <2>1 DEF TogetherInv, OnlyBytes
  <2>2. (Enough => pos % 8 = 0) /\ (Enough => \A s \in Slaves, d \in Dirs : s <= Turns(d) => Together(s, d))
      BY DEF TogetherInv
  <2>3. CASE Send \/ SendFrame \/ UNCHANGED vars
    <3>1. UNCHANGED <<pos, IOsegment, size>>
        BY <2>3 DEF Send, SendFrame, vars, segments
    <3>2. Enough
        BY <3>1 DEF Enough, nsegments
    <3> QED BY <1>0, <2>1, <2>2, <3>1, <3>2, StaysIn
  <2>4. CASE OutputsMapped \/ InputsMapped
    <3>1. Pad /\ pc \notin Dirs /\ LoopInv
        BY <2>4 DEF OutputsMapped, InputsMapped, Dirs, IInv
    <3>2. Enough
      <4>1. CASE UNCHANGED <<IOsegment, size>>
          BY <4>1 DEF Enough, nsegments
      <4>2. CASE mark' = mark + 1 /\ Account(1)
          BY <1>0, <4>2, Counted
      <4> QED BY <1>0, <3>1, <4>1, <4>2, Pads
    <3>3. pos' = pos /\ UNCHANGED <<IOsegment, size>>
        BY <1>0, <2>2, <3>1, <3>2, Rounding DEF Pad
    <3> QED BY <1>0, <2>1, <2>2, <3>2, <3>3, StaysIn
  <2> QED BY <1>2, <2>3, <2>4
<1> QED BY <1>1, <1>2, TogetherCreated, TogetherTurnEnds DEF Next
-----------------------------------------------------------------------------
(***************************************************************************)
(* A slave adds what is expected of it to the working counter.             *)
(***************************************************************************)
FramesInv ==
    \A k \in DOMAIN frames :
        /\ frames[k].cmd \in Cmds
        /\ Enough => \E m \in 1 .. nsegments :
                        /\ frames[k].adr = Larger(Cut(m - 1), First(frames[k].cmd))
                        /\ frames[k].adr + frames[k].length <= Cut(m)

LEMMA FramesNext == IInv /\ SendInv /\ FramesInv /\ [Next]_vars => FramesInv'
<1> SUFFICES ASSUME IInv, SendInv, FramesInv, [Next]_vars PROVE FramesInv'
    OBVIOUS
<1>1. CASE \/ MapCoe \/ MapSii \/ CreateMapping \/ SlaveMapped \/ OutputsMapped \/ InputsMapped
           \/ Send
  <2>1. frames = <<>>
      BY <1>1 DEF IInv, Begun, Sending, MapCoe, MapSii, CreateMapping, SlaveMapped,
                  OutputsMapped, InputsMapped, Send, Dirs
  <2>2. frames' = frames
      BY <1>1 DEF MapCoe, MapSii, CreateMapping, SlaveMapped, OutputsMapped, InputsMapped,
                  Send, sending
  <2>3. DOMAIN frames' = {}
      BY <2>1, <2>2
  <2> QED BY <2>3 DEF FramesInv
<1>2. CASE UNCHANGED vars
  <2>1. UNCHANGED <<lrw, mark, IOsegment, size, group, frames>>
      BY <1>2 DEF vars, config, segments, sending
  <2> QED BY <2>1 DEF FramesInv, Cmds, Enough, nsegments, Cut, First
<1>3. CASE SendFrame
  <2> DEFINE f == [cmd |-> pc, adr |-> turn.adr, length |-> Sublength]
  <2>1. /\ TypeOK /\ Looping /\ frames \in Seq(Frame) /\ frames' = Append(frames, f)
        /\ UNCHANGED <<lrw, mark, IOsegment, size, group>>
      BY <1>3 DEF IInv, TypeOK, Frame, SendFrame, Looping, config, segments
  <2>2. f.cmd = pc /\ f.adr = turn.adr /\ f.length = Sublength
      OBVIOUS
  <2> HIDE DEF f
  <2>3. \A k \in DOMAIN frames' : \/ k \in DOMAIN frames /\ frames'[k] = frames[k]
                                  \/ frames'[k] = f
      BY <2>1
  <2>5. /\ pc \in Cmds
        /\ Enough => turn.adr = Larger(Cut(turn.seg - 1), First(pc))
      BY <2>1 DEF SendInv, Looping
  <2>6. turn.seg \in 1 .. nsegments
      BY <2>1, FrameFacts
  <2>7. Enough => turn.adr + Sublength <= Cut(turn.seg)
      BY <2>1, FrameEnds
  <2>8. /\ f.cmd \in Cmds
        /\ Enough => \E m \in 1 .. nsegments : /\ f.adr = Larger(Cut(m - 1), First(f.cmd))
                                               /\ f.adr + f.length <= Cut(m)
      BY <2>2, <2>5, <2>6, <2>7
  <2> SUFFICES ASSUME NEW k \in DOMAIN frames'
               PROVE  /\ frames'[k].cmd \in Cmds
                      /\ Enough => \E m \in 1 .. nsegments :
                             /\ frames'[k].adr = Larger(Cut(m - 1), First(frames'[k].cmd))
                             /\ frames'[k].adr + frames'[k].length <= Cut(m)
    BY <2>1 DEF FramesInv, First, Cut, Enough, nsegments, Cmds
  <2> QED BY <2>3, <2>8 DEF FramesInv
<1> QED BY <1>1, <1>2, <1>3 DEF Next

Reading(d) == IF d = "in" THEN "LWR" ELSE "LRD"
Settled ==
    /\ IInv /\ Placed /\ SendInv /\ FmmuInv /\ TogetherInv /\ CountInv /\ FramesInv
    /\ pc = "sent" /\ Enough /\ (OnlyBytes \/ nsegments = 1)

(* A slave's FMMUs of a direction lie in one segment, behind the first     *)
(* byte of the command and before the last.                                *)
LEMMA Lies ==
    ASSUME Settled, NEW s \in Slaves, NEW d \in Dirs, NEW cmd \in Cmds, cmd # Reading(d)
    PROVE  /\ Together(s, d)
           /\ found[s][d] # <<>> => Of(s, d) # {}
           /\ found[s][d] = <<>> => Of(s, d) = {}
           /\ First(cmd) \in Nat /\ After(cmd) \in Nat
           /\ \A f \in Of(s, d) : /\ f.from \in Nat /\ f.length \in Nat \ {0}
                                  /\ 8 * First(cmd) <= f.from
                                  /\ f.from + f.length <= 8 * After(cmd)
<1>1. /\ TypeOK /\ Sending /\ OutputsDone /\ mark \in Nat /\ pos = 8 * mark /\ pos \in Nat
      /\ Cut(nsegments) = mark /\ nsegments \in Nat \ {0} /\ Cut(0) = 0
      /\ group.Obytes \in Nat /\ group.Obytes <= mark
  <2>1. TypeOK /\ Sending /\ OutputsDone /\ mark \in Nat /\ pos \in Nat
      BY DEF Settled, IInv, TypeOK, Sending, OutputsDone
  <2>2. pos = 8 * mark /\ Cut(nsegments) = mark /\ group.Obytes <= mark
      BY <2>1 DEF Settled, IInv, LoopInv, SegmentsInv, GroupInv
  <2>3. group.Obytes \in Nat
      BY <2>1 DEF TypeOK
  <2> QED BY <2>1, <2>2, <2>3, SegmentFacts
<1>2. Turns(d) = N /\ s <= Turns(d)
    BY Constants DEF Turns, Finding, Settled, Dirs, Slaves
<1>3. \A f \in Of(s, d) : /\ f \in fmmus /\ f.from \in Nat /\ f.length \in Nat \ {0}
                          /\ f.from + f.length <= 8 * mark /\ f.dir = d
  <2> TAKE f \in Of(s, d)
  <2>1. f \in fmmus /\ f.dir = d
      BY DEF Of
  <2>2. f.from \in Nat /\ f.length \in Nat /\ f.from + f.length <= pos
      BY <2>1, FmmuTypes DEF Settled
  <2>3. f.length > 0
      BY <2>1 DEF Settled, FmmuInv, OwnerInv
  <2> QED BY <1>1, <2>1, <2>2, <2>3
<1>4. Together(s, d)
  <2>1. CASE OnlyBytes
      BY <1>2, <2>1 DEF Settled, TogetherInv
  <2>2. CASE nsegments = 1
    <3>1. 1 \in 1 .. nsegments /\ Cut(1) = mark /\ Cut(1 - 1) = 0
        BY <1>1, <2>2
    <3>2. \A f \in Of(s, d) : InSegment(f, 1)
        BY <1>3, <3>1 DEF InSegment
    <3> QED BY <3>1, <3>2 DEF Together
  <2> QED BY <2>1, <2>2 DEF Settled
<1>5. found[s][d] # <<>> => Of(s, d) # {}
    BY <1>2 DEF Settled, FmmuInv, ServedInv
<1>6. found[s][d] = <<>> => Of(s, d) = {}
    BY DEF Settled, FmmuInv, OwnerInv, Of
<1>7. First(cmd) \in Nat /\ After(cmd) \in Nat
    BY <1>1 DEF First, After
<1>8. ASSUME NEW f \in Of(s, d)
      PROVE  8 * First(cmd) <= f.from /\ f.from + f.length <= 8 * After(cmd)
  <2>1. IF d = "out" THEN f.from + f.length <= 8 * group.Obytes ELSE 8 * group.Obytes <= f.from
      BY <1>1, <1>3 DEF Settled, FmmuInv, SideInv
  <2>2. f.from \in Nat /\ f.length \in Nat /\ f.from + f.length <= 8 * mark
      BY <1>3
  <2>3. CASE d = "out"
    <3>1. First(cmd) = 0 /\ (After(cmd) = mark \/ After(cmd) = group.Obytes)
        BY <2>3 DEF First, After, Reading
    <3> QED BY <2>1, <2>2, <2>3, <3>1
  <2>4. CASE d = "in"
    <3>1. After(cmd) = mark /\ (First(cmd) = 0 \/ First(cmd) = group.Obytes) /\ d # "out"
        BY <2>4 DEF First, After, Reading
    <3> QED BY <2>1, <2>2, <3>1
  <2> QED BY <2>3, <2>4 DEF Dirs
<1> QED BY <1>3, <1>4, <1>5, <1>6, <1>7, <1>8

(* One frame of the command meets them, and no other.                      *)
LEMMA OneMeets ==
    ASSUME Settled, NEW s \in Slaves, NEW d \in Dirs, NEW cmd \in Cmds, cmd # Reading(d),
           found[s][d] # <<>>
    PROVE  \E i \in OfCmd(frames, cmd) :
              /\ Meets(s, d, frames[i])
              /\ \A j \in OfCmd(frames, cmd) : Meets(s, d, frames[j]) => j = i
<1>0. TypeOK /\ nsegments \in Nat \ {0} /\ Part(frames, cmd, First(cmd), After(cmd))
  <2>1. TypeOK
      BY DEF Settled, IInv
  <2>2. Part(frames, cmd, First(cmd), After(cmd))
      BY DEF Settled, SendInv
  <2> QED BY <2>1, <2>2, SegmentFacts
<1>1. \A f \in Of(s, d) : /\ f.from \in Nat /\ f.length \in Nat \ {0}
                          /\ 8 * First(cmd) <= f.from
                          /\ f.from + f.length <= 8 * After(cmd)
    BY Lies
<1>2. First(cmd) \in Nat /\ After(cmd) \in Nat
    BY Lies
<1>3. PICK k \in 1 .. nsegments : \A f \in Of(s, d) : InSegment(f, k)
    BY Lies DEF Together
<1>4. /\ k \in 1 .. nsegments /\ k - 1 \in 0 .. nsegments /\ Cut(k - 1) \in Nat /\ Cut(k) \in Nat
  <2>1. k - 1 \in 0 .. nsegments /\ k \in 0 .. nsegments
      BY <1>0, <1>3
  <2> QED BY <1>0, <1>3, <2>1, SegmentFacts
<1>5. \A j \in OfCmd(frames, cmd) :
         /\ frames[j].adr \in Nat /\ frames[j].length \in Nat /\ frames[j].cmd = cmd
         /\ j \in DOMAIN frames
  <2>1. frames \in Seq(Frame)
      BY <1>0 DEF TypeOK, Frame
  <2>2. \A j \in DOMAIN frames : frames[j] \in Frame
      BY <2>1
  <2> QED BY <2>2 DEF OfCmd, Frame
<1>6. PICK f : f \in Of(s, d)
    BY Lies
<1>7. PICK i \in OfCmd(frames, cmd) : f.from \div 8 \in Bytes(frames[i])
  <2>1. f.from \div 8 \in First(cmd) .. After(cmd) - 1
    <3>1. \A x, l, a, b \in Nat : l # 0 /\ 8 * a <= x /\ x + l <= 8 * b => x \div 8 \in a .. b - 1
        OBVIOUS
    <3> QED BY <1>1, <1>2, <1>6, <3>1
  <2>2. f.from \div 8 \in AllBytes(frames, cmd)
      BY <1>0, <2>1 DEF Part
  <2> QED BY <2>2, Zenon DEF AllBytes
<1>8. Meets(s, d, frames[i])
  <2>1. /\ frames[i].adr \in Nat /\ frames[i].length \in Nat /\ f.from \in Nat /\ f.length \in Nat \ {0}
        /\ f.from \div 8 \in frames[i].adr .. frames[i].adr + frames[i].length - 1
      BY <1>1, <1>5, <1>6, <1>7 DEF Bytes
  <2>2. \A x, l, a, n \in Nat : l # 0 /\ x \div 8 \in a .. a + n - 1 => x < 8 * (a + n) /\ x + l > 8 * a
      OBVIOUS
  <2>3. f.from < 8 * (frames[i].adr + frames[i].length) /\ f.from + f.length > 8 * frames[i].adr
      BY <2>1, <2>2
  <2>4. f \in fmmus /\ f.slave = s /\ f.dir = d
      BY <1>6 DEF Of
  <2> QED BY <2>3, <2>4 DEF Meets
<1>9. ASSUME NEW j \in OfCmd(frames, cmd), Meets(s, d, frames[j])
      PROVE  frames[j].adr \in Bytes(frames[j]) /\ frames[j].adr = Larger(Cut(k - 1), First(cmd))
  <2>1. PICK g \in Of(s, d) : /\ g.from < 8 * (frames[j].adr + frames[j].length)
                              /\ g.from + g.length > 8 * frames[j].adr
      BY <1>9 DEF Meets, Of
  <2>2. PICK m \in 1 .. nsegments : /\ frames[j].adr = Larger(Cut(m - 1), First(cmd))
                                    /\ frames[j].adr + frames[j].length <= Cut(m)
      BY <1>5 DEF Settled, FramesInv
  <2>3. /\ m - 1 \in 0 .. nsegments /\ m \in 0 .. nsegments /\ Cut(m - 1) \in Nat /\ Cut(m) \in Nat
    <3>1. m - 1 \in 0 .. nsegments /\ m \in 0 .. nsegments
        BY <1>0, <2>2
    <3> QED BY <1>0, <3>1, SegmentFacts
  <2>4. PICK a \in Nat : a = frames[j].adr
      BY <1>5
  <2>5. PICK n \in Nat : n = frames[j].length
      BY <1>5
  <2>6. /\ g.from \in Nat /\ g.length \in Nat /\ 8 * First(cmd) <= g.from
        /\ 8 * Cut(k - 1) <= g.from /\ g.from + g.length <= 8 * Cut(k)
      BY <1>1, <1>3 DEF InSegment
  <2>7. Cut(m - 1) <= a
      BY <1>2, <2>2, <2>3, <2>4 DEF Larger
  <2>8. Cut(k - 1) < Cut(m)
    <3>1. \A x, y, l, b, c \in Nat : 8 * c <= x /\ x < 8 * (y + l) /\ y + l <= b => c < b
        OBVIOUS
    <3>2. g.from < 8 * (a + n) /\ a + n <= Cut(m)
        BY <2>1, <2>2, <2>4, <2>5
    <3> QED BY <1>4, <2>3, <2>6, <3>1, <3>2
  <2>9. Cut(m - 1) < Cut(k)
    <3>1. \A x, l, y, b, c \in Nat : 8 * y < x + l /\ x + l <= 8 * c /\ b <= y => b < c
        OBVIOUS
    <3>2. 8 * a < g.from + g.length
        BY <2>1, <2>4
    <3>3. Cut(m - 1) \in Nat /\ Cut(k) \in Nat
        BY <1>4, <2>3
    <3> QED BY <2>6, <2>7, <3>1, <3>2, <3>3
  <2>10. m = k
    <3>1. ~(m <= k - 1)
      <4> SUFFICES ASSUME m <= k - 1 PROVE FALSE
          OBVIOUS
      <4>1. m \in 0 .. k - 1
          BY <1>4, <2>3
      <4>2. Cut(m) <= Cut(k - 1)
          BY <1>0, <1>4, <4>1, SegmentFacts
      <4> QED BY <1>4, <2>3, <2>8, <4>2
    <3>2. ~(k <= m - 1)
      <4> SUFFICES ASSUME k <= m - 1 PROVE FALSE
          OBVIOUS
      <4>1. k \in 0 .. m - 1
          BY <1>4, <2>3
      <4>2. Cut(k) <= Cut(m - 1)
          BY <1>0, <2>3, <4>1, SegmentFacts
      <4> QED BY <1>4, <2>3, <2>9, <4>2
    <3> QED BY <1>0, <1>4, <2>2, <3>1, <3>2
  <2>11. a = Larger(Cut(k - 1), First(cmd))
      BY <2>2, <2>4, <2>10
  <2>12. 8 * a <= g.from
      BY <1>2, <1>4, <2>6, <2>11 DEF Larger
  <2>13. n # 0
    <3>1. \A x, y \in Nat : 8 * x <= y /\ y < 8 * (x + n) => n # 0
        OBVIOUS
    <3>2. g.from < 8 * (a + n)
        BY <2>1, <2>4, <2>5
    <3> QED BY <2>6, <2>12, <3>1, <3>2
  <2>14. a \in a .. a + n - 1
      BY <2>13
  <2> QED BY <2>4, <2>5, <2>11, <2>14 DEF Bytes
<1>10. ASSUME NEW j \in OfCmd(frames, cmd), Meets(s, d, frames[j])
       PROVE  j = i
  <2>1. frames[j].adr \in Bytes(frames[j]) /\ frames[j].adr \in Bytes(frames[i])
      BY <1>8, <1>9, <1>10
  <2> QED BY <1>0, <2>1 DEF Part
<1> QED BY <1>8, <1>10

Met(s, d) ==
    [k \in DOMAIN frames |->
        IF frames[k].cmd # Reading(d) /\ Meets(s, d, frames[k]) THEN 1 ELSE 0]

LEMMA MeetsOnce ==
    ASSUME Settled, NEW s \in Slaves, NEW d \in Dirs
    PROVE  /\ Met(s, d) \in Seq(Nat) /\ Len(Met(s, d)) = Len(frames)
           /\ Total(Met(s, d)) = IF found[s][d] = <<>> THEN 0 ELSE 1
<1>0. frames \in Seq(Frame) /\ DOMAIN frames = 1 .. Len(frames) /\ Len(frames) \in Nat
  <2>1. frames \in Seq(Frame)
      BY DEF Settled, IInv, TypeOK, Frame
  <2> QED BY <2>1
<1>1. /\ Met(s, d) \in Seq(Nat) /\ Len(Met(s, d)) = Len(frames)
      /\ \A k \in 1 .. Len(frames) :
            Met(s, d)[k] = IF frames[k].cmd # Reading(d) /\ Meets(s, d, frames[k]) THEN 1 ELSE 0
  <2> DEFINE v(k) == IF frames[k].cmd # Reading(d) /\ Meets(s, d, frames[k]) THEN 1 ELSE 0
             met == [k \in 1 .. Len(frames) |-> v(k)]
  <2>1. \A k : v(k) \in Nat
      OBVIOUS
  <2>2. met = Met(s, d)
      BY <1>0 DEF Met
  <2> HIDE DEF v
  <2>3. met \in [1 .. Len(frames) -> Nat] /\ \A k \in 1 .. Len(frames) : met[k] = v(k)
      BY <2>1
  <2> HIDE DEF met
  <2>4. met \in Seq(Nat) /\ Len(met) = Len(frames)
      BY <1>0, <2>3
  <2> QED BY <2>2, <2>3, <2>4 DEF v
<1> DEFINE cmd == IF lrw THEN "LRW" ELSE IF d = "in" THEN "LRD" ELSE "LWR"
<1>2. /\ cmd \in Cmds /\ cmd # Reading(d)
      /\ \A c \in Cmds : c # Reading(d) => c = cmd
    BY DEF Cmds, Reading, Dirs
<1> HIDE DEF cmd
<1>3. \A k \in 1 .. Len(frames) : frames[k].cmd # Reading(d) <=> k \in OfCmd(frames, cmd)
    BY <1>0, <1>2 DEF Settled, FramesInv, OfCmd
<1>4. CASE found[s][d] = <<>>
  <2>1. Of(s, d) = {}
      BY <1>2, <1>4, Lies
  <2>2. \A k : ~Meets(s, d, frames[k])
      BY <2>1 DEF Meets, Of
  <2>3. \A k \in 1 .. Len(Met(s, d)) : Met(s, d)[k] = 0
      BY <1>1, <2>2
  <2> QED BY <1>1, <1>4, <2>3, SumsZero
<1>5. CASE found[s][d] # <<>>
  <2>1. PICK i \in OfCmd(frames, cmd) :
              /\ Meets(s, d, frames[i])
              /\ \A j \in OfCmd(frames, cmd) : Meets(s, d, frames[j]) => j = i
      BY <1>2, <1>5, OneMeets
  <2>2. i \in 1 .. Len(frames)
      BY <1>0 DEF OfCmd
  <2>3. Met(s, d)[i] = 1
      BY <1>1, <1>3, <2>1, <2>2
  <2>4. \A k \in 1 .. Len(Met(s, d)) : k # i => Met(s, d)[k] = 0
      BY <1>1, <1>3, <2>1
  <2> QED BY <1>1, <1>5, <2>2, <2>3, <2>4, SumsSingle
<1> QED BY <1>1, <1>4, <1>5

LEMMA Shares ==
    ASSUME Settled, NEW s \in Slaves
    PROVE  /\ AddsInAll(s) \in Nat
           /\ AddsInAll(s) = 2 * (IF found[s]["out"] = <<>> THEN 0 ELSE 1)
                             + (IF found[s]["in"] = <<>> THEN 0 ELSE 1)
<1>0. frames \in Seq(Frame) /\ DOMAIN frames = 1 .. Len(frames) /\ Len(frames) \in Nat
      /\ "out" \in Dirs /\ "in" \in Dirs
  <2>1. frames \in Seq(Frame)
      BY DEF Settled, IInv, TypeOK, Frame
  <2> QED BY <2>1 DEF Dirs
<1> DEFINE adds == [k \in DOMAIN frames |-> Adds(s, frames[k])]
           n == Len(frames)
<1>1. /\ Met(s, "out") \in Seq(Nat) /\ Met(s, "in") \in Seq(Nat)
      /\ Len(Met(s, "out")) = n /\ Len(Met(s, "in")) = n
      /\ Total(Met(s, "out")) = IF found[s]["out"] = <<>> THEN 0 ELSE 1
      /\ Total(Met(s, "in")) = IF found[s]["in"] = <<>> THEN 0 ELSE 1
    BY <1>0, MeetsOnce
<1>2. \A k \in 1 .. n : /\ adds[k] \in Nat
                        /\ adds[k] = 2 * Met(s, "out")[k] + Met(s, "in")[k]
  <2> TAKE k \in 1 .. n
  <2>1. k \in DOMAIN frames
      BY <1>0
  <2>2. adds[k] = (IF frames[k].cmd # "LWR" /\ Meets(s, "in", frames[k]) THEN 1 ELSE 0)
                  + (IF frames[k].cmd # "LRD" /\ Meets(s, "out", frames[k]) THEN 2 ELSE 0)
      BY <2>1 DEF Adds
  <2>3. /\ Met(s, "out")[k] = IF frames[k].cmd # "LRD" /\ Meets(s, "out", frames[k]) THEN 1 ELSE 0
        /\ Met(s, "in")[k] = IF frames[k].cmd # "LWR" /\ Meets(s, "in", frames[k]) THEN 1 ELSE 0
      BY <2>1 DEF Met, Reading
  <2> HIDE DEF adds
  <2> QED BY <2>2, <2>3
<1>3. DOMAIN adds = 1 .. n
    BY <1>0
<1>4. AddsInAll(s) = Total(adds)
    BY DEF AddsInAll
<1>5. adds = [k \in 1 .. n |-> adds[k]]
    BY <1>0
<1> HIDE DEF adds, n
<1>6. adds \in Seq(Nat) /\ Len(adds) = n
  <2>1. n \in Nat
      BY <1>0 DEF n
  <2>2. adds \in [1 .. n -> Nat]
      BY <1>2, <1>3, <1>5
  <2> QED BY <2>1, <2>2
<1>7. \A k \in 0 .. n : Sums(adds)[k] = 2 * Sums(Met(s, "out"))[k] + Sums(Met(s, "in"))[k]
  <2>1. /\ Len(Met(s, "in")) = Len(Met(s, "out")) /\ Len(adds) = Len(Met(s, "out"))
        /\ \A k \in 1 .. Len(Met(s, "out")) : adds[k] = 2 * Met(s, "out")[k] + Met(s, "in")[k]
      BY <1>1, <1>2, <1>6
  <2>2. \A k \in 0 .. Len(Met(s, "out")) :
           Sums(adds)[k] = 2 * Sums(Met(s, "out"))[k] + Sums(Met(s, "in"))[k]
      BY <1>1, <1>6, <2>1, SumsTwice
  <2> QED BY <1>1, <2>2
<1>8. n \in 0 .. n
    BY <1>0 DEF n
<1>9. Total(adds) = 2 * Total(Met(s, "out")) + Total(Met(s, "in"))
  <2>1. /\ Total(adds) = Sums(adds)[n] /\ Total(Met(s, "out")) = Sums(Met(s, "out"))[n]
        /\ Total(Met(s, "in")) = Sums(Met(s, "in"))[n]
      BY <1>1, <1>6 DEF Total
  <2>2. Sums(adds)[n] = 2 * Sums(Met(s, "out"))[n] + Sums(Met(s, "in"))[n]
      BY <1>7, <1>8
  <2> DEFINE t == Total(adds)
             o == Total(Met(s, "out"))
             i == Total(Met(s, "in"))
  <2>3. t = Sums(adds)[n] /\ o = Sums(Met(s, "out"))[n] /\ i = Sums(Met(s, "in"))[n]
      BY <2>1
  <2>4. t = 2 * o + i
    <3> HIDE DEF t, o, i
    <3> QED BY <2>2, <2>3
  <2> QED BY <2>4
<1>10. PICK o \in Nat : o = IF found[s]["out"] = <<>> THEN 0 ELSE 1
    OBVIOUS
<1>11. PICK i \in Nat : i = IF found[s]["in"] = <<>> THEN 0 ELSE 1
    OBVIOUS
<1>12. AddsInAll(s) = 2 * o + i
  <2>1. Total(Met(s, "out")) = o /\ Total(Met(s, "in")) = i
      BY <1>1, <1>10, <1>11
  <2> QED BY <1>4, <1>9, <2>1
<1> QED BY <1>10, <1>11, <1>12

LEMMA Noticed == Settled =>
    /\ Wkc(Slaves) = Expected
    /\ \A s \in Slaves : found[s] # None => Wkc(Slaves \ {s}) < Expected
<1> SUFFICES ASSUME Settled
             PROVE  /\ Wkc(Slaves) = Expected
                    /\ \A s \in Slaves : found[s] # None => Wkc(Slaves \ {s}) < Expected
    OBVIOUS
<1>0. N \in Nat /\ Slaves = 1 .. N /\ TypeOK /\ Known /\ "out" \in Dirs /\ "in" \in Dirs
    BY Constants DEF Settled, IInv, Slaves, Dirs
<1> DEFINE W(A) == [s \in Slaves |-> IF s \in A THEN AddsInAll(s) ELSE 0]
<1>1. ASSUME NEW A
      PROVE  /\ W(A) \in Seq(Nat) /\ Len(W(A)) = N /\ Wkc(A) = Total(W(A))
             /\ \A s \in 1 .. N : W(A)[s] = IF s \in A THEN AddsInAll(s) ELSE 0
  <2> DEFINE w == W(A)
  <2>1. \A s \in 1 .. N : w[s] = IF s \in A THEN AddsInAll(s) ELSE 0
      BY <1>0
  <2>2. \A s \in 1 .. N : w[s] \in Nat
      BY <1>0, <2>1, Shares
  <2>3. w = [s \in 1 .. N |-> w[s]]
      BY <1>0
  <2>4. Wkc(A) = Total(w)
      BY DEF Wkc
  <2> HIDE DEF w
  <2>5. w \in [1 .. N -> Nat]
      BY <2>2, <2>3
  <2>6. w \in Seq(Nat) /\ Len(w) = N
      BY <1>0, <2>5
  <2>7. w = W(A)
      BY DEF w
  <2> HIDE DEF W
  <2> QED BY <2>1, <2>4, <2>6, <2>7
<1> DEFINE all == W(Slaves)
           outs == Exchanging("out")
           ins == Exchanging("in")
<1>2. /\ outs \in Seq(Nat) /\ Len(outs) = N /\ ins \in Seq(Nat) /\ Len(ins) = N
      /\ \A s \in 1 .. N : /\ outs[s] = IF found[s]["out"] = <<>> THEN 0 ELSE 1
                           /\ ins[s] = IF found[s]["in"] = <<>> THEN 0 ELSE 1
    BY <1>0, ExchangingSeq DEF Exchanging
<1> HIDE DEF W, outs, ins
<1>3. /\ all \in Seq(Nat) /\ Len(all) = N /\ Wkc(Slaves) = Total(all)
      /\ \A s \in 1 .. N : all[s] = AddsInAll(s)
    BY <1>0, <1>1
<1>4. \A s \in 1 .. N : AddsInAll(s) \in Nat /\ AddsInAll(s) = 2 * outs[s] + ins[s]
    BY <1>0, <1>2, Shares
<1>5. \A k \in 0 .. N : Sums(all)[k] = 2 * Sums(outs)[k] + Sums(ins)[k]
  <2> HIDE DEF all
  <2>1. /\ Len(ins) = Len(outs) /\ Len(all) = Len(outs)
        /\ \A k \in 1 .. Len(outs) : all[k] = 2 * outs[k] + ins[k]
      BY <1>2, <1>3, <1>4
  <2>2. \A k \in 0 .. Len(outs) : Sums(all)[k] = 2 * Sums(outs)[k] + Sums(ins)[k]
      BY <1>2, <1>3, <2>1, SumsTwice
  <2> QED BY <1>2, <2>2
<1>6. group.outputsWKC = Sums(outs)[N] /\ group.inputsWKC = Sums(ins)[N]
  <2>1. Turns("out") = N /\ Turns("in") = N
      BY <1>0 DEF Turns, Finding, Settled
  <2> QED BY <2>1 DEF Settled, CountInv, outs, ins
<1>7. Wkc(Slaves) = Expected
  <2>1. N \in 0 .. N
      BY <1>0
  <2>2. Sums(all)[N] = 2 * Sums(outs)[N] + Sums(ins)[N]
      BY <1>5, <2>1
  <2>3. Sums(outs)[N] \in Nat
      BY <1>2, <2>1, SumsRule
  <2>4. \A x \in Nat : 2 * x = x * 2
      OBVIOUS
  <2>5. 2 * Sums(outs)[N] = group.outputsWKC * 2
      BY <1>6, <2>3, <2>4
  <2>6. Wkc(Slaves) = Sums(all)[N]
      BY <1>3 DEF Total
  <2> QED BY <1>6, <2>2, <2>5, <2>6, Zenon DEF Expected
<1>8. ASSUME NEW s \in Slaves, found[s] # None
      PROVE  Wkc(Slaves \ {s}) < Expected
  <2> DEFINE less == W(Slaves \ {s})
  <2>1. /\ less \in Seq(Nat) /\ Len(less) = N /\ Wkc(Slaves \ {s}) = Total(less)
        /\ \A i \in 1 .. N : less[i] = IF i \in Slaves \ {s} THEN AddsInAll(i) ELSE 0
      BY <1>1
  <2> HIDE DEF less, all
  <2>2. found[s]["out"] # <<>> \/ found[s]["in"] # <<>>
    <3> SUFFICES ASSUME found[s]["out"] = <<>>, found[s]["in"] = <<>> PROVE found[s] = None
        BY <1>8
    <3>1. found[s] \in [Dirs -> Seq(SyncManager)]
        BY <1>0 DEF TypeOK
    <3>2. \A d \in Dirs : found[s][d] = <<>>
        BY DEF Dirs
    <3>3. found[s] = [d \in Dirs |-> found[s][d]]
        BY <3>1
    <3> QED BY <3>2, <3>3 DEF None
  <2>3. s \in 1 .. N /\ AddsInAll(s) > 0
    <3>1. s \in 1 .. N
        BY <1>0
    <3>2. outs[s] = 1 \/ ins[s] = 1
        BY <1>2, <2>2, <3>1
    <3>3. outs[s] \in Nat /\ ins[s] \in Nat
        BY <1>2, <3>1
    <3> QED BY <1>4, <3>1, <3>2, <3>3
  <2>4. /\ less[s] < all[s]
        /\ \A i \in 1 .. N : less[i] <= all[i]
    <3>1. less[s] = 0
        BY <2>1, <2>3
    <3>2. \A i \in 1 .. N : less[i] <= all[i]
      <4> TAKE i \in 1 .. N
      <4>1. AddsInAll(i) \in Nat /\ all[i] = AddsInAll(i)
          BY <1>3, <1>4
      <4>2. less[i] = AddsInAll(i) \/ less[i] = 0
          BY <2>1
      <4> QED BY <4>1, <4>2
    <3> QED BY <1>3, <2>3, <3>1, <3>2
  <2>5. Total(less) < Total(all)
      BY <1>3, <2>1, <2>3, <2>4, SumsSmaller
  <2> QED BY <1>3, <1>7, <2>1, <2>5
<1> QED BY <1>7, <1>8

Counting == OrderInv /\ CountInv /\ FmmuInv /\ TogetherInv /\ FramesInv

(* The working counter of a cycle is what the bus expects if all slaves    *)
(* answer and less if one that exchanges data does not: for every          *)
(* description of the slaves if the map is one segment, and wherever it is *)
(* cut if none exchanges less than a byte.                                 *)
THEOREM MissingSlaveIsNoticed == Spec => []MissingIsNoticed
<1>1. Init => Placed /\ SendInv /\ Counting
  <2> SUFFICES ASSUME Init PROVE Placed /\ SendInv /\ Counting
      OBVIOUS
  <2>1. Placed /\ SendInv /\ OrderInv /\ FramesInv
      BY DEF Init, Placed, PlacedBehind, Disjoint, SendInv, OrderInv, FramesInv
  <2>2. \A d \in Dirs : Turns(d) = 0
      BY DEF Init, Turns, Finding, Dirs
  <2>3. CountInv
    <3>1. Exchanging("out") \in Seq(Nat) /\ Exchanging("in") \in Seq(Nat)
        BY ExchangingSeq DEF Exchanging
    <3>2. Sums(Exchanging("out"))[0] = 0 /\ Sums(Exchanging("in"))[0] = 0
        BY <3>1, SumsRule, Zenon
    <3> QED BY <2>2, <3>2 DEF Init, CountInv, Dirs
  <2>4. \A s \in Slaves, d \in Dirs : ~(s <= Turns(d)) /\ ~InTurn(s, d)
    <3>1. \A s \in Slaves : ~(s <= 0)
        BY Constants DEF Slaves
    <3> QED BY <2>2, <3>1 DEF Init, InTurn
  <2>5. FmmuInv /\ TogetherInv
      BY <2>4 DEF Init, FmmuInv, OwnerInv, SideInv, ServedInv, OutputsDone, Sending, TogetherInv
  <2> QED BY <2>1, <2>3, <2>5 DEF Counting
<1>2. IInv /\ Placed /\ SendInv /\ Counting /\ [Next]_vars => Counting'
  <2> SUFFICES ASSUME IInv, Placed, SendInv, Counting, [Next]_vars PROVE Counting'
      OBVIOUS
  <2>1. OrderInv'
    <3>1. CASE SlaveMapped
        BY <3>1, TurnsGrow
    <3>2. CASE ~SlaveMapped
        BY <3>2, TurnsStay DEF Counting
    <3> QED BY <3>1, <3>2
  <2> QED BY <2>1, CountNext, FmmuNext, TogetherNext, FramesNext DEF Counting
<1>3. IInv /\ Placed /\ SendInv /\ Counting => MissingIsNoticed
    BY Noticed DEF Counting, Settled, MissingIsNoticed
<1> QED BY <1>1, <1>2, <1>3, Inductive, PlacedNext, SendInvNext, PTL DEF Spec

-----------------------------------------------------------------------------
(***************************************************************************)
(* The topology: Topology, for every tree of any number of slaves, any     *)
(* times over its links and any clocks.                                    *)
(***************************************************************************)
(***************************************************************************)
(* Induction, and recursive functions, where a value takes all those       *)
(* before it.                                                              *)
(***************************************************************************)
LEMMA UpToAll ==
    ASSUME NEW n \in Nat, NEW T,
           \A k \in 0 .. n : (\A j \in 0 .. k - 1 : j \in T) => k \in T
    PROVE  \A k \in 0 .. n : k \in T
<1> SUFFICES ASSUME NEW k \in 0 .. n, k \notin T
             PROVE  FALSE
    OBVIOUS
<1> DEFINE S == {j \in 0 .. n : j \notin T}
<1>0. S \subseteq Nat /\ S # {}
    OBVIOUS
<1>1. PICK m \in S : \A j \in S : m <= j
    BY <1>0, Smallest
<1>2. m \in 0 .. n /\ m \notin T
    BY <1>1
<1>3. \A j \in 0 .. m - 1 : j \in T
    BY <1>1, <1>2
<1> QED BY <1>2, <1>3

Local(n, S, g) ==
    /\ g \in [0 .. n -> [[0 .. n -> S] -> S]]
    /\ \A k \in 0 .. n, F, G \in [0 .. n -> S] :
          (\A j \in 0 .. n : j < k => F[j] = G[j]) => g[k][F] = g[k][G]

Solved(n, S, g) ==
    \E f \in [0 .. n -> S] : \A k \in 0 .. n : f[k] = g[k][f]

LEMMA Recursive ==
    ASSUME NEW n \in Nat, NEW S, NEW b \in S, NEW g, Local(n, S, g)
    PROVE  Solved(n, S, g)
<1> USE DEF Local
<1> DEFINE A == [0 .. n -> S]
           Good(k, f) == \A j \in 0 .. k : f[j] = g[j][f]
           T == {k \in 0 .. n : \E f \in A : Good(k, f)}
<1>0. ASSUME NEW k \in 0 .. n, NEW f \in A, \A j \in 0 .. k - 1 : f[j] = g[j][f]
      PROVE  k \in T
  <2> DEFINE v == g[k][f]
             h == [f EXCEPT ![k] = v]
  <2>1. v \in S
      OBVIOUS
  <2> HIDE DEF v
  <2>2. h \in A /\ h[k] = v /\ \A j \in 0 .. n : j # k => h[j] = f[j]
      BY <2>1
  <2> HIDE DEF h
  <2>3. ASSUME NEW j \in 0 .. k PROVE h[j] = g[j][h]
    <3>1. j \in 0 .. n /\ \A x \in 0 .. n : x < j => h[x] = f[x]
        BY <2>2
    <3>2. g[j][h] = g[j][f]
        BY <2>2, <3>1
    <3>3. CASE j = k
        BY <2>2, <3>2, <3>3 DEF v
    <3>4. CASE j # k
      <4>1. j \in 0 .. k - 1
          BY <3>4
      <4> QED BY <1>0, <2>2, <3>1, <3>2, <3>4, <4>1
    <3> QED BY <3>3, <3>4
  <2> QED BY <2>2, <2>3
<1>1. 0 \in T
  <2> DEFINE f == [j \in 0 .. n |-> b]
  <2>1. f \in A
      OBVIOUS
  <2> HIDE DEF f, A, T
  <2>2. \A j \in 0 .. 0 - 1 : f[j] = g[j][f]
      OBVIOUS
  <2>3. 0 \in 0 .. n
      OBVIOUS
  <2> QED BY <1>0, <2>1, <2>2, <2>3
<1>2. ASSUME NEW k \in 1 .. n, k - 1 \in T PROVE k \in T
  <2>1. PICK f \in A : Good(k - 1, f)
      BY <1>2
  <2>2. k \in 0 .. n
      OBVIOUS
  <2> HIDE DEF A, T
  <2> QED BY <1>0, <2>1, <2>2
<1> HIDE DEF T
<1>3. \A k \in 0 .. n : k \in T
    BY <1>1, <1>2, UpTo
<1>4. n \in T
    BY <1>3
<1> QED BY <1>4 DEF T, Solved

(***************************************************************************)
(* The network.                                                            *)
(***************************************************************************)
Network ==
    /\ up \in [Nodes -> 0 .. SlaveCount - 1]
    /\ \A s \in Nodes : up[s] < s /\ (up[s] = 0 <=> s = 1)
    /\ Numbered
    /\ port \in [Nodes -> {1, 2, 3}] /\ Wired
    /\ delay \in [Nodes -> Nat] /\ dc \in [Nodes -> BOOLEAN]
    /\ off \in [Nodes -> -HalfRange .. HalfRange - 1]

PortsOf(s) == {port[c] : c \in Children(s)}

LEMMA ChildrenOf ==
    ASSUME Network, NEW s \in Nodes
    PROVE  /\ Children(s) \subseteq Nodes
           /\ \A c \in Nodes : c \in Children(s) <=> up[c] = s
           /\ \A c \in Children(s) : s < c /\ c # 1 /\ port[c] \in {1, 2, 3}
           /\ \A c, d \in Children(s) :
                 c < d => Rank(port[c]) < Rank(port[d])
<1>1. Children(s) = {c \in Nodes : up[c] = s}
    BY DEF Children
<1>2. \A c \in Children(s) : s < c /\ c # 1 /\ port[c] \in {1, 2, 3}
  <2> TAKE c \in Children(s)
  <2>1. c \in Nodes /\ up[c] = s
      BY <1>1
  <2>2. up[c] < c /\ (up[c] = 0 <=> c = 1) /\ port[c] \in {1, 2, 3}
      BY <2>1 DEF Network
  <2>3. s # 0
      BY DEF Nodes
  <2> QED BY <2>1, <2>2, <2>3
<1>3. ASSUME NEW c \in Children(s), NEW d \in Children(s), c < d
      PROVE  Rank(port[c]) < Rank(port[d])
  <2>1. c \in Nodes \ {1} /\ d \in Nodes \ {1} /\ up[c] = up[d]
      BY <1>1, <1>2
  <2> QED BY <1>3, <2>1 DEF Network, Wired
<1> QED BY <1>1, <1>2, <1>3

LEMMA ChildrenDiffer ==
    ASSUME Network, NEW s \in Nodes,
           NEW c \in Children(s), NEW d \in Children(s)
    PROVE  /\ port[c] = port[d] => c = d
           /\ c <= d => Rank(port[c]) <= Rank(port[d])
           /\ Rank(port[c]) <= Rank(port[d]) => c <= d
<1>1. c \in Nat /\ d \in Nat
    BY ChildrenOf DEF Nodes
<1>2. /\ c < d => Rank(port[c]) < Rank(port[d])
      /\ d < c => Rank(port[d]) < Rank(port[c])
    BY ChildrenOf
<1>3. Rank(port[c]) \in Nat /\ Rank(port[d]) \in Nat
    BY ChildrenOf DEF Rank
<1> QED BY <1>1, <1>2, <1>3

LEMMA LinksOf ==
    ASSUME Network, NEW s \in Nodes
    PROVE  /\ Links(s) = {0} \cup PortsOf(s)
           /\ IsFiniteSet(Children(s)) /\ Cardinality(Children(s)) \in 0 .. 3
           /\ Cardinality(Links(s)) = Cardinality(Children(s)) + 1
<1> DEFINE C == Children(s)
           P == PortsOf(s)
           f == [c \in C |-> port[c]]
<1>1. Links(s) = {0} \cup P
    BY DEF Links, PortsOf
<1>2. P \subseteq {1, 2, 3} /\ \A c \in C : port[c] \in P
    BY ChildrenOf DEF PortsOf
<1>3. \A x \in P : \E c \in C : port[c] = x
    BY DEF PortsOf
<1>4. \A c, d \in C : port[c] = port[d] => c = d
    BY ChildrenDiffer
<1>5. SlaveCount \in Nat /\ C \subseteq 1 .. SlaveCount
  <2>1. SlaveCount \in Nat
      BY TopologyAssumption
  <2>2. C \subseteq Nodes
      BY ChildrenOf
  <2> QED BY <2>1, <2>2 DEF Nodes
<1>6. IsFiniteSet(C)
  <2>1. IsFiniteSet(1 .. SlaveCount)
      BY <1>5, FS_Interval
  <2> HIDE DEF C
  <2> QED BY <1>5, <2>1, FS_Subset
<1> HIDE DEF C, P
<1>7. f \in [C -> P]
    BY <1>2
<1>8. f \in Surjection(C, P) /\ f \in Injection(C, P)
  <2>1. \A x \in P : \E c \in C : f[c] = x
      BY <1>3
  <2>2. \A c, d \in C : f[c] = f[d] => c = d
      BY <1>4
  <2> QED BY <1>7, <2>1, <2>2 DEF Surjection, Injection, IsInjective
<1>9. IsFiniteSet(P) /\ Cardinality(P) = Cardinality(C)
    BY <1>6, <1>8, FS_Surjection
<1>10. IsFiniteSet({1, 2, 3}) /\ Cardinality({1, 2, 3}) = 3
  <2>1. {1, 2} = {1} \cup {2} /\ {1, 2, 3} = {1, 2} \cup {3}
      OBVIOUS
  <2>2. IsFiniteSet({1}) /\ Cardinality({1}) = 1
      BY FS_Singleton, Zenon
  <2>3. IsFiniteSet({1, 2}) /\ Cardinality({1, 2}) = 2
    <3>1. 2 \notin {1}
        OBVIOUS
    <3>2. IsFiniteSet({1} \cup {2}) /\ Cardinality({1} \cup {2}) = Cardinality({1}) + 1
        BY <2>2, <3>1, FS_AddElement, Zenon
    <3> QED BY <2>1, <2>2, <3>2
  <2>4. 3 \notin {1, 2}
      OBVIOUS
  <2>5. IsFiniteSet({1, 2} \cup {3}) /\ Cardinality({1, 2} \cup {3}) = Cardinality({1, 2}) + 1
      BY <2>3, <2>4, FS_AddElement, Zenon
  <2> QED BY <2>1, <2>3, <2>5
<1>11. Cardinality(P) <= 3 /\ Cardinality(P) \in Nat
  <2>1. P \in SUBSET {1, 2, 3}
      BY <1>2
  <2>2. Cardinality(P) <= Cardinality({1, 2, 3})
      BY <1>10, <2>1, FS_Subset
  <2> QED BY <1>9, <1>10, <2>2, FS_CardinalityType
<1>12. Cardinality(P \cup {0}) = Cardinality(P) + 1
  <2>1. 0 \notin P
      BY <1>2
  <2> QED BY <1>9, <2>1, FS_AddElement
<1>13. {0} \cup P = P \cup {0}
    OBVIOUS
<1> QED BY <1>1, <1>6, <1>9, <1>11, <1>12, <1>13 DEF C, P
-----------------------------------------------------------------------------

(***************************************************************************)
(* ecx_config_init: the parent is found by counting links.                 *)
(***************************************************************************)
LinksCounted(s) == \A j \in 1 .. s - 1 : topology[j] = Cardinality(Links(j))

LEMMA OpensChildren ==
    ASSUME Network, NEW s \in Nodes
    PROVE  /\ Opens(Cardinality(Links(s))) = Cardinality(Children(s)) - 1
           /\ Cardinality(Children(s)) \in Nat
<1>1. /\ Cardinality(Links(s)) = Cardinality(Children(s)) + 1
      /\ Cardinality(Children(s)) \in 0 .. 3
    BY LinksOf
<1>2. ASSUME NEW k \in 0 .. 3 PROVE Opens(k + 1) = k - 1
    BY DEF Opens
<1> QED BY <1>1, <1>2

LEMMA TopocIs ==
    ASSUME Network, NEW s \in Nodes, LinksCounted(s)
    PROVE  /\ Topoc(s, s) = 0
           /\ \A k \in 1 .. s - 1 :
                 Topoc(s, k) = Topoc(s, k + 1) + Cardinality(Children(k)) - 1
<1> DEFINE n == s - 1
           o == [k \in 1 .. s |-> Opens(topology[k])]
           g == [x \in 0 .. n |-> [F \in [0 .. n -> Int] |->
                    IF x = 0 THEN 0 ELSE o[s - x] + F[x - 1]]]
<1>0. s \in Nat /\ n \in Nat /\ s >= 1 /\ 1 .. s - 1 \subseteq Nodes
    BY TopologyAssumption DEF Nodes
<1>1. \A k \in 1 .. s - 1 :
         o[k] = Cardinality(Children(k)) - 1 /\ Cardinality(Children(k)) \in Nat
  <2> TAKE k \in 1 .. s - 1
  <2>1. topology[k] = Cardinality(Links(k)) /\ k \in Nodes /\ k \in 1 .. s
      BY <1>0 DEF LinksCounted
  <2> QED BY <2>1, OpensChildren
<1>2. \A x \in 0 .. n : x # 0 => s - x \in 1 .. s - 1 /\ x - 1 \in 0 .. n
    BY <1>0
<1> HIDE DEF o
<1>3. g \in [0 .. n -> [[0 .. n -> Int] -> Int]]
  <2>1. ASSUME NEW x \in 0 .. n, NEW F \in [0 .. n -> Int]
        PROVE  (IF x = 0 THEN 0 ELSE o[s - x] + F[x - 1]) \in Int
    <3>1. CASE x = 0
        BY <3>1
    <3>2. CASE x # 0
      <4>1. o[s - x] \in Int
        <5>1. \A k \in 1 .. s - 1 : o[k] \in Int
            BY <1>1
        <5> QED BY <1>2, <3>2, <5>1
      <4>2. F[x - 1] \in Int
          BY <1>2, <3>2
      <4> QED BY <3>2, <4>1, <4>2
    <3> QED BY <3>1, <3>2
  <2> HIDE DEF n
  <2> QED BY <2>1
<1>4. \A x \in 0 .. n, F \in [0 .. n -> Int] :
         g[x][F] = IF x = 0 THEN 0 ELSE o[s - x] + F[x - 1]
    OBVIOUS
<1> HIDE DEF g, n
<1>5. \A x \in 0 .. n, F, G \in [0 .. n -> Int] :
         (\A j \in 0 .. n : j < x => F[j] = G[j]) => g[x][F] = g[x][G]
  <2> SUFFICES ASSUME NEW x \in 0 .. n, NEW F \in [0 .. n -> Int], NEW G \in [0 .. n -> Int],
                      \A j \in 0 .. n : j < x => F[j] = G[j]
               PROVE  g[x][F] = g[x][G]
      OBVIOUS
  <2>1. CASE x = 0
      BY <1>4, <2>1
  <2>2. CASE x # 0
    <3>1. x - 1 \in 0 .. n /\ x - 1 < x
        BY <1>2, <2>2
    <3>2. F[x - 1] = G[x - 1]
        BY <3>1
    <3>3. g[x][F] = o[s - x] + F[x - 1]
        BY <1>4, <2>2, Zenon
    <3>4. g[x][G] = o[s - x] + G[x - 1]
        BY <1>4, <2>2, Zenon
    <3> QED BY <3>2, <3>3, <3>4
  <2> QED BY <2>1, <2>2
<1>6. PICK f \in [0 .. n -> Int] : \A x \in 0 .. n : f[x] = g[x][f]
  <2>1. 0 \in Int
      OBVIOUS
  <2>2. Local(n, Int, g)
      BY <1>3, <1>5, Zenon DEF Local
  <2>3. Solved(n, Int, g)
      BY <1>0, <2>1, <2>2, Recursive, Zenon
  <2> QED BY <2>3, Zenon DEF Solved
<1>7. f[0] = 0 /\ \A x \in 1 .. n : f[x] = o[s - x] + f[x - 1]
  <2>1. 0 \in 0 .. n /\ \A x \in 1 .. n : x \in 0 .. n /\ x # 0
      BY <1>0
  <2> QED BY <1>4, <1>6, <2>1
<1> DEFINE Is(R) == R = [j \in 1 .. s |->
                            IF j = s THEN 0 ELSE Opens(topology[j]) + R[j + 1]]
           r == [j \in 1 .. s |-> f[s - j]]
           R == CHOOSE R : Is(R)
<1>8. \A j \in 1 .. s : o[j] = Opens(topology[j])
    BY DEF o
<1>9. Is(r)
  <2>1. \A j \in 1 .. s :
           r[j] = IF j = s THEN 0 ELSE Opens(topology[j]) + r[j + 1]
    <3> TAKE j \in 1 .. s
    <3>1. CASE j = s
      <4>1. s - j = 0
          BY <1>0, <3>1
      <4> QED BY <1>7, <3>1, <4>1
    <3>2. CASE j # s
      <4>1. s - j \in 1 .. n /\ j + 1 \in 1 .. s /\ s - (j + 1) = s - j - 1 /\ s - (s - j) = j
          BY <1>0, <3>2 DEF n
      <4>2. f[s - j] = o[j] + f[s - (j + 1)]
          BY <1>7, <4>1
      <4>3. r[j] = f[s - j] /\ r[j + 1] = f[s - (j + 1)]
          BY <4>1
      <4> QED BY <1>8, <3>2, <4>2, <4>3
    <3> QED BY <3>1, <3>2
  <2> HIDE DEF r
  <2>2. r = [j \in 1 .. s |-> r[j]]
      BY DEF r
  <2> QED BY <2>1, <2>2
<1>10. Is(R)
    BY <1>9
<1>11. \A k : Topoc(s, k) = R[k]
    BY DEF Topoc
<1> HIDE DEF R
<1>12. R[s] = 0 /\ \A k \in 1 .. s - 1 : R[k] = o[k] + R[k + 1]
  <2>1. s \in 1 .. s /\ \A k \in 1 .. s - 1 : k \in 1 .. s /\ k # s
      BY <1>0
  <2>2. \A j \in 1 .. s : R[j] = IF j = s THEN 0 ELSE Opens(topology[j]) + R[j + 1]
      BY <1>10
  <2> QED BY <1>8, <2>1, <2>2
<1>13. \A x \in 0 .. n : R[s - x] \in Int
  <2> DEFINE T == {x \in 0 .. n : R[s - x] \in Int}
  <2>1. 0 \in T
      BY <1>0, <1>12
  <2>2. ASSUME NEW x \in 1 .. n, x - 1 \in T PROVE x \in T
    <3>1. s - x \in 1 .. s - 1 /\ (s - x) + 1 = s - (x - 1) /\ x \in 0 .. n
        BY <1>0 DEF n
    <3>2. R[s - x] = o[s - x] + R[s - (x - 1)]
        BY <1>12, <3>1
    <3>3. o[s - x] \in Int
      <4>1. \A k \in 1 .. s - 1 : o[k] \in Int
          BY <1>1
      <4> QED BY <3>1, <4>1
    <3> QED BY <2>2, <3>1, <3>2, <3>3
  <2> HIDE DEF T
  <2>3. \A x \in 0 .. n : x \in T
      BY <1>0, <2>1, <2>2, UpTo
  <2> QED BY <2>3 DEF T
<1>14. ASSUME NEW k \in 1 .. s - 1
       PROVE  R[k] = R[k + 1] + Cardinality(Children(k)) - 1
  <2>1. s - (k + 1) \in 0 .. n /\ s - (s - (k + 1)) = k + 1
      BY <1>0 DEF n
  <2>2. R[k + 1] \in Int
      BY <1>13, <2>1
  <2>3. R[k] = o[k] + R[k + 1]
      BY <1>12
  <2>4. o[k] = Cardinality(Children(k)) - 1 /\ Cardinality(Children(k)) \in Nat
      BY <1>1
  <2> QED BY <2>2, <2>3, <2>4
<1> QED BY <1>11, <1>12, <1>14

(* The slaves that hang on those from k to s - 1.                          *)
Hanging(s, k) == {t \in Nodes : up[t] \in k .. s - 1}

LEMMA TopocCounts ==
    ASSUME Network, NEW s \in Nodes, LinksCounted(s)
    PROVE  \A k \in 1 .. s :
              /\ IsFiniteSet(Hanging(s, k))
              /\ Topoc(s, k) = Cardinality(Hanging(s, k)) - (s - k)
<1> DEFINE n == s - 1
           Good(k) == /\ IsFiniteSet(Hanging(s, k))
                      /\ Topoc(s, k) = Cardinality(Hanging(s, k)) - (s - k)
           T == {x \in 0 .. n : Good(s - x)}
<1>0. s \in Nat /\ n \in Nat /\ s >= 1 /\ 1 .. s - 1 \subseteq Nodes
    BY TopologyAssumption DEF Nodes
<1>1. 0 \in T
  <2>1. Hanging(s, s) = {}
    <3>1. \A t \in Nodes : up[t] \notin s .. s - 1
        BY <1>0
    <3> QED BY <3>1 DEF Hanging
  <2>2. IsFiniteSet({}) /\ Cardinality({}) = 0
      BY FS_EmptySet
  <2>3. Topoc(s, s) = 0
      BY TopocIs
  <2>4. s - 0 = s /\ 0 - (s - s) = 0 /\ 0 \in 0 .. n
      BY <1>0
  <2> QED BY <2>1, <2>2, <2>3, <2>4
<1>2. ASSUME NEW x \in 1 .. n, x - 1 \in T PROVE x \in T
  <2> DEFINE k == s - x
             A == Hanging(s, k + 1)
             C == Children(k)
  <2>1. k \in 1 .. s - 1 /\ k + 1 = s - (x - 1) /\ x \in 0 .. n
      BY <1>0
  <2>2. IsFiniteSet(A) /\ Topoc(s, k + 1) = Cardinality(A) - (s - (k + 1))
      BY <1>2, <2>1
  <2>3. IsFiniteSet(C) /\ Cardinality(C) \in Nat
      BY <1>0, <2>1, LinksOf
  <2>4. Topoc(s, k) = Topoc(s, k + 1) + Cardinality(C) - 1
      BY <2>1, TopocIs
  <2>5. k \in Nat /\ \A t \in Nodes : up[t] \in k .. s - 1 <=> up[t] = k \/ up[t] \in k + 1 .. s - 1
    <3>1. k \in Nat /\ k \in k .. s - 1
        BY <2>1
    <3>2. \A t \in Nodes : up[t] \in Nat
        BY DEF Network
    <3> HIDE DEF k
    <3> QED BY <1>0, <3>1, <3>2
  <2>6. C = {t \in Nodes : up[t] = k}
      BY DEF Children
  <2>7. Hanging(s, k) = A \cup C /\ A \cap C = {}
    <3> HIDE DEF k
    <3>1. \A t \in Nodes : up[t] = k => up[t] \notin k + 1 .. s - 1
        BY <2>5
    <3> QED BY <2>5, <2>6, <3>1 DEF Hanging
  <2>8. /\ IsFiniteSet(A \cup C)
        /\ Cardinality(A \cup C) = Cardinality(A) + Cardinality(C) - Cardinality(A \cap C)
    <3> HIDE DEF A, C
    <3> QED BY <2>2, <2>3, FS_Union
  <2>9. Cardinality(A \cap C) = 0 /\ Cardinality(A) \in Nat
    <3> HIDE DEF A, C
    <3> QED BY <2>2, <2>7, FS_EmptySet, FS_CardinalityType
  <2>10. Good(k)
    <3> HIDE DEF A, C, k
    <3>1. PICK a \in Nat, c \in Nat : a = Cardinality(A) /\ c = Cardinality(C)
        BY <2>3, <2>9
    <3>2. Cardinality(Hanging(s, k)) = a + c
        BY <2>7, <2>8, <2>9, <3>1
    <3>3. Topoc(s, k) = (a - (s - (k + 1))) + c - 1
        BY <2>2, <2>4, <3>1
    <3>4. Topoc(s, k) = (a + c) - (s - k)
        BY <1>0, <2>5, <3>3
    <3> QED BY <2>7, <2>8, <3>2, <3>4
  <2> HIDE DEF Good
  <2> QED BY <2>1, <2>10
<1> HIDE DEF T
<1>3. \A x \in 0 .. n : x \in T
    BY <1>0, <1>1, <1>2, UpTo
<1>4. ASSUME NEW k \in 1 .. s PROVE Good(k)
  <2>1. s - k \in 0 .. n /\ s - (s - k) = k
      BY <1>0
  <2>2. s - k \in T
      BY <1>3, <2>1
  <2> QED BY <2>1, <2>2 DEF T
<1> QED BY <1>4

LEMMA Upper ==
    ASSUME Network, NEW s \in Nodes, NEW t \in Nodes,
           up[s] < t, t < s
    PROVE  up[s] <= up[t]
<1>1. up[s] \in Int /\ up[t] \in Int /\ s \in Int /\ t \in Int
    BY DEF Network, Nodes
<1>2. t \in up[s] + 1 .. s - 1
    BY <1>1
<1>3. up[t] >= up[s]
    BY <1>2 DEF Network, Numbered
<1> QED BY <1>1, <1>3

(* A slave after up[s] opens no branch that is still open at s: what hangs *)
(* on the slaves from k to s - 1 lies between k and s.                     *)
LEMMA Closed ==
    ASSUME Network, NEW s \in Nodes, LinksCounted(s),
           NEW k \in Nodes, up[s] < k, k < s
    PROVE  Topoc(s, k) < 0
<1>0. s \in Nat /\ k \in Nat /\ SlaveCount \in Nat /\ up[s] \in Nat
    BY TopologyAssumption DEF Nodes, Network
<1>1. Hanging(s, k) \subseteq k + 1 .. s - 1
  <2> SUFFICES ASSUME NEW t \in Nodes, up[t] \in k .. s - 1
               PROVE  t \in k + 1 .. s - 1
      BY DEF Hanging
  <2>1. up[t] < t /\ t \in Nat /\ up[t] \in Nat
      BY DEF Network, Nodes
  <2>2. t # s
      BY <1>0
  <2>3. ~(s < t)
    <3> SUFFICES ASSUME s < t PROVE FALSE
        OBVIOUS
    <3>1. up[t] < s
        BY <1>0, <2>1
    <3>2. up[t] <= up[s]
        BY <3>1, Upper
    <3> QED BY <1>0, <2>1, <3>2
  <2> QED BY <1>0, <2>1, <2>2, <2>3
<1>2. IsFiniteSet(k + 1 .. s - 1) /\ Cardinality(k + 1 .. s - 1) = s - 1 - k
  <2>1. k + 1 \in Int /\ s - 1 \in Int
      BY <1>0
  <2>2. /\ IsFiniteSet(k + 1 .. s - 1)
        /\ Cardinality(k + 1 .. s - 1) =
              IF k + 1 > s - 1 THEN 0 ELSE (s - 1) - (k + 1) + 1
      BY <2>1, FS_Interval
  <2> QED BY <1>0, <2>2
<1>3. Cardinality(Hanging(s, k)) <= s - 1 - k
  <2>1. Hanging(s, k) \in SUBSET (k + 1 .. s - 1)
      BY <1>1
  <2>2. Cardinality(Hanging(s, k)) <= Cardinality(k + 1 .. s - 1)
      BY <1>2, <2>1, FS_Subset
  <2> QED BY <1>2, <2>2
<1>4. /\ IsFiniteSet(Hanging(s, k))
      /\ Topoc(s, k) = Cardinality(Hanging(s, k)) - (s - k)
  <2>1. k \in 1 .. s
      BY <1>0 DEF Nodes
  <2> QED BY <2>1, TopocCounts
<1>5. Cardinality(Hanging(s, k)) \in Nat
    BY <1>4, FS_CardinalityType
<1> QED BY <1>0, <1>3, <1>4, <1>5

(* All the slaves from up[s] + 1 to s hang on those from up[s] on.         *)
LEMMA Open ==
    ASSUME Network, NEW s \in Nodes, LinksCounted(s), s # 1
    PROVE  Topoc(s, up[s]) >= 0 /\ topology[up[s]] > 1
<1> DEFINE p == up[s]
<1>0. s \in Nat /\ SlaveCount \in Nat /\ p \in 1 .. s - 1 /\ p \in Nodes
  <2>1. p \in 0 .. SlaveCount - 1 /\ p < s /\ p # 0 /\ SlaveCount \in Nat
      BY TopologyAssumption DEF Network
  <2> HIDE DEF p
  <2> QED BY <2>1 DEF Nodes
<1>1. p + 1 .. s \subseteq Hanging(s, p)
  <2> SUFFICES ASSUME NEW t \in p + 1 .. s
               PROVE  t \in Nodes /\ up[t] \in p .. s - 1
      BY DEF Hanging
  <2>1. t \in Nodes
      BY <1>0 DEF Nodes
  <2>2. up[t] < t /\ up[t] \in Nat
      BY <2>1 DEF Network
  <2>3. p <= up[t]
    <3>1. CASE t = s
        BY <1>0, <3>1
    <3>2. CASE t # s
      <4>1. p < t /\ t < s
          BY <1>0, <3>2
      <4> QED BY <2>1, <4>1, Upper
    <3> QED BY <3>1, <3>2
  <2> QED BY <1>0, <2>1, <2>2, <2>3
<1>2. Cardinality(p + 1 .. s) = s - p
  <2>1. p + 1 \in Int /\ s \in Int
      BY <1>0
  <2> HIDE DEF p
  <2>2. Cardinality(p + 1 .. s) = IF p + 1 > s THEN 0 ELSE s - (p + 1) + 1
      BY <2>1, FS_Interval
  <2> QED BY <1>0, <2>2
<1>3. /\ IsFiniteSet(Hanging(s, p))
      /\ Topoc(s, p) = Cardinality(Hanging(s, p)) - (s - p)
  <2>1. p \in 1 .. s
      BY <1>0
  <2> HIDE DEF p
  <2> QED BY <2>1, TopocCounts
<1>4. Cardinality(Hanging(s, p)) \in Nat /\ Cardinality(p + 1 .. s) <= Cardinality(Hanging(s, p))
  <2>1. p + 1 .. s \in SUBSET Hanging(s, p)
      BY <1>1
  <2> HIDE DEF p
  <2> QED BY <1>3, <2>1, FS_Subset, FS_CardinalityType
<1>5. Topoc(s, p) >= 0
  <2> HIDE DEF p
  <2> QED BY <1>0, <1>2, <1>3, <1>4
<1>6. topology[p] > 1
  <2>1. topology[p] = Cardinality(Children(p)) + 1
      BY <1>0, LinksOf DEF LinksCounted
  <2>2. s \in Children(p)
      BY DEF Children
  <2>3. IsFiniteSet(Children(p)) /\ Cardinality(Children(p)) \in Nat
      BY <1>0, LinksOf
  <2>4. Cardinality(Children(p)) # 0
      BY <2>2, <2>3, FS_EmptySet
  <2> QED BY <2>1, <2>3, <2>4
<1> QED BY <1>5, <1>6

LEMMA ParentFound ==
    ASSUME Network, NEW s \in Nodes, LinksCounted(s)
    PROVE  ParentOf(s) = up[s]
<1>1. CASE s = 1
  <2>1. up[s] = 0
      BY <1>1 DEF Network
  <2> QED BY <1>1, <2>1 DEF ParentOf
<1>2. CASE s # 1
  <2> DEFINE p == up[s]
             Is(k) == /\ IsParent(s, k)
                      /\ \A j \in k + 1 .. s - 1 : ~IsParent(s, j)
  <2>0. s \in Nat /\ p \in 1 .. s - 1 /\ 1 .. s - 1 \subseteq Nodes
    <3>1. SlaveCount \in Nat /\ s \in 1 .. SlaveCount
        BY TopologyAssumption DEF Nodes
    <3>2. p \in 0 .. SlaveCount - 1 /\ p < s /\ p # 0
        BY <1>2 DEF Network
    <3> HIDE DEF p
    <3> QED BY <3>1, <3>2 DEF Nodes
  <2>1. IsParent(s, p)
      BY <1>2, Open DEF IsParent
  <2>2. \A j \in p + 1 .. s - 1 : ~IsParent(s, j)
    <3> TAKE j \in p + 1 .. s - 1
    <3>1. j \in Nodes /\ p < j /\ j < s /\ j # 1
        BY <2>0
    <3>2. Topoc(s, j) < 0
        BY <3>1, Closed
    <3>3. Topoc(s, j) \in Int
      <4>1. /\ IsFiniteSet(Hanging(s, j))
            /\ Topoc(s, j) = Cardinality(Hanging(s, j)) - (s - j)
          BY <2>0, <3>1, TopocCounts
      <4> QED BY <2>0, <3>1, <4>1, FS_CardinalityType
    <3> QED BY <3>1, <3>2, <3>3 DEF IsParent
  <2> HIDE DEF p
  <2>3. ASSUME NEW k \in 1 .. s - 1, Is(k) PROVE k = p
    <3>1. CASE k < p
      <4>1. p \in k + 1 .. s - 1
          BY <2>0, <3>1
      <4> QED BY <2>1, <2>3, <4>1
    <3>2. CASE k > p
      <4>1. k \in p + 1 .. s - 1
          BY <2>0, <3>2
      <4> QED BY <2>2, <2>3, <4>1
    <3> QED BY <2>0, <3>1, <3>2
  <2>4. ParentOf(s) = CHOOSE k \in 1 .. s - 1 : Is(k)
      BY <1>2 DEF ParentOf
  <2>5. Is(p)
      BY <2>1, <2>2
  <2> HIDE DEF Is
  <2> QED BY <2>0, <2>3, <2>4, <2>5 DEF p
<1> QED BY <1>1, <1>2

(***************************************************************************)
(* ecx_config_init, step by step.                                          *)
(***************************************************************************)
Shape ==
    /\ topology \in [Nodes -> Nat] /\ activeports \in [Nodes -> SUBSET (0 .. 3)]
    /\ parent \in [Nodes -> 0 .. SlaveCount]
    /\ consumed \in [Nodes -> SUBSET (0 .. 3)] /\ DOMAIN entryport = Nodes
    /\ DOMAIN pdelay = Nodes
    /\ phase \in {"config", "dc", "done"} /\ visit \in Nodes

Configured(s) ==
    /\ activeports[s] = Links(s)
    /\ topology[s] = Cardinality(Links(s))
    /\ parent[s] = up[s]

ConfigInv == \A s \in Nodes : phase # "config" \/ s < visit => Configured(s)

(* What a slave is found to be: the network does not change.               *)
LEMMA Fixed ==
    ASSUME UNCHANGED <<up, port, delay, dc, off>>
    PROVE  /\ Network => Network'
           /\ \A s \in Nodes : (Links(s))' = Links(s)
BY DEF Network, Links, Children, Numbered, Wired

LEMMA ConfigStep ==
    ASSUME Network, Shape, ConfigInv, ConfigInit
    PROVE  Network' /\ Shape' /\ ConfigInv'
<1>0. /\ phase = "config"
      /\ UNCHANGED <<up, port, delay, dc, off>>
      /\ UNCHANGED <<consumed, entryport, pdelay>>
      /\ activeports' = [activeports EXCEPT ![visit] = Links(visit)]
      /\ topology' = [topology EXCEPT ![visit] = Cardinality(Links(visit))]
      /\ parent' = [parent EXCEPT ![visit] = ParentOf(visit)]
      /\ phase' = IF visit < SlaveCount THEN "config" ELSE "dc"
      /\ visit' = IF visit < SlaveCount THEN visit + 1 ELSE 1
    BY DEF ConfigInit
<1>1. visit \in Nodes /\ SlaveCount \in Nat \ {0}
    BY TopologyAssumption DEF Shape
<1>2. Network'
  <2>1. UNCHANGED <<up, port, delay, dc, off>>
      BY <1>0
  <2> QED BY <2>1, Fixed
<1>3. LinksCounted(visit)
  <2> SUFFICES ASSUME NEW j \in 1 .. visit - 1
               PROVE  topology[j] = Cardinality(Links(j))
      BY DEF LinksCounted
  <2>1. j \in Nodes /\ j < visit
      BY <1>1 DEF Nodes
  <2> QED BY <2>1 DEF ConfigInv, Configured
<1>4. ParentOf(visit) = up[visit]
    BY <1>1, <1>3, ParentFound
<1>5. /\ Links(visit) \in SUBSET (0 .. 3)
      /\ Cardinality(Links(visit)) \in Nat /\ up[visit] \in 0 .. SlaveCount
  <2>1. PortsOf(visit) \subseteq {1, 2, 3}
      BY <1>1, ChildrenOf DEF PortsOf
  <2>2. Links(visit) = {0} \cup PortsOf(visit)
      BY <1>1, LinksOf
  <2>3. Cardinality(Links(visit)) \in Nat
      BY <1>1, LinksOf
  <2>4. up[visit] \in 0 .. SlaveCount
      BY <1>1 DEF Network
  <2> QED BY <2>1, <2>2, <2>3, <2>4
<1>6. visit' \in Nodes /\ phase' \in {"config", "dc", "done"}
    BY <1>0, <1>1 DEF Nodes
<1>7. Shape'
    BY <1>0, <1>1, <1>4, <1>5, <1>6 DEF Shape
<1>8. ASSUME NEW s \in Nodes, phase' # "config" \/ s < visit'
      PROVE  Configured(s)'
  <2>1. s < visit \/ s = visit
      BY <1>0, <1>1, <1>8 DEF Nodes
  <2>2. (Links(s))' = Links(s) /\ up' = up
      BY <1>0, Fixed
  <2>3. CASE s < visit
    <3>1. s # visit /\ Configured(s)
        BY <1>1, <2>3 DEF ConfigInv, Nodes
    <3>2. activeports'[s] = activeports[s] /\ topology'[s] = topology[s] /\ parent'[s] = parent[s]
        BY <1>0, <3>1 DEF Shape
    <3> QED BY <2>2, <3>1, <3>2 DEF Configured
  <2>4. CASE s = visit
    <3>1. /\ activeports'[s] = Links(s) /\ topology'[s] = Cardinality(Links(s))
          /\ parent'[s] = up[s]
        BY <1>0, <1>4, <2>4 DEF Shape
    <3> QED BY <2>2, <3>1 DEF Configured
  <2> QED BY <2>1, <2>3, <2>4
<1> QED BY <1>2, <1>7, <1>8 DEF ConfigInv

LEMMA ConsumeWithin ==
    ASSUME NEW P, P \subseteq 0 .. 3
    PROVE  Consume(P) \subseteq 0 .. 3
BY DEF Consume

LEMMA DcStep ==
    ASSUME Network, Shape, ConfigInv, ConfigDC
    PROVE  Network' /\ Shape' /\ ConfigInv'
<1>0. /\ phase = "dc" /\ UNCHANGED <<up, port, delay, dc, off, topology, activeports, parent>>
      /\ phase' \in {"dc", "done"} /\ visit' = IF visit < SlaveCount THEN visit + 1 ELSE visit
    BY DEF ConfigDC
<1>1. visit \in Nodes /\ visit' \in Nodes
    BY <1>0, TopologyAssumption DEF Shape, Nodes
<1>2. consumed' \in [Nodes -> SUBSET (0 .. 3)] /\ DOMAIN pdelay' = Nodes
      /\ DOMAIN entryport' = Nodes
  <2> DEFINE A(P) == [consumed EXCEPT ![visit] = P]
             B(P, t) == [A(P) EXCEPT ![t] = Consume(@)]
  <2>1. ASSUME NEW P \in SUBSET (0 .. 3), NEW t
        PROVE  /\ A(P) \in [Nodes -> SUBSET (0 .. 3)]
               /\ B(P, t) \in [Nodes -> SUBSET (0 .. 3)]
    <3>1. A(P) \in [Nodes -> SUBSET (0 .. 3)]
        BY <1>1 DEF Shape
    <3> HIDE DEF A
    <3>2. CASE t \in Nodes
      <4>1. Consume(A(P)[t]) \in SUBSET (0 .. 3)
          BY <3>1, <3>2, ConsumeWithin
      <4> QED BY <3>1, <3>2, <4>1
    <3>3. CASE t \notin Nodes
        BY <3>1, <3>3
    <3> QED BY <3>1, <3>2, <3>3
  <2>2. activeports[visit] \in SUBSET (0 .. 3)
      BY <1>1 DEF Shape
  <2>3. CASE WithClock
    <3> DEFINE P == activeports[visit] \ {EntryPort(visit)}
               t == DCParent(visit)
    <3>1. consumed' = A(P) \/ consumed' = B(P, t)
        BY <2>3 DEF WithClock
    <3>2. P \in SUBSET (0 .. 3)
        BY <2>2
    <3>3. DOMAIN pdelay' = Nodes /\ DOMAIN entryport' = Nodes
        BY <2>3 DEF WithClock, Shape
    <3> HIDE DEF P, t, A, B
    <3> QED BY <2>1, <3>1, <3>2, <3>3
  <2>4. CASE WithoutClock
    <3> DEFINE P == activeports[visit]
               t == IF parent[visit] > 0 /\ topology[parent[visit]] > 2
                       THEN parent[visit] ELSE parenthold
    <3>1. consumed' = A(P) \/ consumed' = B(P, t)
        BY <2>4 DEF WithoutClock
    <3>2. UNCHANGED <<entryport, pdelay>>
        BY <2>4 DEF WithoutClock
    <3>3. P \in SUBSET (0 .. 3)
        BY <2>2
    <3>4. DOMAIN pdelay' = Nodes /\ DOMAIN entryport' = Nodes
        BY <3>2 DEF Shape
    <3> HIDE DEF P, A, B, t
    <3> QED BY <2>1, <3>1, <3>3, <3>4
  <2> QED BY <2>3, <2>4 DEF ConfigDC
<1>3. Network' /\ \A s \in Nodes : (Links(s))' = Links(s)
    BY <1>0, Fixed
<1>4. Shape'
    BY <1>0, <1>1, <1>2 DEF Shape
<1>5. ConfigInv'
  <2> SUFFICES ASSUME NEW s \in Nodes PROVE Configured(s)'
      BY DEF ConfigInv
  <2>1. Configured(s)
      BY <1>0 DEF ConfigInv
  <2> QED BY <1>0, <1>3, <2>1 DEF Configured
<1> QED BY <1>3, <1>4, <1>5

LEMMA TreeStarts ==
    ASSUME TreeInit
    PROVE  Network /\ Shape /\ ConfigInv
<1>1. Network
  <2>1. delay \in [Nodes -> Nat] /\ off \in [Nodes -> -HalfRange .. HalfRange - 1]
      BY TopologyAssumption DEF TreeInit
  <2> QED BY <2>1 DEF TreeInit, Network
<1>2. Shape
    BY TopologyAssumption DEF TreeInit, Shape, Nodes
<1>3. ConfigInv
    BY DEF TreeInit, ConfigInv, Nodes
<1> QED BY <1>1, <1>2, <1>3

LEMMA ConfigInvariant == TreeSpec => [](Network /\ Shape /\ ConfigInv)
<1>1. TreeInit => Network /\ Shape /\ ConfigInv
    BY TreeStarts
<1>2. Network /\ Shape /\ ConfigInv /\ [TreeNext]_treeVars
      => (Network /\ Shape /\ ConfigInv)'
  <2> SUFFICES ASSUME Network, Shape, ConfigInv, [TreeNext]_treeVars
               PROVE  (Network /\ Shape /\ ConfigInv)'
      OBVIOUS
  <2>1. CASE ConfigInit
      BY <2>1, ConfigStep
  <2>2. CASE ConfigDC
      BY <2>2, DcStep
  <2>3. CASE UNCHANGED treeVars
    <3>1. UNCHANGED <<up, port, delay, dc, off, topology, activeports, parent, consumed,
                      entryport, pdelay, phase, visit>>
        BY <2>3 DEF treeVars
    <3>2. Network' /\ \A s \in Nodes : (Links(s))' = Links(s)
        BY <3>1, Fixed
    <3>3. Shape'
        BY <3>1 DEF Shape
    <3>4. ConfigInv'
        BY <3>1, <3>2 DEF ConfigInv, Configured
    <3> QED BY <3>2, <3>3, <3>4
  <2> QED BY <2>1, <2>2, <2>3 DEF TreeNext
<1> QED BY <1>1, <1>2, PTL DEF TreeSpec

(* ethercatconfig.c:436-468: in every tree, the slave found to be the one  *)
(* before, from nothing but the number of links of each slave, is the one  *)
(* before.                                                                 *)
THEOREM ParentsAreRight == TreeSpec => []ParentIsRight
<1>1. Network /\ Shape /\ ConfigInv => ParentIsRight
  <2> SUFFICES ASSUME Network, Shape, ConfigInv, phase # "config"
               PROVE  parent = up
      BY DEF ParentIsRight
  <2>1. \A s \in Nodes : parent[s] = up[s]
      BY DEF ConfigInv, Configured
  <2>2. DOMAIN parent = Nodes /\ parent = [s \in Nodes |-> parent[s]]
      BY DEF Shape
  <2>3. up = [s \in Nodes |-> up[s]]
      BY DEF Network
  <2> QED BY <2>1, <2>2, <2>3
<1> QED BY <1>1, ConfigInvariant, PTL

(***************************************************************************)
(* The times of the frame. Each is a recursive function, of the slaves     *)
(* behind (Trip) or of those before (Arrival, and the searches of          *)
(* ecx_configdc).                                                          *)
(***************************************************************************)
LEMMA LegIs ==
    ASSUME Network, NEW s \in Nodes, NEW p
    PROVE  /\ \A t, c : c \in Children(s) /\ port[c] = p => Leg(s, p, t) = 2 * delay[c] + t[c]
           /\ \A t : p \notin PortsOf(s) => Leg(s, p, t) = 0
<1>1. ASSUME NEW t, NEW c \in Children(s), port[c] = p
      PROVE  Leg(s, p, t) = 2 * delay[c] + t[c]
  <2>1. \A d \in Children(s) : port[d] = p => d = c
      BY <1>1, ChildrenDiffer
  <2>2. (CHOOSE d \in Children(s) : port[d] = p) = c
      BY <1>1, <2>1
  <2> QED BY <1>1, <2>2 DEF Leg
<1>2. ASSUME NEW t, p \notin PortsOf(s)
      PROVE  Leg(s, p, t) = 0
  <2>1. ~\E d \in Children(s) : port[d] = p
      BY <1>2 DEF PortsOf
  <2> QED BY <2>1 DEF Leg
<1> QED BY <1>1, <1>2

LEMMA LegNat ==
    ASSUME Network, NEW s \in Nodes, NEW p, NEW t \in [Nodes -> Nat]
    PROVE  Leg(s, p, t) \in Nat
<1>1. CASE p \in PortsOf(s)
  <2>1. PICK c \in Children(s) : port[c] = p
      BY <1>1 DEF PortsOf
  <2>2. Leg(s, p, t) = 2 * delay[c] + t[c]
      BY <2>1, LegIs
  <2>3. c \in Nodes
      BY ChildrenOf
  <2>4. delay[c] \in Nat /\ t[c] \in Nat
      BY <2>3 DEF Network
  <2> QED BY <2>2, <2>4
<1>2. CASE p \notin PortsOf(s)
    BY <1>2, LegIs
<1> QED BY <1>1, <1>2

LEMMA LegLocal ==
    ASSUME Network, NEW s \in Nodes, NEW p, NEW t, NEW r,
           \A c \in Nodes : s < c => t[c] = r[c]
    PROVE  Leg(s, p, t) = Leg(s, p, r)
<1>1. CASE p \in PortsOf(s)
  <2>1. PICK c \in Children(s) : port[c] = p
      BY <1>1 DEF PortsOf
  <2>2. c \in Nodes /\ s < c
      BY ChildrenOf
  <2>3. Leg(s, p, t) = 2 * delay[c] + t[c] /\ Leg(s, p, r) = 2 * delay[c] + r[c]
      BY <2>1, LegIs
  <2> QED BY <2>2, <2>3
<1>2. CASE p \notin PortsOf(s)
  <2>1. Leg(s, p, t) = 0 /\ Leg(s, p, r) = 0
      BY <1>2, LegIs
  <2> QED BY <2>1
<1> QED BY <1>1, <1>2

LegSum(s, t) == Leg(s, 3, t) + Leg(s, 1, t) + Leg(s, 2, t)

LEMMA TripIs ==
    ASSUME Network
    PROVE  Trip \in [Nodes -> Nat] /\ \A s \in Nodes : Trip[s] = LegSum(s, Trip)
<1> DEFINE n == SlaveCount
           A == [0 .. n -> Nat]
           Down(F) == [s \in Nodes |-> F[n - s]]
           g == [x \in 0 .. n |-> [F \in A |->
                    IF x = n THEN 0 ELSE LegSum(n - x, Down(F))]]
<1>0. n \in Nat \ {0} /\ Nodes = 1 .. n
    BY TopologyAssumption DEF Nodes
<1> HIDE DEF n
<1>1. ASSUME NEW F \in A PROVE Down(F) \in [Nodes -> Nat]
    BY <1>0
<1>2. ASSUME NEW s \in Nodes, NEW t \in [Nodes -> Nat] PROVE LegSum(s, t) \in Nat
  <2>1. Leg(s, 3, t) \in Nat /\ Leg(s, 1, t) \in Nat /\ Leg(s, 2, t) \in Nat
      BY LegNat
  <2> QED BY <2>1 DEF LegSum
<1>3. \A x \in 0 .. n : x # n => n - x \in Nodes
    BY <1>0
<1> HIDE DEF Down
<1>4. g \in [0 .. n -> [A -> Nat]]
  <2>1. \A x \in 0 .. n, F \in A : (IF x = n THEN 0 ELSE LegSum(n - x, Down(F))) \in Nat
      BY <1>1, <1>2, <1>3
  <2> HIDE DEF A
  <2> QED BY <2>1
<1>5. \A x \in 0 .. n, F \in A : g[x][F] = IF x = n THEN 0 ELSE LegSum(n - x, Down(F))
    OBVIOUS
<1> HIDE DEF g
<1>6. ASSUME NEW x \in 0 .. n, NEW F \in A, NEW G \in A,
             \A j \in 0 .. n : j < x => F[j] = G[j]
      PROVE  g[x][F] = g[x][G]
  <2>1. CASE x = n
      BY <1>5, <2>1
  <2>2. CASE x # n
    <3> DEFINE s == n - x
    <3>1. s \in Nodes
        BY <1>3, <2>2
    <3>2. ASSUME NEW c \in Nodes, s < c PROVE Down(F)[c] = Down(G)[c]
      <4>1. n - c \in 0 .. n /\ n - c < x
          BY <1>0, <3>2
      <4>2. F[n - c] = G[n - c]
          BY <1>6, <4>1
      <4> QED BY <4>2 DEF Down
    <3> HIDE DEF s
    <3>3. Leg(s, 3, Down(F)) = Leg(s, 3, Down(G))
        BY <3>1, <3>2, LegLocal
    <3>4. Leg(s, 1, Down(F)) = Leg(s, 1, Down(G))
        BY <3>1, <3>2, LegLocal
    <3>5. Leg(s, 2, Down(F)) = Leg(s, 2, Down(G))
        BY <3>1, <3>2, LegLocal
    <3>6. LegSum(s, Down(F)) = LegSum(s, Down(G))
        BY <3>3, <3>4, <3>5 DEF LegSum
    <3>7. g[x][F] = LegSum(s, Down(F)) /\ g[x][G] = LegSum(s, Down(G))
        BY <1>5, <2>2 DEF s
    <3> QED BY <3>6, <3>7
  <2> QED BY <2>1, <2>2
<1>7. PICK f \in A : \A x \in 0 .. n : f[x] = g[x][f]
  <2>1. 0 \in Nat
      OBVIOUS
  <2>2. Local(n, Nat, g)
      BY <1>4, <1>6, Zenon DEF Local
  <2>3. Solved(n, Nat, g)
      BY <1>0, <2>1, <2>2, Recursive, Zenon
  <2> QED BY <2>3, Zenon DEF Solved
<1> DEFINE Is(t) == t = [s \in Nodes |-> Leg(s, 3, t) + Leg(s, 1, t) + Leg(s, 2, t)]
           u == Down(f)
<1>8. Is(u)
  <2>1. ASSUME NEW s \in Nodes PROVE u[s] = LegSum(s, u)
    <3>1. n - s \in 0 .. n /\ n - s # n /\ n - (n - s) = s
        BY <1>0
    <3>2. f[n - s] = LegSum(s, Down(f))
        BY <1>5, <1>7, <3>1
    <3>3. u[s] = f[n - s]
        BY DEF Down
    <3> QED BY <3>2, <3>3
  <2>2. u = [s \in Nodes |-> u[s]]
      BY DEF Down
  <2> HIDE DEF u
  <2>3. \A s \in Nodes : u[s] = Leg(s, 3, u) + Leg(s, 1, u) + Leg(s, 2, u)
      BY <2>1 DEF LegSum
  <2> QED BY <2>2, <2>3
<1>9. Trip = CHOOSE t : Is(t)
    BY Zenon DEF Trip
<1>10. Is(Trip)
    BY <1>8, <1>9, Zenon
<1>11. \A s \in Nodes : Trip[s] = LegSum(s, Trip)
    BY <1>10 DEF LegSum
<1>12. Trip = [s \in Nodes |-> Trip[s]]
    BY <1>10
<1>13. ASSUME NEW x \in 0 .. n PROVE x = n \/ Trip[n - x] \in Nat
  <2> DEFINE T == {y \in 0 .. n : y = n \/ Trip[n - y] \in Nat}
  <2>1. ASSUME NEW y \in 0 .. n, \A j \in 0 .. y - 1 : j \in T
        PROVE  y \in T
    <3>1. CASE y = n
        BY <3>1
    <3>2. CASE y # n
      <4> DEFINE s == n - y
                 v == [c \in Nodes |-> IF s < c THEN Trip[c] ELSE 0]
      <4>1. s \in Nodes
          BY <1>3, <3>2
      <4>2. ASSUME NEW c \in Nodes, s < c PROVE Trip[c] \in Nat
        <5>1. n - c \in 0 .. y - 1 /\ n - c # n /\ n - (n - c) = c
            BY <1>0, <4>2
        <5> QED BY <2>1, <5>1
      <4>3. v \in [Nodes -> Nat]
          BY <4>2
      <4>4. \A c \in Nodes : s < c => Trip[c] = v[c]
          OBVIOUS
      <4> HIDE DEF s, v
      <4>5. Leg(s, 3, Trip) = Leg(s, 3, v)
          BY <4>1, <4>4, LegLocal
      <4>6. Leg(s, 1, Trip) = Leg(s, 1, v)
          BY <4>1, <4>4, LegLocal
      <4>7. Leg(s, 2, Trip) = Leg(s, 2, v)
          BY <4>1, <4>4, LegLocal
      <4>8. Trip[s] = LegSum(s, v)
          BY <1>11, <4>1, <4>5, <4>6, <4>7 DEF LegSum
      <4>9. Trip[s] \in Nat
          BY <1>2, <4>1, <4>3, <4>8
      <4> QED BY <4>9 DEF s
    <3> QED BY <3>1, <3>2
  <2> HIDE DEF T
  <2>2. \A y \in 0 .. n : y \in T
      BY <1>0, <2>1, UpToAll
  <2> QED BY <2>2 DEF T
<1>14. \A s \in Nodes : Trip[s] \in Nat
  <2> TAKE s \in Nodes
  <2>1. n - s \in 0 .. n /\ n - s # n /\ n - (n - s) = s
      BY <1>0
  <2> QED BY <1>13, <2>1
<1> QED BY <1>11, <1>12, <1>14

LEMMA OutIs ==
    ASSUME Network, NEW s \in Nodes, NEW p \in {1, 2, 3}
    PROVE  /\ OutAt(s, p) \in Nat /\ Leg(s, p, Trip) \in Nat
           /\ OutAt(s, p) + Leg(s, p, Trip) <= Trip[s]
           /\ \A q \in {1, 2, 3} : Rank(q) < Rank(p) =>
                 OutAt(s, q) + Leg(s, q, Trip) <= OutAt(s, p)
<1> DEFINE a == Leg(s, 3, Trip)
           b == Leg(s, 1, Trip)
           c == Leg(s, 2, Trip)
<1>1. a \in Nat /\ b \in Nat /\ c \in Nat
    BY TripIs, LegNat
<1>2. Trip[s] = a + b + c
    BY TripIs DEF LegSum
<1>3. OutAt(s, 3) = 0 /\ OutAt(s, 1) = a /\ OutAt(s, 2) = a + b
    BY DEF OutAt
<1>4. Rank(3) = 1 /\ Rank(1) = 2 /\ Rank(2) = 3
    BY DEF Rank
<1> HIDE DEF a, b, c
<1>5. CASE p = 3
    BY <1>1, <1>2, <1>3, <1>4, <1>5 DEF a
<1>6. CASE p = 1
    BY <1>1, <1>2, <1>3, <1>4, <1>6 DEF a, b
<1>7. CASE p = 2
    BY <1>1, <1>2, <1>3, <1>4, <1>7 DEF a, b, c
<1> QED BY <1>5, <1>6, <1>7

(* Arrival, counted from the slave before.                                 *)
LEMMA ArrivalIs ==
    ASSUME Network
    PROVE  /\ Arrival \in [Nodes -> Nat]
           /\ \A s \in Nodes : s # 1 =>
                 Arrival[s] = Arrival[up[s]] + OutAt(up[s], port[s]) + delay[s]
<1> DEFINE n == SlaveCount
           A == [0 .. n -> Nat]
           Step(s, F) == F[up[s]] + OutAt(up[s], port[s]) + delay[s]
           g == [k \in 0 .. n |-> [F \in A |-> IF k <= 1 THEN 0 ELSE Step(k, F)]]
<1>0. n \in Nat \ {0} /\ Nodes = 1 .. n
    BY TopologyAssumption DEF Nodes
<1> HIDE DEF n
<1>1. ASSUME NEW s \in Nodes, s # 1
      PROVE  /\ up[s] \in Nodes /\ up[s] < s /\ up[s] \in 0 .. n
             /\ OutAt(up[s], port[s]) \in Nat /\ delay[s] \in Nat
  <2>1. up[s] \in 0 .. n - 1 /\ up[s] < s /\ up[s] # 0 /\ delay[s] \in Nat /\ port[s] \in {1, 2, 3}
      BY <1>1 DEF Network, n
  <2>2. up[s] \in Nodes
      BY <1>0, <2>1
  <2>3. OutAt(up[s], port[s]) \in Nat
      BY <2>1, <2>2, OutIs
  <2> QED BY <1>0, <2>1, <2>2, <2>3
<1>2. ASSUME NEW k \in 0 .. n, ~(k <= 1) PROVE k \in Nodes /\ k # 1
    BY <1>0, <1>2
<1>3. ASSUME NEW k \in 0 .. n, ~(k <= 1), NEW F \in A PROVE Step(k, F) \in Nat
  <2>1. /\ up[k] \in 0 .. n /\ OutAt(up[k], port[k]) \in Nat /\ delay[k] \in Nat
      BY <1>1, <1>2, <1>3
  <2>2. F[up[k]] \in Nat
      BY <2>1
  <2> QED BY <2>1, <2>2
<1>4. \A k \in 0 .. n, F, G \in A :
         ~(k <= 1) /\ (\A j \in 0 .. n : j < k => F[j] = G[j]) => Step(k, F) = Step(k, G)
  <2> TAKE k \in 0 .. n, F \in A, G \in A
  <2> HAVE ~(k <= 1) /\ (\A j \in 0 .. n : j < k => F[j] = G[j])
  <2>1. up[k] \in 0 .. n /\ up[k] < k
      BY <1>1, <1>2
  <2>2. F[up[k]] = G[up[k]]
      BY <2>1
  <2> QED BY <2>2
<1> HIDE DEF Step
<1>5. g \in [0 .. n -> [A -> Nat]]
  <2>1. \A k \in 0 .. n, F \in A : (IF k <= 1 THEN 0 ELSE Step(k, F)) \in Nat
      BY <1>3
  <2> HIDE DEF A
  <2> QED BY <2>1
<1>6. \A k \in 0 .. n, F \in A : g[k][F] = IF k <= 1 THEN 0 ELSE Step(k, F)
    OBVIOUS
<1> HIDE DEF g
<1>7. PICK f \in A : \A k \in 0 .. n : f[k] = g[k][f]
  <2>1. 0 \in Nat
      OBVIOUS
  <2>2. \A k \in 0 .. n, F, G \in A :
           (\A j \in 0 .. n : j < k => F[j] = G[j]) => g[k][F] = g[k][G]
    <3> TAKE k \in 0 .. n, F \in A, G \in A
    <3> HAVE \A j \in 0 .. n : j < k => F[j] = G[j]
    <3>1. ~(k <= 1) => Step(k, F) = Step(k, G)
        BY <1>4
    <3> HIDE DEF A
    <3>2. g[k][F] = (IF k <= 1 THEN 0 ELSE Step(k, F)) /\ g[k][G] = (IF k <= 1 THEN 0 ELSE Step(k, G))
        BY <1>6
    <3> QED BY <3>1, <3>2
  <2>3. Local(n, Nat, g)
      BY <1>5, <2>2, Zenon DEF Local
  <2>4. Solved(n, Nat, g)
      BY <1>0, <2>1, <2>3, Recursive, Zenon
  <2> QED BY <2>4, Zenon DEF Solved
<1> DEFINE Is(a) == a = [s \in Nodes |->
                          IF s = 1 THEN 0 ELSE a[up[s]] + OutAt(up[s], port[s]) + delay[s]]
           b == [s \in Nodes |-> f[s]]
<1>8. Is(b)
  <2>1. ASSUME NEW s \in Nodes
        PROVE  b[s] = IF s = 1 THEN 0 ELSE b[up[s]] + OutAt(up[s], port[s]) + delay[s]
    <3>1. s \in 0 .. n /\ b[s] = f[s]
        BY <1>0
    <3>2. CASE s = 1
      <4>1. f[s] = 0
          BY <1>6, <1>7, <3>1, <3>2
      <4> QED BY <3>1, <3>2, <4>1
    <3>3. CASE s # 1
      <4>1. ~(s <= 1)
          BY <1>0, <3>3
      <4>2. f[s] = Step(s, f)
          BY <1>6, <1>7, <3>1, <4>1
      <4>3. b[up[s]] = f[up[s]]
          BY <1>1, <3>3
      <4> QED BY <3>1, <3>3, <4>2, <4>3 DEF Step
    <3> QED BY <3>2, <3>3
  <2>2. b = [s \in Nodes |-> b[s]]
      OBVIOUS
  <2> HIDE DEF b
  <2> QED BY <2>1, <2>2
<1>9. Arrival = CHOOSE a : Is(a)
    BY Zenon DEF Arrival
<1>10. Is(Arrival)
    BY <1>8, <1>9, Zenon
<1>11. /\ Arrival = [s \in Nodes |-> Arrival[s]]
       /\ \A s \in Nodes : Arrival[s] =
             IF s = 1 THEN 0 ELSE Arrival[up[s]] + OutAt(up[s], port[s]) + delay[s]
    BY <1>10
<1>12. \A k \in 0 .. n : k = 0 \/ Arrival[k] \in Nat
  <2> DEFINE T == {k \in 0 .. n : k = 0 \/ Arrival[k] \in Nat}
  <2>1. ASSUME NEW k \in 0 .. n, \A j \in 0 .. k - 1 : j \in T
        PROVE  k \in T
    <3>1. CASE k <= 1
      <4>1. k = 0 \/ k = 1
          BY <1>0, <3>1
      <4>2. 1 \in Nodes
          BY <1>0
      <4>3. Arrival[1] = 0
          BY <1>11, <4>2
      <4> QED BY <4>1, <4>3
    <3>2. CASE ~(k <= 1)
      <4>1. k \in Nodes /\ k # 1
          BY <1>2, <3>2
      <4>2. /\ up[k] \in Nodes /\ up[k] < k /\ up[k] \in 0 .. n
            /\ OutAt(up[k], port[k]) \in Nat /\ delay[k] \in Nat
          BY <1>1, <4>1
      <4>3. up[k] \in 0 .. k - 1 /\ up[k] # 0
          BY <1>0, <4>2
      <4>4. Arrival[up[k]] \in Nat
          BY <2>1, <4>3
      <4>5. Arrival[k] = Arrival[up[k]] + OutAt(up[k], port[k]) + delay[k]
          BY <1>11, <4>1
      <4> QED BY <4>2, <4>4, <4>5
    <3> QED BY <3>1, <3>2
  <2> HIDE DEF T
  <2>2. \A k \in 0 .. n : k \in T
      BY <1>0, <2>1, UpToAll
  <2> QED BY <2>2 DEF T
<1>13. \A s \in Nodes : Arrival[s] \in Nat
  <2> TAKE s \in Nodes
  <2>1. s \in 0 .. n /\ s # 0
      BY <1>0
  <2> QED BY <1>12, <2>1
<1> QED BY <1>11, <1>13

(* The searches of ecx_configdc go from slave to slave towards the master, *)
(* until they meet one of Q.                                               *)
Found == DOMAIN parent = Nodes /\ \A s \in Nodes : Configured(s)

LEMMA Searches ==
    ASSUME Network, NEW Q
    PROVE  \E f \in [0 .. SlaveCount -> 0 .. SlaveCount] :
              f[0] = 0 /\ \A k \in Nodes : f[k] = IF k \in Q THEN k ELSE f[up[k]]
<1> DEFINE n == SlaveCount
           S == 0 .. n
           A == [0 .. n -> S]
           g == [k \in 0 .. n |-> [F \in A |-> IF k = 0 \/ k \in Q THEN k ELSE F[up[k]]]]
<1>0. n \in Nat \ {0} /\ Nodes = 1 .. n
    BY TopologyAssumption DEF Nodes
<1> HIDE DEF n
<1>1. ASSUME NEW k \in 0 .. n, k # 0 PROVE k \in Nodes /\ up[k] \in 0 .. n /\ up[k] < k
  <2>1. k \in Nodes
      BY <1>0, <1>1
  <2>2. up[k] \in 0 .. n - 1 /\ up[k] < k
      BY <2>1 DEF Network, n
  <2> QED BY <1>0, <2>1, <2>2
<1>2. g \in [0 .. n -> [A -> S]]
  <2>1. \A k \in 0 .. n, F \in A : (IF k = 0 \/ k \in Q THEN k ELSE F[up[k]]) \in S
      BY <1>1
  <2> HIDE DEF A, S
  <2> QED BY <2>1
<1>3. \A k \in 0 .. n, F \in A : g[k][F] = IF k = 0 \/ k \in Q THEN k ELSE F[up[k]]
    OBVIOUS
<1> HIDE DEF g
<1>4. \A k \in 0 .. n, F, G \in A :
         (\A j \in 0 .. n : j < k => F[j] = G[j]) => g[k][F] = g[k][G]
  <2> TAKE k \in 0 .. n, F \in A, G \in A
  <2> HAVE \A j \in 0 .. n : j < k => F[j] = G[j]
  <2>1. k # 0 => F[up[k]] = G[up[k]]
      BY <1>1
  <2>2. /\ g[k][F] = IF k = 0 \/ k \in Q THEN k ELSE F[up[k]]
        /\ g[k][G] = IF k = 0 \/ k \in Q THEN k ELSE G[up[k]]
      BY <1>3
  <2> QED BY <2>1, <2>2
<1>5. PICK f \in A : \A k \in 0 .. n : f[k] = g[k][f]
  <2>1. 0 \in S
      BY <1>0
  <2>2. Local(n, S, g)
      BY <1>2, <1>4, Zenon DEF Local
  <2> HIDE DEF S
  <2>3. Solved(n, S, g)
      BY <1>0, <2>1, <2>2, Recursive, Zenon
  <2> QED BY <2>3, Zenon DEF Solved
<1>6. f[0] = 0
  <2>1. 0 \in 0 .. n
      BY <1>0
  <2> QED BY <1>3, <1>5, <2>1
<1>7. ASSUME NEW k \in Nodes PROVE f[k] = IF k \in Q THEN k ELSE f[up[k]]
  <2>1. k \in 0 .. n /\ k # 0
      BY <1>0
  <2> QED BY <1>3, <1>5, <2>1
<1> QED BY <1>6, <1>7 DEF n

LEMMA NearestIs ==
    ASSUME Network, Found
    PROVE  /\ \A k \in Nodes : up[k] = 0 => DCParent(k) = 0
           /\ \A k, u \in Nodes : up[k] = u /\ dc[u] => DCParent(k) = u
           /\ \A k, u \in Nodes : up[k] = u /\ ~dc[u] => DCParent(k) = DCParent(u)
<1> DEFINE Is(d) == d = [k \in 0 .. SlaveCount |->
                           IF k = 0 \/ dc[k] THEN k ELSE d[parent[k]]]
           d == CHOOSE d : Is(d)
<1>0. SlaveCount \in Nat \ {0} /\ Nodes = 1 .. SlaveCount
    BY TopologyAssumption DEF Nodes
<1>1. \A k \in Nodes : parent[k] = up[k] /\ up[k] \in 0 .. SlaveCount
  <2>1. \A k \in Nodes : up[k] \in 0 .. SlaveCount - 1
      BY DEF Network
  <2> QED BY <1>0, <2>1 DEF Found, Configured
<1>2. PICK f \in [0 .. SlaveCount -> 0 .. SlaveCount] :
         f[0] = 0 /\ \A k \in Nodes : f[k] = IF k \in {t \in Nodes : dc[t]} THEN k ELSE f[up[k]]
    BY Searches
<1>3. Is(f)
  <2>1. ASSUME NEW k \in 0 .. SlaveCount
        PROVE  f[k] = IF k = 0 \/ dc[k] THEN k ELSE f[parent[k]]
    <3>1. CASE k = 0
        BY <1>2, <3>1
    <3>2. CASE k # 0
      <4>1. k \in Nodes
          BY <1>0, <3>2
      <4> QED BY <1>1, <1>2, <3>2, <4>1
    <3> QED BY <3>1, <3>2
  <2> QED BY <2>1
<1>4. Is(d)
    BY <1>3, Zenon
<1>5. \A s \in Nodes : DCParent(s) = d[up[s]]
  <2>1. \A s \in Nodes : DCParent(s) = d[parent[s]]
      BY Zenon DEF DCParent
  <2> QED BY <1>1, <2>1
<1> HIDE DEF d
<1>6. d[0] = 0 /\ \A k \in Nodes : d[k] = IF dc[k] THEN k ELSE d[up[k]]
  <2>1. 0 \in 0 .. SlaveCount /\ \A k \in Nodes : k \in 0 .. SlaveCount /\ k # 0
      BY <1>0
  <2>2. \A k \in 0 .. SlaveCount : d[k] = IF k = 0 \/ dc[k] THEN k ELSE d[parent[k]]
      BY <1>4
  <2> QED BY <1>1, <2>1, <2>2
<1> QED BY <1>5, <1>6

LEMMA TowardsIs ==
    ASSUME Network, Found, NEW top \in Nodes
    PROVE  /\ \A k \in Nodes : up[k] = top => ChildTowards(k, top) = k
           /\ \A k \in Nodes : up[k] # top /\ k # 1 =>
                 ChildTowards(k, top) = ChildTowards(up[k], top)
<1> DEFINE Is(d) == d = [k \in 0 .. SlaveCount |->
                           IF k = 0 \/ parent[k] = top THEN k ELSE d[parent[k]]]
           d == CHOOSE d : Is(d)
<1>0. SlaveCount \in Nat \ {0} /\ Nodes = 1 .. SlaveCount
    BY TopologyAssumption DEF Nodes
<1>1. \A k \in Nodes : parent[k] = up[k]
    BY DEF Found, Configured
<1>2. PICK f \in [0 .. SlaveCount -> 0 .. SlaveCount] :
         f[0] = 0 /\ \A k \in Nodes : f[k] = IF k \in {t \in Nodes : up[t] = top} THEN k ELSE f[up[k]]
    BY Searches
<1>3. Is(f)
  <2>1. ASSUME NEW k \in 0 .. SlaveCount
        PROVE  f[k] = IF k = 0 \/ parent[k] = top THEN k ELSE f[parent[k]]
    <3>1. CASE k = 0
        BY <1>2, <3>1
    <3>2. CASE k # 0
      <4>1. k \in Nodes
          BY <1>0, <3>2
      <4> QED BY <1>1, <1>2, <3>2, <4>1
    <3> QED BY <3>1, <3>2
  <2> QED BY <2>1
<1>4. Is(d)
    BY <1>3, Zenon
<1>5. \A s : ChildTowards(s, top) = d[s]
    BY Zenon DEF ChildTowards
<1> HIDE DEF d
<1>6. \A k \in Nodes : d[k] = IF up[k] = top THEN k ELSE d[up[k]]
  <2>1. \A k \in Nodes : k \in 0 .. SlaveCount /\ k # 0
      BY <1>0
  <2>2. \A k \in 0 .. SlaveCount : d[k] = IF k = 0 \/ parent[k] = top THEN k ELSE d[parent[k]]
      BY <1>4
  <2> QED BY <1>1, <2>1, <2>2
<1> QED BY <1>5, <1>6

(***************************************************************************)
(* What the clocks tell: the times between two ports of a slave.           *)
(***************************************************************************)
LEMMA WrappedSame ==
    ASSUME NEW x \in -HalfRange .. HalfRange - 1
    PROVE  Wrapped(x) = x
<1>1. HalfRange \in Nat \ {0}
    BY TopologyAssumption
<1>2. \A m \in Nat \ {0}, y \in Nat : y < m => y % m = y
    OBVIOUS
<1>3. x + HalfRange \in Nat /\ 2 * HalfRange \in Nat \ {0} /\ x + HalfRange < 2 * HalfRange
    BY <1>1
<1>4. (x + HalfRange) % (2 * HalfRange) = x + HalfRange
    BY <1>2, <1>3
<1> QED BY <1>1, <1>4 DEF Wrapped

At(s, p) == IF p = 0 THEN 0 ELSE BackAt(s, p)

LEMMA AtIs ==
    ASSUME Network, NEW s \in Nodes
    PROVE  \A p \in 0 .. 3 : At(s, p) \in Nat /\ At(s, p) <= Trip[s]
<1> TAKE p \in 0 .. 3
<1>1. Trip[s] \in Nat
    BY TripIs
<1>2. CASE p = 0
    BY <1>1, <1>2 DEF At
<1>3. CASE p # 0
  <2>1. p \in {1, 2, 3}
      BY <1>3
  <2>2. OutAt(s, p) \in Nat /\ Leg(s, p, Trip) \in Nat /\ OutAt(s, p) + Leg(s, p, Trip) <= Trip[s]
      BY <2>1, OutIs
  <2> QED BY <1>1, <1>3, <2>2 DEF At, BackAt
<1> QED BY <1>2, <1>3

LEMMA TimesAreRight ==
    ASSUME Network, NoneWraps, NEW s \in Nodes, dc[s]
    PROVE  /\ \A p \in 0 .. 3 : PortTime(s, p) = off[s] + At(s, p)
           /\ \A p, q \in 0 .. 3 : Since(s, p, q) = At(s, q) - At(s, p)
<1>1. HalfRange \in Nat \ {0} /\ off[s] \in -HalfRange .. HalfRange - 1
    BY TopologyAssumption DEF Network
<1>2. Trip[s] \in Nat
    BY TripIs
<1>3. off[s] + Trip[s] < HalfRange /\ Trip[s] < HalfRange
    BY DEF NoneWraps
<1>4. ASSUME NEW p \in 0 .. 3 PROVE PortTime(s, p) = off[s] + At(s, p)
  <2>1. At(s, p) \in Nat /\ At(s, p) <= Trip[s]
      BY AtIs
  <2>2. off[s] + At(s, p) \in -HalfRange .. HalfRange - 1
      BY <1>1, <1>2, <1>3, <2>1
  <2>3. PortTime(s, p) = Wrapped(off[s] + At(s, p))
      BY Zenon DEF PortTime, At
  <2> QED BY <2>2, <2>3, WrappedSame
<1>5. ASSUME NEW p \in 0 .. 3, NEW q \in 0 .. 3 PROVE Since(s, p, q) = At(s, q) - At(s, p)
  <2> DEFINE a == At(s, p)
             b == At(s, q)
  <2>1. a \in Nat /\ a <= Trip[s] /\ b \in Nat /\ b <= Trip[s]
      BY AtIs
  <2>2. PortTime(s, p) = off[s] + a /\ PortTime(s, q) = off[s] + b
      BY <1>4
  <2> HIDE DEF a, b
  <2>3. PortTime(s, q) - PortTime(s, p) = b - a
      BY <1>1, <2>1, <2>2
  <2>4. b - a \in -HalfRange .. HalfRange - 1
      BY <1>1, <1>2, <1>3, <2>1
  <2>5. Since(s, p, q) = Wrapped(b - a)
      BY <2>3 DEF Since
  <2>6. Since(s, p, q) = b - a
      BY <2>4, <2>5, WrappedSame
  <2> QED BY <2>6 DEF a, b
<1> QED BY <1>4, <1>5

LEMMA FirstInIs ==
    ASSUME NEW n \in Nat, NEW order, DOMAIN order = 1 .. n, NEW S, NEW none,
           NEW k \in 1 .. n, order[k] \in S, \A j \in 1 .. k - 1 : order[j] \notin S
    PROVE  FirstIn(order, S, none) = order[k]
<1> DEFINE Is(x) == order[x] \in S /\ \A j \in 1 .. x - 1 : order[j] \notin S
<1>1. \A x \in 1 .. n : Is(x) => x = k
  <2> TAKE x \in 1 .. n
  <2>1. CASE x < k
    <3>1. x \in 1 .. k - 1
        BY <2>1
    <3> QED BY <3>1
  <2>2. CASE x > k
    <3>1. k \in 1 .. x - 1
        BY <2>2
    <3> QED BY <3>1
  <2> QED BY <2>1, <2>2
<1>2. Is(k)
    OBVIOUS
<1>3. FirstIn(order, S, none) = order[CHOOSE x \in 1 .. n : Is(x)]
    BY DEF FirstIn
<1> HIDE DEF Is
<1> QED BY <1>1, <1>2, <1>3

LEMMA NoneIn ==
    ASSUME NEW n \in Nat, NEW order, DOMAIN order = 1 .. n, NEW S, NEW none,
           \A k \in 1 .. n : order[k] \notin S
    PROVE  FirstIn(order, S, none) = none
BY DEF FirstIn

LEMMA FirstOfFour ==
    ASSUME NEW a, NEW b, NEW c, NEW d, NEW S, NEW none
    PROVE  FirstIn(<<a, b, c, d>>, S, none) =
              IF a \in S THEN a ELSE IF b \in S THEN b
              ELSE IF c \in S THEN c ELSE IF d \in S THEN d ELSE none
<1> DEFINE order == <<a, b, c, d>>
           n == 4
<1>1. /\ DOMAIN order = 1 .. n /\ n \in Nat
      /\ order[1] = a /\ order[2] = b /\ order[3] = c /\ order[4] = d
    OBVIOUS
<1> HIDE DEF order
<1>2. CASE a \in S
  <2>1. PICK k \in 1 .. n : k = 1
      OBVIOUS
  <2>2. order[k] = a /\ order[k] \in S /\ \A j \in 1 .. k - 1 : order[j] \notin S
      BY <1>1, <1>2, <2>1
  <2> HIDE DEF n
  <2>3. FirstIn(order, S, none) = order[k]
      BY <1>1, <1>2, <2>2, FirstInIs
  <2> QED BY <1>2, <2>2, <2>3 DEF order
<1>3. CASE a \notin S /\ b \in S
  <2>1. PICK k \in 1 .. n : k = 2
      OBVIOUS
  <2>2. order[k] = b /\ order[k] \in S /\ \A j \in 1 .. k - 1 : order[j] \notin S
      BY <1>1, <1>3, <2>1
  <2> HIDE DEF n
  <2>3. FirstIn(order, S, none) = order[k]
      BY <1>1, <1>3, <2>2, FirstInIs
  <2> QED BY <1>3, <2>2, <2>3 DEF order
<1>4. CASE a \notin S /\ b \notin S /\ c \in S
  <2>1. PICK k \in 1 .. n : k = 3
      OBVIOUS
  <2>2. order[k] = c /\ order[k] \in S /\ \A j \in 1 .. k - 1 : order[j] \notin S
      BY <1>1, <1>4, <2>1
  <2> HIDE DEF n
  <2>3. FirstIn(order, S, none) = order[k]
      BY <1>1, <1>4, <2>2, FirstInIs
  <2> QED BY <1>4, <2>2, <2>3 DEF order
<1>5. CASE a \notin S /\ b \notin S /\ c \notin S /\ d \in S
  <2>1. PICK k \in 1 .. n : k = 4
      OBVIOUS
  <2>2. order[k] = d /\ order[k] \in S /\ \A j \in 1 .. k - 1 : order[j] \notin S
      BY <1>1, <1>5, <2>1
  <2> HIDE DEF n
  <2>3. FirstIn(order, S, none) = order[k]
      BY <1>1, <1>5, <2>2, FirstInIs
  <2> QED BY <1>5, <2>2, <2>3 DEF order
<1>6. CASE a \notin S /\ b \notin S /\ c \notin S /\ d \notin S
  <2>1. \A k \in 1 .. n : order[k] \notin S
      BY <1>1, <1>6
  <2> HIDE DEF n
  <2>2. FirstIn(order, S, none) = none
      BY <1>1, <2>1, NoneIn, Zenon
  <2> QED BY <1>6, <2>2 DEF order
<1> QED BY <1>2, <1>3, <1>4, <1>5, <1>6

LEMMA FirstOfThree ==
    ASSUME NEW a, NEW b, NEW c, NEW S, NEW none
    PROVE  FirstIn(<<a, b, c>>, S, none) =
              IF a \in S THEN a ELSE IF b \in S THEN b ELSE IF c \in S THEN c ELSE none
<1> DEFINE order == <<a, b, c>>
           n == 3
<1>1. /\ DOMAIN order = 1 .. n /\ n \in Nat
      /\ order[1] = a /\ order[2] = b /\ order[3] = c
    OBVIOUS
<1> HIDE DEF order
<1>2. CASE a \in S
  <2>1. PICK k \in 1 .. n : k = 1
      OBVIOUS
  <2>2. order[k] = a /\ order[k] \in S /\ \A j \in 1 .. k - 1 : order[j] \notin S
      BY <1>1, <1>2, <2>1
  <2> HIDE DEF n
  <2>3. FirstIn(order, S, none) = order[k]
      BY <1>1, <1>2, <2>2, FirstInIs
  <2> QED BY <1>2, <2>2, <2>3 DEF order
<1>3. CASE a \notin S /\ b \in S
  <2>1. PICK k \in 1 .. n : k = 2
      OBVIOUS
  <2>2. order[k] = b /\ order[k] \in S /\ \A j \in 1 .. k - 1 : order[j] \notin S
      BY <1>1, <1>3, <2>1
  <2> HIDE DEF n
  <2>3. FirstIn(order, S, none) = order[k]
      BY <1>1, <1>3, <2>2, FirstInIs
  <2> QED BY <1>3, <2>2, <2>3 DEF order
<1>4. CASE a \notin S /\ b \notin S /\ c \in S
  <2>1. PICK k \in 1 .. n : k = 3
      OBVIOUS
  <2>2. order[k] = c /\ order[k] \in S /\ \A j \in 1 .. k - 1 : order[j] \notin S
      BY <1>1, <1>4, <2>1
  <2> HIDE DEF n
  <2>3. FirstIn(order, S, none) = order[k]
      BY <1>1, <1>4, <2>2, FirstInIs
  <2> QED BY <1>4, <2>2, <2>3 DEF order
<1>5. CASE a \notin S /\ b \notin S /\ c \notin S
  <2>1. \A k \in 1 .. n : order[k] \notin S
      BY <1>1, <1>5
  <2> HIDE DEF n
  <2>2. FirstIn(order, S, none) = none
      BY <1>1, <2>1, NoneIn, Zenon
  <2> QED BY <1>5, <2>2 DEF order
<1> QED BY <1>2, <1>3, <1>4, <1>5

LEMMA EntryIsFirst ==
    ASSUME Network, Found, NoneWraps, NEW s \in Nodes, dc[s]
    PROVE  EntryPort(s) = 0
<1> DEFINE L == {p \in activeports[s] : \A q \in activeports[s] :
                    PortTime(s, p) <= PortTime(s, q)}
           order == <<0, 3, 1, 2>>
<1>1. 0 \in activeports[s] /\ activeports[s] \subseteq 0 .. 3
  <2>1. activeports[s] = {0} \cup PortsOf(s)
      BY LinksOf DEF Found, Configured
  <2>2. PortsOf(s) \subseteq {1, 2, 3}
      BY ChildrenOf DEF PortsOf
  <2> QED BY <2>1, <2>2
<1>2. 0 \in L
  <2> SUFFICES ASSUME NEW q \in activeports[s] PROVE PortTime(s, 0) <= PortTime(s, q)
      BY <1>1
  <2>1. PortTime(s, 0) = off[s] + At(s, 0) /\ PortTime(s, q) = off[s] + At(s, q)
      BY <1>1, TimesAreRight
  <2>2. At(s, 0) = 0 /\ At(s, q) \in Nat /\ off[s] \in Int
      BY <1>1, AtIs DEF At, Network
  <2> QED BY <2>1, <2>2
<1>3. EntryPort(s) = FirstIn(order, L, 0)
    BY Zenon DEF EntryPort
<1> HIDE DEF L
<1>4. FirstIn(order, L, 0) = 0
    BY <1>2, FirstOfFour
<1> QED BY <1>3, <1>4

LEMMA ActiveIs ==
    ASSUME Network, Found, NEW s \in Nodes
    PROVE  /\ activeports[s] = {0} \cup PortsOf(s) /\ PortsOf(s) \subseteq {1, 2, 3}
           /\ topology[s] = 1 <=> PortsOf(s) = {}
           /\ topology[s] = Cardinality(Links(s))
<1>1. activeports[s] = {0} \cup PortsOf(s) /\ topology[s] = Cardinality(Children(s)) + 1
    BY LinksOf DEF Found, Configured
<1>2. PortsOf(s) \subseteq {1, 2, 3}
    BY ChildrenOf DEF PortsOf
<1>3. IsFiniteSet(Children(s)) /\ Cardinality(Children(s)) \in Nat
    BY LinksOf
<1>4. Cardinality(Children(s)) = 0 <=> Children(s) = {}
    BY <1>3, FS_EmptySet
<1>5. Children(s) = {} <=> PortsOf(s) = {}
    BY DEF PortsOf
<1>6. topology[s] = Cardinality(Links(s))
    BY DEF Found, Configured
<1> QED BY <1>1, <1>2, <1>3, <1>4, <1>5, <1>6

(* ecx_prevport: what it gives for a port is where the frame has been just *)
(* before it went out there; for the entry, where it has been last.        *)
LEMMA PrevPortIs ==
    ASSUME Network, Found, NEW s \in Nodes
    PROVE  /\ \A p \in PortsOf(s) : /\ PrevPort(s, p) \in 0 .. 3
                                    /\ At(s, PrevPort(s, p)) = OutAt(s, p)
           /\ PrevPort(s, 0) \in 0 .. 3 /\ At(s, PrevPort(s, 0)) = Trip[s]
<1> DEFINE L == activeports[s]
           a == Leg(s, 3, Trip)
           b == Leg(s, 1, Trip)
           c == Leg(s, 2, Trip)
<1>1. L = {0} \cup PortsOf(s) /\ PortsOf(s) \subseteq {1, 2, 3}
    BY ActiveIs
<1>2. /\ 3 \notin PortsOf(s) => a = 0
      /\ 1 \notin PortsOf(s) => b = 0
      /\ 2 \notin PortsOf(s) => c = 0
    BY LegIs
<1>3. a \in Nat /\ b \in Nat /\ c \in Nat /\ Trip[s] = a + b + c
    BY TripIs, LegNat DEF LegSum
<1>4. OutAt(s, 3) = 0 /\ OutAt(s, 1) = a /\ OutAt(s, 2) = a + b
    BY DEF OutAt
<1>5. At(s, 0) = 0 /\ At(s, 3) = a /\ At(s, 1) = a + b /\ At(s, 2) = a + b + c
    BY <1>3, <1>4 DEF At, BackAt
<1>6. /\ PrevPort(s, 3) = FirstIn(<<0, 2, 1>>, L, 3)
      /\ PrevPort(s, 1) = FirstIn(<<3, 0, 2>>, L, 1)
      /\ PrevPort(s, 2) = FirstIn(<<1, 3, 0>>, L, 2)
      /\ PrevPort(s, 0) = FirstIn(<<2, 1, 3>>, L, 0)
    BY DEF PrevPort
<1> HIDE DEF L, a, b, c
<1>7. PrevPort(s, 3) = 0
    BY <1>1, <1>6, FirstOfThree
<1>8. PrevPort(s, 1) = IF 3 \in PortsOf(s) THEN 3 ELSE 0
    BY <1>1, <1>6, FirstOfThree
<1>9. PrevPort(s, 2) = IF 1 \in PortsOf(s) THEN 1 ELSE IF 3 \in PortsOf(s) THEN 3 ELSE 0
    BY <1>1, <1>6, FirstOfThree
<1>10. PrevPort(s, 0) = IF 2 \in PortsOf(s) THEN 2 ELSE IF 1 \in PortsOf(s) THEN 1
                        ELSE IF 3 \in PortsOf(s) THEN 3 ELSE 0
    BY <1>1, <1>6, FirstOfThree
<1>11. At(s, PrevPort(s, 3)) = OutAt(s, 3)
    BY <1>4, <1>5, <1>7
<1>12. At(s, PrevPort(s, 1)) = OutAt(s, 1)
    BY <1>2, <1>3, <1>4, <1>5, <1>8
<1>13. At(s, PrevPort(s, 2)) = OutAt(s, 2)
    BY <1>2, <1>3, <1>4, <1>5, <1>9
<1>14. At(s, PrevPort(s, 0)) = Trip[s]
    BY <1>2, <1>3, <1>5, <1>10
<1>15. ASSUME NEW p \in PortsOf(s)
       PROVE  PrevPort(s, p) \in 0 .. 3 /\ At(s, PrevPort(s, p)) = OutAt(s, p)
  <2>1. p = 1 \/ p = 2 \/ p = 3
      BY <1>1
  <2>2. CASE p = 1
      BY <1>8, <1>12, <2>2
  <2>3. CASE p = 2
      BY <1>9, <1>13, <2>3
  <2>4. CASE p = 3
      BY <1>7, <1>11, <2>4
  <2> QED BY <2>1, <2>2, <2>3, <2>4
<1>16. PrevPort(s, 0) \in 0 .. 3
    BY <1>10
<1> QED BY <1>14, <1>15, <1>16

(***************************************************************************)
(* Branches. From d on, the frame has met neither a clock nor an end       *)
(* before k: k is then the slave after the last one met.                   *)
(***************************************************************************)
Pending(d, k) == \A x \in d .. k - 1 : ~dc[x] /\ Children(x) # {}

(* c hangs on a slave with a clock, and leads to k.                        *)
Behind(c, k) ==
    c \in Nodes /\ c <= k /\ up[c] # 0 /\ dc[up[c]] /\ Pending(c, k)

(* The frame goes on from a slave to the next if anything hangs on it.     *)
LEMMA NextIsChild ==
    ASSUME Network, NEW x \in Nodes, Children(x) # {}
    PROVE  x + 1 \in Nodes /\ up[x + 1] = x
<1>1. PICK y \in Children(x) : TRUE
    OBVIOUS
<1>2. y \in Nodes /\ up[y] = x /\ x < y /\ x \in Nat /\ y \in Nat /\ Nodes = 1 .. SlaveCount
    BY ChildrenOf DEF Nodes
<1>3. x + 1 \in Nodes
    BY <1>2, TopologyAssumption
<1>4. up[x + 1] \in Nat /\ up[x + 1] < x + 1
    BY <1>3 DEF Network
<1>5. CASE y = x + 1
    BY <1>2, <1>3, <1>5
<1>6. CASE y # x + 1
  <2>1. up[y] < x + 1 /\ x + 1 < y
      BY <1>2, <1>6
  <2>2. up[y] <= up[x + 1]
      BY <1>2, <1>3, <2>1, Upper
  <2> QED BY <1>2, <1>3, <1>4, <2>2
<1> QED BY <1>5, <1>6

LEMMA OneChild ==
    ASSUME Network, SplitsHaveClocks, NEW x \in Nodes, ~dc[x], NEW c \in Children(x)
    PROVE  c = x + 1
<1>1. x + 1 \in Nodes /\ up[x + 1] = x
    BY NextIsChild
<1>2. x + 1 \in Children(x)
    BY <1>1, ChildrenOf
<1>3. /\ Cardinality(Links(x)) = Cardinality(Children(x)) + 1
      /\ IsFiniteSet(Children(x)) /\ Cardinality(Children(x)) \in Nat
    BY LinksOf
<1>4. Cardinality(Children(x)) <= 1
    BY <1>3 DEF SplitsHaveClocks
<1>5. SUFFICES ASSUME c # x + 1 PROVE FALSE
    OBVIOUS
<1> DEFINE B == {c}
           A == B \cup {x + 1}
<1>6. IsFiniteSet(B) /\ Cardinality(B) = 1
    BY FS_Singleton
<1>7. x + 1 \notin B
    BY <1>5
<1> HIDE DEF B
<1>8. Cardinality(A) = Cardinality(B) + 1
    BY <1>6, <1>7, FS_AddElement
<1>9. A \in SUBSET Children(x)
    BY <1>2 DEF B
<1> HIDE DEF A
<1>10. Cardinality(A) <= Cardinality(Children(x))
    BY <1>3, <1>9, FS_Subset
<1> QED BY <1>3, <1>4, <1>6, <1>8, <1>10

(* Slaves on the way without a clock take nothing from the frame but the   *)
(* links.                                                                  *)
LEMMA PassedOn ==
    ASSUME Network, SplitsHaveClocks, NEW x \in Nodes, ~dc[x], Children(x) # {}
    PROVE  /\ x + 1 \in Nodes /\ up[x + 1] = x
           /\ Trip[x] = 2 * delay[x + 1] + Trip[x + 1]
           /\ Arrival[x + 1] = Arrival[x] + delay[x + 1]
<1> DEFINE y == x + 1
           p == port[y]
<1>1. y \in Nodes /\ up[y] = x
    BY NextIsChild
<1>2. y \in Children(x) /\ p \in {1, 2, 3} /\ y # 1
    BY <1>1, ChildrenOf
<1>3. PortsOf(x) = {p}
  <2>1. \A c \in Children(x) : c = y
      BY OneChild
  <2> HIDE DEF y
  <2> QED BY <1>2, <2>1 DEF PortsOf
<1>4. Leg(x, p, Trip) = 2 * delay[y] + Trip[y]
    BY <1>2, LegIs
<1>5. \A q \in {1, 2, 3} : q # p => Leg(x, q, Trip) = 0
    BY <1>3, LegIs
<1>6. Trip[x] = Leg(x, 3, Trip) + Leg(x, 1, Trip) + Leg(x, 2, Trip)
    BY TripIs DEF LegSum
<1>7. Leg(x, p, Trip) \in Nat
    BY TripIs, LegNat
<1>8. Arrival[y] = Arrival[x] + OutAt(x, p) + delay[y]
    BY <1>1, <1>2, ArrivalIs
<1>9. Arrival[x] \in Nat /\ delay[y] \in Nat
    BY <1>1, ArrivalIs DEF Network
<1> HIDE DEF y, p
<1>10. Trip[x] = Leg(x, p, Trip) /\ OutAt(x, p) = 0
  <2>1. CASE p = 3
      BY <1>5, <1>6, <1>7, <2>1 DEF OutAt
  <2>2. CASE p = 1
      BY <1>5, <1>6, <1>7, <2>2 DEF OutAt
  <2>3. CASE p = 2
      BY <1>5, <1>6, <1>7, <2>3 DEF OutAt
  <2> QED BY <1>2, <2>1, <2>2, <2>3
<1>11. Trip[x] = 2 * delay[y] + Trip[y] /\ Arrival[y] = Arrival[x] + delay[y]
    BY <1>4, <1>8, <1>9, <1>10
<1> QED BY <1>1, <1>11 DEF y

LEMMA BranchIs ==
    ASSUME Network, Found, SplitsHaveClocks, NEW k \in Nodes, NEW c, Behind(c, k)
    PROVE  /\ DCParent(k) = up[c] /\ ChildTowards(k, up[c]) = c
           /\ 2 * (Arrival[k] - Arrival[c]) = Trip[c] - Trip[k]
           /\ Arrival[c] <= Arrival[k]
<1> DEFINE n == k - c
           t == up[c]
           T == {x \in 0 .. n : /\ DCParent(c + x) = t /\ ChildTowards(c + x, t) = c
                                /\ 2 * (Arrival[c + x] - Arrival[c]) = Trip[c] - Trip[c + x]
                                /\ Arrival[c] <= Arrival[c + x]}
<1>0. /\ c \in Nodes /\ c \in Nat /\ k \in Nat /\ n \in Nat
      /\ t \in Nodes /\ t < c /\ dc[t]
  <2>1. c \in Nodes /\ c <= k /\ t # 0 /\ dc[t]
      BY DEF Behind
  <2>2. c \in Nat /\ k \in Nat
      BY <2>1 DEF Nodes
  <2>3. t \in 0 .. SlaveCount - 1 /\ t < c
      BY <2>1 DEF Network
  <2> HIDE DEF t
  <2>4. t \in Nodes
      BY <2>1, <2>3, TopologyAssumption DEF Nodes
  <2> QED BY <2>1, <2>2, <2>3, <2>4
<1>1. 0 \in T
  <2>1. DCParent(c) = t
      BY <1>0, NearestIs
  <2>2. ChildTowards(c, t) = c
      BY <1>0, TowardsIs
  <2>3. Arrival[c] \in Nat /\ Trip[c] \in Nat
      BY <1>0, ArrivalIs, TripIs
  <2>4. c + 0 = c /\ 0 \in 0 .. n
      BY <1>0
  <2> HIDE DEF n, t
  <2> QED BY <2>1, <2>2, <2>3, <2>4
<1>2. ASSUME NEW x \in 1 .. n, x - 1 \in T PROVE x \in T
  <2> DEFINE y == c + (x - 1)
  <2>1. /\ y \in c .. k - 1 /\ y + 1 = c + x /\ x \in 0 .. n /\ y \in Nat /\ t < y
        /\ y \in Nodes
    <3>1. c \in 1 .. SlaveCount /\ k \in 1 .. SlaveCount /\ SlaveCount \in Nat
        BY <1>0, TopologyAssumption DEF Nodes
    <3>2. t \in Nat
        BY <1>0 DEF Nodes
    <3> HIDE DEF t
    <3>3. /\ y \in c .. k - 1 /\ y + 1 = c + x /\ x \in 0 .. n /\ y \in Nat /\ t < y
        BY <1>0, <3>1, <3>2
    <3>4. y \in 1 .. SlaveCount
        BY <3>1, <3>3
    <3> QED BY <3>3, <3>4 DEF Nodes
  <2>2. ~dc[y] /\ Children(y) # {}
      BY <2>1 DEF Behind, Pending
  <2>3. /\ DCParent(y) = t /\ ChildTowards(y, t) = c
        /\ 2 * (Arrival[y] - Arrival[c]) = Trip[c] - Trip[y]
        /\ Arrival[c] <= Arrival[y]
      BY <1>2
  <2> HIDE DEF y, t, n
  <2>4. /\ y + 1 \in Nodes /\ up[y + 1] = y
        /\ Trip[y] = 2 * delay[y + 1] + Trip[y + 1]
        /\ Arrival[y + 1] = Arrival[y] + delay[y + 1]
      BY <2>1, <2>2, PassedOn
  <2>5. DCParent(y + 1) = t
      BY <2>1, <2>2, <2>3, <2>4, NearestIs
  <2>6. ChildTowards(y + 1, t) = c
    <3>1. y + 1 # 1 /\ y # t
        BY <1>0, <2>1 DEF Nodes
    <3>2. ChildTowards(y + 1, t) = ChildTowards(up[y + 1], t)
        BY <1>0, <2>4, <3>1, TowardsIs
    <3> QED BY <2>3, <2>4, <3>2
  <2>7. /\ Arrival[y] \in Nat /\ Arrival[y + 1] \in Nat /\ Arrival[c] \in Nat
        /\ Trip[y] \in Nat /\ Trip[y + 1] \in Nat /\ Trip[c] \in Nat
      BY <1>0, <2>1, <2>4, ArrivalIs, TripIs
  <2>8. delay[y + 1] \in Nat
      BY <2>4 DEF Network
  <2>9. /\ 2 * (Arrival[y + 1] - Arrival[c]) = Trip[c] - Trip[y + 1]
        /\ Arrival[c] <= Arrival[y + 1]
      BY <2>3, <2>4, <2>7, <2>8
  <2> QED BY <2>1, <2>5, <2>6, <2>9
<1> HIDE DEF T
<1>3. n \in T
  <2>1. \A x \in 0 .. n : x \in T
      BY <1>0, <1>1, <1>2, UpTo
  <2>2. n \in 0 .. n
      BY <1>0
  <2> QED BY <2>1, <2>2
<1>4. c + n = k
    BY <1>0
<1> QED BY <1>3, <1>4 DEF T

(* Every slave is on a branch of the nearest slave with a clock before it, *)
(* or there is none.                                                       *)
LEMMA Reach ==
    ASSUME Network, Found, SplitsHaveClocks, NEW k \in Nodes
    PROVE  \/ \E c \in Nodes : Behind(c, k)
           \/ (\A t \in 1 .. k - 1 : ~dc[t]) /\ DCParent(k) = 0
<1> DEFINE NoClock(j) == (\A t \in 1 .. j - 1 : ~dc[t]) /\ DCParent(j) = 0
           Good(j) == j \in Nodes => (\E c \in Nodes : Behind(c, j)) \/ NoClock(j)
           T == {j \in 0 .. SlaveCount : Good(j)}
<1>0. SlaveCount \in Nat /\ Nodes = 1 .. SlaveCount
    BY TopologyAssumption DEF Nodes
<1>1. ASSUME NEW j \in 0 .. SlaveCount, \A i \in 0 .. j - 1 : i \in T
      PROVE  j \in T
  <2> SUFFICES ASSUME j \in Nodes PROVE (\E c \in Nodes : Behind(c, j)) \/ NoClock(j)
      OBVIOUS
  <2> DEFINE u == up[j]
  <2>1. u \in Nat /\ u < j /\ j \in Nat
      BY DEF Network, Nodes
  <2>2. CASE u = 0
    <3>1. j = 1
        BY <2>2 DEF Network
    <3>2. DCParent(j) = 0
        BY <2>2, NearestIs
    <3>3. \A t \in 1 .. j - 1 : ~dc[t]
        BY <3>1
    <3> QED BY <3>2, <3>3
  <2> HIDE DEF u
  <2>3. u # 0 => u \in Nodes /\ u \in 0 .. j - 1
      BY <1>0, <2>1
  <2>4. CASE u # 0 /\ dc[u]
    <3>1. Pending(j, j)
        BY <2>1 DEF Pending
    <3>2. Behind(j, j)
        BY <2>1, <2>4, <3>1 DEF Behind, u
    <3> QED BY <3>2
  <2>5. CASE u # 0 /\ ~dc[u]
    <3>1. j \in Children(u)
        BY <2>3, <2>5, ChildrenOf DEF u
    <3>2. j = u + 1
        BY <2>3, <2>5, <3>1, OneChild
    <3>3. Good(u)
        BY <1>1, <2>3, <2>5
    <3>4. CASE NoClock(u)
      <4>1. \A t \in 1 .. j - 1 : t = u \/ t \in 1 .. u - 1
          BY <2>1, <3>2
      <4>2. DCParent(j) = DCParent(u)
          BY <2>3, <2>5, NearestIs DEF u
      <4> QED BY <2>5, <3>4, <4>1, <4>2
    <3>5. ASSUME NEW c \in Nodes, Behind(c, u) PROVE Behind(c, j)
      <4>1. c \in Nat /\ c <= u /\ Pending(c, u) /\ up[c] # 0 /\ dc[up[c]]
          BY <1>0, <3>5 DEF Behind
      <4>2. \A x \in c .. j - 1 : x = u \/ x \in c .. u - 1
          BY <2>1, <3>2, <4>1
      <4>3. ~dc[u] /\ Children(u) # {}
          BY <2>5, <3>1
      <4>4. Pending(c, j)
          BY <4>1, <4>2, <4>3 DEF Pending
      <4> QED BY <2>1, <4>1, <4>4 DEF Behind
    <3> QED BY <2>3, <2>5, <3>3, <3>4, <3>5
  <2> QED BY <2>2, <2>4, <2>5
<1> HIDE DEF T
<1>2. \A j \in 0 .. SlaveCount : j \in T
    BY <1>0, <1>1, UpToAll
<1> QED BY <1>0, <1>2 DEF T

(* A branch ends before the next one of the same slave.                    *)
LEMMA EndBefore ==
    ASSUME Network, NEW c \in Nodes, NEW d \in Nodes, up[c] = up[d], d < c,
           NEW k \in Nat, c <= k
    PROVE  ~Pending(d, k)
<1>0. /\ SlaveCount \in Nat /\ Nodes = 1 .. SlaveCount /\ c \in Nat /\ d \in Nat
      /\ up[d] \in Nat /\ up[d] < d
    BY TopologyAssumption DEF Nodes, Network
<1> DEFINE x == c - 1
<1>1. x \in Nodes /\ x \in d .. k - 1 /\ x + 1 = c
    BY <1>0
<1>2. Children(x) = {}
  <2> SUFFICES ASSUME Children(x) # {} PROVE FALSE
      OBVIOUS
  <2>1. up[x + 1] = x
      BY <1>1, NextIsChild
  <2>2. up[d] = x
      BY <1>1, <2>1
  <2> QED BY <1>0, <2>2
<1> HIDE DEF x
<1> QED BY <1>1, <1>2 DEF Pending

(* Behind a clock there is at most one branch at a time.                   *)
LEMMA OneBranch ==
    ASSUME Network, NEW k \in Nodes, NEW c, NEW d, Behind(c, k), Behind(d, k)
    PROVE  c = d
<1>0. c \in Nodes /\ d \in Nodes /\ c \in Nat /\ d \in Nat /\ k \in Nat
    BY DEF Behind, Nodes
<1>1. ASSUME NEW a, NEW b, Behind(a, k), Behind(b, k), a \in Nat, b \in Nat, a < b PROVE FALSE
  <2> DEFINE u == up[b]
  <2>1. b \in Nodes /\ b <= k /\ u # 0 /\ dc[u] /\ a \in Nodes /\ Pending(a, k)
      BY <1>1 DEF Behind
  <2>2. u \in Nat /\ u < b
      BY <2>1 DEF Network, Nodes
  <2> HIDE DEF u
  <2>3. CASE a <= u
    <3>1. u \in a .. k - 1
        BY <1>0, <1>1, <2>1, <2>2, <2>3
    <3> QED BY <2>1, <3>1 DEF Pending
  <2>4. CASE u < a
    <3>1. up[b] <= up[a]
        BY <1>1, <2>1, <2>4, Upper DEF u
    <3> DEFINE x == b - 1
    <3>2. x \in a .. k - 1 /\ x \in Nodes /\ x + 1 = b /\ x \in Nat /\ u < x + 1
        BY <1>0, <1>1, <2>1, <2>2, TopologyAssumption DEF Nodes
    <3>3. Children(x) # {}
        BY <2>1, <3>2 DEF Pending
    <3>4. up[x + 1] = x
        BY <3>2, <3>3, NextIsChild
    <3>5. u = x
        BY <3>2, <3>4 DEF u
    <3> QED BY <1>1, <2>2, <2>4, <3>2, <3>5
  <2> QED BY <1>1, <2>2, <2>3, <2>4
<1> QED BY <1>0, <1>1

(***************************************************************************)
(* The port and the delay found.                                           *)
(***************************************************************************)
LEMMA TwoChildren ==
    ASSUME Network, Found, NEW s \in Nodes,
           NEW c \in Children(s), NEW d \in Children(s), c # d
    PROVE  topology[s] > 2
<1> DEFINE A == {c}
           B == A \cup {d}
<1>1. IsFiniteSet(A) /\ Cardinality(A) = 1
    BY FS_Singleton
<1>2. d \notin A
    OBVIOUS
<1> HIDE DEF A
<1>3. Cardinality(B) = Cardinality(A) + 1
    BY <1>1, <1>2, FS_AddElement
<1>4. B \in SUBSET Children(s)
    BY DEF A
<1> HIDE DEF B
<1>5. IsFiniteSet(Children(s)) /\ Cardinality(Children(s)) \in Nat
    BY LinksOf
<1>6. Cardinality(B) <= Cardinality(Children(s))
    BY <1>4, <1>5, FS_Subset
<1>7. topology[s] = Cardinality(Children(s)) + 1
    BY LinksOf DEF Found, Configured
<1> QED BY <1>1, <1>3, <1>5, <1>6, <1>7

(* ecx_parentport: of the ports left, the one the frame goes out at first. *)
LEMMA LowestRank ==
    ASSUME NEW P, P \subseteq {1, 2, 3}, NEW q \in P,
           \A p \in P : Rank(q) <= Rank(p)
    PROVE  ParentPort(P) = q
<1>1. ParentPort(P) = IF 3 \in P THEN 3 ELSE IF 1 \in P THEN 1
                      ELSE IF 2 \in P THEN 2 ELSE IF 0 \in P THEN 0 ELSE 0
  <2>1. ParentPort(P) = FirstIn(<<3, 1, 2, 0>>, P, 0)
      BY DEF ParentPort
  <2> QED BY <2>1, FirstOfFour
<1>2. Rank(3) = 1 /\ Rank(1) = 2 /\ Rank(2) = 3
    BY DEF Rank
<1>3. q = 1 \/ q = 2 \/ q = 3
    OBVIOUS
<1>4. CASE q = 1
  <2>1. 3 \notin P
      BY <1>2, <1>4
  <2> QED BY <1>1, <1>4, <2>1
<1>5. CASE q = 2
  <2>1. 3 \notin P /\ 1 \notin P
      BY <1>2, <1>5
  <2> QED BY <1>1, <1>5, <2>1
<1>6. CASE q = 3
    BY <1>1, <1>6
<1> QED BY <1>3, <1>4, <1>5, <1>6

(* What is left of the ports of the slaves with clocks before k: those of  *)
(* the branches that have not come to an end. One that ended without a     *)
(* clock is given up only by a slave at which the network splits.          *)
PortsInv(k, left) ==
    \A t \in Nodes : t < k /\ dc[t] =>
        /\ left[t] \subseteq PortsOf(t)
        /\ \A d \in Children(t) :
              /\ Pending(d, k) => port[d] \in left[t]
              /\ ~Pending(d, k) /\ topology[t] > 2 => port[d] \notin left[t]

LEMMA BehindIs ==
    ASSUME Network, NEW k \in Nodes, NEW c, Behind(c, k)
    PROVE  /\ c \in Nodes /\ c \in Nat /\ k \in Nat /\ c <= k /\ c # 1
           /\ up[c] \in Nodes /\ up[c] \in Nat /\ up[c] < c
           /\ dc[up[c]] /\ Pending(c, k) /\ c \in Children(up[c])
           /\ port[c] \in PortsOf(up[c])
<1>1. c \in Nodes /\ c <= k /\ up[c] # 0 /\ dc[up[c]] /\ Pending(c, k)
    BY DEF Behind
<1>2. c \in Nat /\ k \in Nat /\ up[c] \in 0 .. SlaveCount - 1 /\ up[c] < c /\ c # 1
    BY <1>1 DEF Network, Nodes
<1>3. up[c] \in Nodes
    BY <1>1, <1>2, TopologyAssumption DEF Nodes
<1>4. c \in Children(up[c])
    BY <1>1, <1>3, ChildrenOf
<1>5. port[c] \in PortsOf(up[c])
    BY <1>4 DEF PortsOf
<1> QED BY <1>1, <1>2, <1>3, <1>4, <1>5

LEMMA ParentPortIs ==
    ASSUME Network, Found, NEW k \in Nodes, NEW c, Behind(c, k),
           PortsInv(k, consumed)
    PROVE  /\ ParentPort(consumed[up[c]]) = port[c]
           /\ topology[up[c]] # 1 /\ port[c] \in consumed[up[c]]
           /\ consumed[up[c]] \subseteq PortsOf(up[c])
<1> DEFINE t == up[c]
           P == consumed[t]
<1>1. /\ c \in Nodes /\ c \in Nat /\ k \in Nat /\ c <= k
      /\ t \in Nodes /\ t \in Nat /\ t < c
      /\ dc[t] /\ Pending(c, k) /\ c \in Children(t) /\ port[c] \in PortsOf(t)
    BY BehindIs
<1>2. t < k
    BY <1>1
<1>3. /\ P \subseteq PortsOf(t) /\ port[c] \in P
      /\ \A d \in Children(t) : ~Pending(d, k) /\ topology[t] > 2 => port[d] \notin P
    BY <1>1, <1>2 DEF PortsInv
<1>4. PortsOf(t) \subseteq {1, 2, 3} /\ topology[t] # 1
    BY <1>1, ActiveIs
<1>5. ASSUME NEW p \in P PROVE Rank(port[c]) <= Rank(p)
  <2>1. PICK d \in Children(t) : p = port[d]
      BY <1>3 DEF PortsOf
  <2>2. d \in Nodes /\ d \in Nat /\ up[d] = up[c]
      BY <1>1, <2>1, ChildrenOf DEF Nodes
  <2>3. CASE d < c
    <3>1. ~Pending(d, k)
        BY <1>1, <2>2, <2>3, EndBefore
    <3>2. topology[t] > 2
        BY <1>1, <2>1, <2>3, TwoChildren
    <3> QED BY <1>3, <2>1, <3>1, <3>2
  <2>4. CASE c <= d
      BY <1>1, <2>1, <2>4, ChildrenDiffer
  <2> QED BY <1>1, <2>2, <2>3, <2>4
<1> HIDE DEF P, t
<1>6. ParentPort(P) = port[c]
    BY <1>3, <1>4, <1>5, LowestRank
<1> QED BY <1>3, <1>4, <1>6 DEF P, t

(* Half is exact on what is even, as the time there and back is.           *)
LEMMA HalfIs ==
    ASSUME NEW x \in Nat
    PROVE  Half(2 * x) = x
BY DEF Half

LEMMA TripFits ==
    ASSUME Network, Found, NEW s \in Nodes, topology[s] = 1
    PROVE  Trip[s] = 0
<1>1. PortsOf(s) = {}
    BY ActiveIs
<1>2. \A p : Leg(s, p, Trip) = 0
    BY <1>1, LegIs
<1>3. Trip[s] = Leg(s, 3, Trip) + Leg(s, 1, Trip) + Leg(s, 2, Trip)
    BY TripIs DEF LegSum
<1> QED BY <1>2, <1>3

(* To the first slave after it the frame goes at once.                     *)
LEMMA FirstOut ==
    ASSUME Network, NEW s \in Nodes, NEW c \in Children(s), c = s + 1
    PROVE  OutAt(s, port[c]) = 0
<1>0. port[c] \in {1, 2, 3}
    BY ChildrenOf
<1>1. ASSUME NEW p \in {1, 2, 3}, Rank(p) < Rank(port[c])
      PROVE  Leg(s, p, Trip) = 0
  <2>1. SUFFICES ASSUME p \in PortsOf(s) PROVE FALSE
      BY LegIs
  <2>2. PICK d \in Children(s) : p = port[d]
      BY <2>1 DEF PortsOf
  <2>3. s \in Nat /\ d \in Nat /\ s < d
      BY ChildrenOf DEF Nodes
  <2>4. c <= d
      BY <2>3
  <2>5. Rank(port[c]) <= Rank(port[d])
      BY <2>4, ChildrenDiffer
  <2>6. Rank(p) \in Nat /\ Rank(port[c]) \in Nat
      BY <1>0 DEF Rank
  <2> QED BY <1>1, <2>2, <2>5, <2>6
<1>2. Rank(3) = 1 /\ Rank(1) = 2 /\ Rank(2) = 3
    BY DEF Rank
<1>3. CASE port[c] = 3
    BY <1>3 DEF OutAt
<1>4. CASE port[c] = 1
  <2>1. Leg(s, 3, Trip) = 0
      BY <1>1, <1>2, <1>4
  <2> QED BY <1>4, <2>1 DEF OutAt
<1>5. CASE port[c] = 2
  <2>1. Leg(s, 3, Trip) = 0 /\ Leg(s, 1, Trip) = 0
      BY <1>1, <1>2, <1>5
  <2> QED BY <1>5, <2>1 DEF OutAt
<1> QED BY <1>0, <1>3, <1>4, <1>5

(* The formula of ecx_configdc gives the time from the slave with a clock  *)
(* before it to the slave.                                                 *)
LEMMA DelayIs ==
    ASSUME Network, Found, NoneWraps, SplitsHaveClocks,
           NEW k \in Nodes, dc[k], NEW c, Behind(c, k), entryport[up[c]] = 0,
           pdelay[up[c]] \in Int
    PROVE  Delay(k, 0, up[c], port[c]) = Arrival[k] - Arrival[up[c]] + pdelay[up[c]]
<1> DEFINE t == up[c]
           p == port[c]
           q == PrevPort(t, p)
           dt3 == Since(t, q, p)
           mine == IF topology[k] > 1 THEN Since(k, 0, PrevPort(k, 0)) ELSE 0
           dt1 == IF mine > dt3 THEN -mine ELSE mine
           prev == IF ChildTowards(k, t) - t > 1 THEN Since(t, entryport[t], q) ELSE 0
           dt2 == IF prev < 0 THEN -prev ELSE prev
<1>1. /\ c \in Nodes /\ c \in Nat /\ c # 1
      /\ t \in Nodes /\ t \in Nat /\ t < c
      /\ dc[t] /\ c \in Children(t) /\ p \in PortsOf(t)
    BY BehindIs
<1>2. /\ ChildTowards(k, t) = c
      /\ 2 * (Arrival[k] - Arrival[c]) = Trip[c] - Trip[k]
      /\ Arrival[c] <= Arrival[k]
    BY BranchIs
<1>3. p \in {1, 2, 3}
    BY <1>1, ActiveIs
<1>4. /\ Arrival[k] \in Nat /\ Arrival[c] \in Nat /\ Arrival[t] \in Nat
      /\ Trip[c] \in Nat /\ Trip[k] \in Nat /\ delay[c] \in Nat
      /\ OutAt(t, p) \in Nat /\ Leg(t, p, Trip) \in Nat
  <2>1. Arrival \in [Nodes -> Nat] /\ Trip \in [Nodes -> Nat]
      BY ArrivalIs, TripIs
  <2>2. delay[c] \in Nat
      BY <1>1 DEF Network
  <2>3. OutAt(t, p) \in Nat /\ Leg(t, p, Trip) \in Nat
      BY <1>1, <1>3, OutIs
  <2> HIDE DEF t, p
  <2> QED BY <1>1, <2>1, <2>2, <2>3
<1>5. q \in 0 .. 3 /\ At(t, q) = OutAt(t, p)
    BY <1>1, PrevPortIs
<1>6. dt3 = 2 * delay[c] + Trip[c]
  <2>1. dt3 = At(t, p) - At(t, q)
    <3>1. p \in 0 .. 3
        BY <1>3
    <3> HIDE DEF t, p, q
    <3> QED BY <1>1, <1>5, <3>1, TimesAreRight DEF dt3
  <2>2. At(t, p) = OutAt(t, p) + Leg(t, p, Trip)
      BY <1>3 DEF At, BackAt
  <2>3. Leg(t, p, Trip) = 2 * delay[c] + Trip[c]
      BY <1>1, LegIs
  <2> HIDE DEF dt3, t, p, q
  <2> QED BY <1>4, <1>5, <2>1, <2>2, <2>3
<1>7. mine = Trip[k]
  <2>1. CASE topology[k] > 1
    <3>1. PrevPort(k, 0) \in 0 .. 3 /\ At(k, PrevPort(k, 0)) = Trip[k] /\ At(k, 0) = 0
        BY PrevPortIs DEF At
    <3>2. Since(k, 0, PrevPort(k, 0)) = At(k, PrevPort(k, 0)) - At(k, 0)
        BY <3>1, TimesAreRight
    <3> QED BY <1>4, <2>1, <3>1, <3>2
  <2>2. CASE ~(topology[k] > 1)
    <3>1. topology[k] = 1
      <4>1. topology[k] = Cardinality(Children(k)) + 1 /\ Cardinality(Children(k)) \in Nat
          BY LinksOf DEF Found, Configured
      <4> QED BY <2>2, <4>1
    <3>2. Trip[k] = 0
        BY <3>1, TripFits
    <3> QED BY <2>2, <3>2
  <2> QED BY <2>1, <2>2
<1>8. dt1 = Trip[k]
  <2> HIDE DEF mine, dt3
  <2> QED BY <1>2, <1>4, <1>6, <1>7
<1>9. dt2 = OutAt(t, p)
  <2>1. CASE c - t > 1
    <3>1. Since(t, 0, q) = At(t, q) - At(t, 0)
        BY <1>1, <1>5, TimesAreRight
    <3>2. At(t, 0) = 0
        BY DEF At
    <3>3. prev = Since(t, 0, q)
        BY <1>2, <2>1
    <3> HIDE DEF prev, q, p, t
    <3> QED BY <1>4, <1>5, <3>1, <3>2, <3>3
  <2>2. CASE ~(c - t > 1)
    <3>1. c = t + 1
      <4> HIDE DEF t
      <4> QED BY <1>1, <2>2
    <3>2. OutAt(t, p) = 0
        BY <1>1, <3>1, FirstOut
    <3>3. prev = 0
        BY <1>2, <2>2
    <3> HIDE DEF prev
    <3> QED BY <3>2, <3>3
  <2> QED BY <2>1, <2>2
<1>10. Arrival[c] = Arrival[t] + OutAt(t, p) + delay[c]
    BY <1>1, ArrivalIs
<1>11. Delay(k, 0, t, p) = Half(dt3 - dt1) + dt2 + pdelay[t]
    BY Zenon DEF Delay
<1>12. Half(dt3 - dt1) = delay[c] + (Arrival[k] - Arrival[c])
  <2> DEFINE x == delay[c] + (Arrival[k] - Arrival[c])
  <2> HIDE DEF dt3, dt1
  <2>1. x \in Nat /\ dt3 - dt1 = 2 * x
      BY <1>2, <1>4, <1>6, <1>8
  <2> HIDE DEF x
  <2>2. Half(dt3 - dt1) = x
      BY <2>1, HalfIs
  <2> QED BY <2>2 DEF x
<1>13. pdelay[t] \in Int
    OBVIOUS
<1>14. Delay(k, 0, t, p) = Arrival[k] - Arrival[t] + pdelay[t]
  <2> HIDE DEF dt3, dt1, dt2, t, p
  <2> QED BY <1>4, <1>9, <1>10, <1>11, <1>12, <1>13
<1> QED BY <1>14

(***************************************************************************)
(* The walk over the slaves.                                               *)
(***************************************************************************)
LEMMA PendingIs ==
    ASSUME NEW k \in Nat, NEW d \in Nat
    PROVE  /\ d <= k => (Pending(d, k + 1) <=>
                            Pending(d, k) /\ ~dc[k] /\ Children(k) # {})
           /\ d > k => Pending(d, k + 1) /\ Pending(d, k)
<1>1. CASE d <= k
  <2>1. d .. (k + 1) - 1 = (d .. k - 1) \cup {k}
      BY <1>1
  <2> QED BY <1>1, <2>1 DEF Pending
<1>2. CASE d > k
  <2>1. d .. (k + 1) - 1 = {} /\ d .. k - 1 = {}
      BY <1>2
  <2> QED BY <1>2, <2>1 DEF Pending
<1> QED BY <1>1, <1>2

LEMMA OwnPorts ==
    ASSUME Network, NEW k \in Nodes
    PROVE  \A d \in Children(k) : Pending(d, k + 1) /\ port[d] \in PortsOf(k)
<1> TAKE d \in Children(k)
<1>1. k \in Nat /\ d \in Nat /\ d > k
    BY ChildrenOf DEF Nodes
<1>2. Pending(d, k + 1)
    BY <1>1, PendingIs
<1> QED BY <1>2 DEF PortsOf

(* A branch ends at k, and the slave before it has given up its port.      *)
LEMMA PortsTaken ==
    ASSUME Network, NEW k \in Nodes, NEW c, Behind(c, k),
           dc[k] \/ Children(k) = {},
           NEW old, NEW new, PortsInv(k, old), dc[k] => new[k] = PortsOf(k),
           \A t \in Nodes : t < k /\ dc[t] =>
              new[t] = IF t = up[c] THEN old[t] \ {port[c]} ELSE old[t]
    PROVE  PortsInv(k + 1, new)
<1>0. k \in Nat /\ c \in Children(up[c])
    BY BehindIs
<1> SUFFICES ASSUME NEW t \in Nodes, t < k + 1, dc[t]
             PROVE  /\ new[t] \subseteq PortsOf(t)
                    /\ \A d \in Children(t) :
                          /\ Pending(d, k + 1) => port[d] \in new[t]
                          /\ ~Pending(d, k + 1) /\ topology[t] > 2 => port[d] \notin new[t]
    BY DEF PortsInv
<1>1. CASE t = k
    BY <1>1, OwnPorts
<1>2. CASE t # k
  <2>1. t \in Nat /\ t < k
      BY <1>0, <1>2 DEF Nodes
  <2>2. new[t] = IF t = up[c] THEN old[t] \ {port[c]} ELSE old[t]
      BY <2>1
  <2>3. /\ old[t] \subseteq PortsOf(t)
        /\ \A d \in Children(t) :
              /\ Pending(d, k) => port[d] \in old[t]
              /\ ~Pending(d, k) /\ topology[t] > 2 => port[d] \notin old[t]
      BY <2>1 DEF PortsInv
  <2>4. ASSUME NEW d \in Children(t)
        PROVE  /\ Pending(d, k + 1) => port[d] \in new[t]
               /\ ~Pending(d, k + 1) /\ topology[t] > 2 => port[d] \notin new[t]
    <3>1. d \in Nodes /\ d \in Nat /\ up[d] = t /\ t # 0
        BY <2>1, ChildrenOf DEF Nodes
    <3>2. CASE d > k
      <4>1. Pending(d, k + 1) /\ Pending(d, k)
          BY <1>0, <3>1, <3>2, PendingIs
      <4>2. c # d
          BY <1>0, <3>1, <3>2 DEF Behind
      <4>3. t = up[c] => port[c] # port[d]
          BY <1>0, <4>2, ChildrenDiffer
      <4> QED BY <2>2, <2>3, <4>1, <4>3
    <3>3. CASE d <= k
      <4>1. ~Pending(d, k + 1)
          BY <1>0, <3>1, <3>3, PendingIs
      <4>2. CASE Pending(d, k)
        <5>1. Behind(d, k)
            BY <3>1, <3>3, <4>2 DEF Behind
        <5>2. d = c
            BY <5>1, OneBranch
        <5> QED BY <2>2, <3>1, <4>1, <5>2
      <4>3. CASE ~Pending(d, k)
          BY <2>2, <2>3, <4>1, <4>3
      <4> QED BY <4>2, <4>3
    <3> QED BY <1>0, <3>1, <3>2, <3>3
  <2> QED BY <2>2, <2>3, <2>4
<1> QED BY <1>1, <1>2

(* Nothing ends at k, or only what no slave gives up a port for.           *)
LEMMA PortsKept ==
    ASSUME Network, NEW k \in Nodes,
           \A c : Behind(c, k) => (~dc[k] /\ Children(k) # {}) \/ ~(topology[up[c]] > 2),
           NEW old, NEW new, PortsInv(k, old), dc[k] => new[k] = PortsOf(k),
           \A t \in Nodes : t < k /\ dc[t] => new[t] = old[t]
    PROVE  PortsInv(k + 1, new)
<1>0. k \in Nat
    BY DEF Nodes
<1> SUFFICES ASSUME NEW t \in Nodes, t < k + 1, dc[t]
             PROVE  /\ new[t] \subseteq PortsOf(t)
                    /\ \A d \in Children(t) :
                          /\ Pending(d, k + 1) => port[d] \in new[t]
                          /\ ~Pending(d, k + 1) /\ topology[t] > 2 => port[d] \notin new[t]
    BY DEF PortsInv
<1>1. CASE t = k
    BY <1>1, OwnPorts
<1>2. CASE t # k
  <2>1. t \in Nat /\ t < k
      BY <1>0, <1>2 DEF Nodes
  <2>2. new[t] = old[t]
      BY <2>1
  <2>3. /\ old[t] \subseteq PortsOf(t)
        /\ \A d \in Children(t) :
              /\ Pending(d, k) => port[d] \in old[t]
              /\ ~Pending(d, k) /\ topology[t] > 2 => port[d] \notin old[t]
      BY <2>1 DEF PortsInv
  <2>4. ASSUME NEW d \in Children(t)
        PROVE  /\ Pending(d, k + 1) => port[d] \in new[t]
               /\ ~Pending(d, k + 1) /\ topology[t] > 2 => port[d] \notin new[t]
    <3>1. d \in Nodes /\ d \in Nat /\ up[d] = t /\ t # 0
        BY <2>1, ChildrenOf DEF Nodes
    <3>2. CASE d > k
      <4>1. Pending(d, k + 1) /\ Pending(d, k)
          BY <1>0, <3>1, <3>2, PendingIs
      <4> QED BY <2>2, <2>3, <4>1
    <3>3. CASE d <= k /\ Pending(d, k)
      <4>1. Behind(d, k)
          BY <3>1, <3>3 DEF Behind
      <4>2. (~dc[k] /\ Children(k) # {}) \/ ~(topology[t] > 2)
          BY <3>1, <4>1
      <4>3. Pending(d, k + 1) <=> ~dc[k] /\ Children(k) # {}
          BY <1>0, <3>1, <3>3, PendingIs
      <4> QED BY <2>2, <2>3, <3>3, <4>2, <4>3
    <3>4. CASE d <= k /\ ~Pending(d, k)
      <4>1. ~Pending(d, k + 1)
          BY <1>0, <3>1, <3>4, PendingIs
      <4> QED BY <2>2, <2>3, <3>4, <4>1
    <3> QED BY <1>0, <3>1, <3>2, <3>3, <3>4
  <2> QED BY <2>2, <2>3, <2>4
<1> QED BY <1>1, <1>2

(* parenthold: where the network splits and the frame has met no clock     *)
(* since.                                                                  *)
HoldInv(k, hold) ==
    /\ hold # 0 => \E d \in Nodes :
          /\ d < k /\ up[d] = hold /\ dc[hold] /\ topology[hold] > 2
          /\ Pending(d, k)
    /\ hold = 0 => \A d \in Nodes :
          d < k /\ up[d] # 0 /\ dc[up[d]] /\ Pending(d, k) => ~(topology[up[d]] > 2)

BranchHeld(k) ==
    IF parent[k] > 0 /\ topology[parent[k]] > 2 THEN parent[k] ELSE parenthold

LEMMA HeldIs ==
    ASSUME Network, Found, SplitsHaveClocks, NEW k \in Nodes, HoldInv(k, parenthold)
    PROVE  /\ BranchHeld(k) # 0 =>
                 \E c : Behind(c, k) /\ up[c] = BranchHeld(k) /\ topology[up[c]] > 2
           /\ BranchHeld(k) = 0 =>
                 \A c : Behind(c, k) => ~(topology[up[c]] > 2)
<1> DEFINE u == up[k]
<1>0. k \in Nat /\ parent[k] = u /\ u \in Nat /\ u \in 0 .. SlaveCount - 1 /\ u < k
    BY DEF Network, Nodes, Found, Configured
<1>1. CASE u > 0 /\ topology[u] > 2
  <2>1. BranchHeld(k) = u /\ u # 0
      BY <1>0, <1>1 DEF BranchHeld
  <2>2. u \in Nodes
      BY <1>0, <1>1, TopologyAssumption DEF Nodes
  <2>3. dc[u]
      BY <1>1, <2>2, ActiveIs DEF SplitsHaveClocks
  <2>4. Pending(k, k)
      BY <1>0 DEF Pending
  <2>5. Behind(k, k)
      BY <1>0, <2>1, <2>3, <2>4 DEF Behind
  <2> QED BY <1>1, <2>1, <2>5
<1>2. CASE ~(u > 0 /\ topology[u] > 2)
  <2>1. BranchHeld(k) = parenthold
      BY <1>0, <1>2 DEF BranchHeld
  <2>2. ASSUME parenthold # 0
        PROVE  \E c : Behind(c, k) /\ up[c] = parenthold /\ topology[up[c]] > 2
    <3>1. PICK d \in Nodes : /\ d < k /\ up[d] = parenthold /\ dc[parenthold]
                             /\ topology[parenthold] > 2 /\ Pending(d, k)
        BY <2>2 DEF HoldInv
    <3>2. d <= k
        BY <1>0, <3>1 DEF Nodes
    <3>3. Behind(d, k)
        BY <2>2, <3>1, <3>2 DEF Behind
    <3> QED BY <3>1, <3>3
  <2>3. ASSUME parenthold = 0, NEW c, Behind(c, k)
        PROVE  ~(topology[up[c]] > 2)
    <3>1. c \in Nodes /\ c <= k /\ up[c] # 0 /\ dc[up[c]] /\ Pending(c, k) /\ c \in Nat
        BY <2>3 DEF Behind, Nodes
    <3>2. CASE c = k
        BY <1>0, <1>2, <3>1, <3>2
    <3>3. CASE c < k
        BY <2>3, <3>1, <3>3 DEF HoldInv
    <3> QED BY <1>0, <3>1, <3>2, <3>3
  <2> QED BY <2>1, <2>2, <2>3
<1> QED BY <1>1, <1>2

(* Where a branch has ended there is nothing to hold.                      *)
LEMMA HoldEnds ==
    ASSUME NEW k \in Nodes, dc[k] \/ Children(k) = {}
    PROVE  HoldInv(k + 1, 0)
<1>0. k \in Nat
    BY DEF Nodes
<1>1. ASSUME NEW d \in Nodes, d < k + 1 PROVE ~Pending(d, k + 1)
  <2>1. d \in Nat /\ d <= k
      BY <1>0, <1>1 DEF Nodes
  <2> QED BY <1>0, <2>1, PendingIs
<1> QED BY <1>1 DEF HoldInv

LEMMA HoldGoesOn ==
    ASSUME Network, NEW k \in Nodes, ~dc[k], Children(k) # {}, NEW hold,
           hold # 0 =>
              \E c : Behind(c, k) /\ up[c] = hold /\ topology[up[c]] > 2,
           hold = 0 => \A c : Behind(c, k) => ~(topology[up[c]] > 2)
    PROVE  HoldInv(k + 1, hold)
<1>0. k \in Nat
    BY DEF Nodes
<1>1. ASSUME NEW d \in Nodes
      PROVE  d < k + 1 => (Pending(d, k + 1) <=> Pending(d, k))
  <2>1. d \in Nat
      BY DEF Nodes
  <2> QED BY <1>0, <2>1, PendingIs
<1>2. ASSUME hold # 0
      PROVE  \E d \in Nodes : /\ d < k + 1 /\ up[d] = hold /\ dc[hold] /\ topology[hold] > 2
                              /\ Pending(d, k + 1)
  <2>1. PICK c : Behind(c, k) /\ up[c] = hold /\ topology[up[c]] > 2
      BY <1>2
  <2>2. c \in Nodes /\ c <= k /\ c \in Nat /\ dc[up[c]] /\ Pending(c, k)
      BY <2>1, BehindIs
  <2>3. c < k + 1
      BY <1>0, <2>2
  <2> QED BY <1>1, <2>1, <2>2, <2>3
<1>3. ASSUME hold = 0, NEW d \in Nodes,
             d < k + 1, up[d] # 0, dc[up[d]], Pending(d, k + 1)
      PROVE  ~(topology[up[d]] > 2)
  <2>1. Pending(d, k) /\ d <= k
      BY <1>0, <1>1, <1>3 DEF Nodes
  <2>2. Behind(d, k)
      BY <1>3, <2>1 DEF Behind
  <2> QED BY <1>3, <2>2
<1> QED BY <1>2, <1>3 DEF HoldInv

LEMMA FirstClockIs ==
    ASSUME NEW s \in Nodes, dc[s]
    PROVE  /\ FirstClock \in Nodes /\ dc[FirstClock]
           /\ \A t \in Nodes : dc[t] => FirstClock <= t
<1> DEFINE S == {t \in Nodes : dc[t]}
<1>1. S \subseteq Nat /\ S # {}
    BY DEF Nodes
<1>2. PICK m \in S : \A n \in S : m <= n
    BY <1>1, Smallest
<1>3. m \in Nodes /\ dc[m] /\ \A t \in Nodes : dc[t] => m <= t
    BY <1>2
<1>4. FirstClock = CHOOSE f \in Nodes : dc[f] /\ \A t \in Nodes : dc[t] => f <= t
    BY DEF FirstClock
<1> QED BY <1>3, <1>4, Zenon

(* Slaves before k have the delay of their distance from the first clock.  *)
DelayInv(k, entry, delays) ==
    \A s \in Nodes :
        /\ entry[s] = 0
        /\ s >= k => delays[s] = 0
        /\ s < k /\ dc[s] => delays[s] = Arrival[s] - Arrival[FirstClock]

WalkInv(k, left, hold, entry, delays) ==
    PortsInv(k, left) /\ HoldInv(k, hold) /\ DelayInv(k, entry, delays)

LEMMA ClockStep ==
    ASSUME Network, Shape, Found, NoneWraps, SplitsHaveClocks, visit \in Nodes,
           WalkInv(visit, consumed, parenthold, entryport, pdelay), WithClock
    PROVE  WalkInv(visit + 1, consumed', parenthold', entryport', pdelay')
<1> DEFINE k == visit
           top == DCParent(k)
           pport == IF topology[top] = 1 THEN entryport[top] ELSE ParentPort(consumed[top])
           own1 == [consumed EXCEPT ![k] = activeports[k] \ {EntryPort(k)}]
<1>0. /\ dc[k] /\ parenthold' = 0
      /\ entryport' = [entryport EXCEPT ![k] = EntryPort(k)]
      /\ IF top = 0
         THEN consumed' = own1 /\ UNCHANGED pdelay
         ELSE /\ consumed' = [own1 EXCEPT ![top] = Consume(@)]
              /\ pdelay' = [pdelay EXCEPT ![k] = Delay(k, EntryPort(k), top, pport)]
    BY DEF WithClock
<1>1. EntryPort(k) = 0
    BY <1>0, EntryIsFirst
<1>2. /\ PortsInv(k, consumed) /\ HoldInv(k, parenthold)
      /\ \A s \in Nodes : entryport[s] = 0 /\ (s >= k => pdelay[s] = 0)
      /\ \A s \in Nodes : s < k /\ dc[s] => pdelay[s] = Arrival[s] - Arrival[FirstClock]
    BY DEF WalkInv, DelayInv
<1>3. k \in Nodes /\ k \in Nat /\ Nodes \subseteq Nat
    BY DEF Nodes
<1>4. DOMAIN consumed = Nodes /\ DOMAIN entryport = Nodes /\ DOMAIN pdelay = Nodes
    BY DEF Shape
<1>5. activeports[k] \ {0} = PortsOf(k)
    BY <1>3, ActiveIs
<1>6. own1[k] = PortsOf(k) /\ \A t \in Nodes : t # k => own1[t] = consumed[t]
    BY <1>1, <1>3, <1>4, <1>5
<1>7. HoldInv(k + 1, parenthold')
    BY <1>0, <1>3, HoldEnds
<1>8. \A s \in Nodes : entryport'[s] = 0
    BY <1>0, <1>1, <1>2, <1>3, <1>4
<1>9. Arrival \in [Nodes -> Nat] /\ FirstClock \in Nodes /\ dc[FirstClock]
      /\ \A t \in Nodes : dc[t] => FirstClock <= t
    BY <1>0, <1>3, ArrivalIs, FirstClockIs
<1>10. CASE (\A t \in 1 .. k - 1 : ~dc[t]) /\ top = 0
  <2>1. consumed' = own1 /\ pdelay' = pdelay
      BY <1>0, <1>10
  <2>2. \A t \in Nodes : ~(t < k /\ dc[t])
      BY <1>3, <1>10 DEF Nodes
  <2>3. FirstClock = k
    <3>1. FirstClock <= k /\ ~(FirstClock < k)
        BY <1>0, <1>3, <1>9, <2>2
    <3> QED BY <1>3, <1>9, <3>1
  <2>4. PortsInv(k + 1, consumed')
    <3>1. ASSUME NEW t \in Nodes, t < k + 1, dc[t]
          PROVE  /\ own1[t] \subseteq PortsOf(t)
                 /\ \A d \in Children(t) :
                       /\ Pending(d, k + 1) => port[d] \in own1[t]
                       /\ ~Pending(d, k + 1) /\ topology[t] > 2 => port[d] \notin own1[t]
      <4>1. t = k
          BY <1>3, <2>2, <3>1
      <4> HIDE DEF own1, k
      <4> QED BY <1>3, <1>6, <4>1, OwnPorts
    <3> QED BY <2>1, <3>1 DEF PortsInv
  <2>5. DelayInv(k + 1, entryport', pdelay')
    <3>1. ASSUME NEW s \in Nodes
          PROVE  /\ s >= k + 1 => pdelay[s] = 0
                 /\ s < k + 1 /\ dc[s] => pdelay[s] = Arrival[s] - Arrival[FirstClock]
      <4>1. s >= k => pdelay[s] = 0
          BY <1>2
      <4>2. s < k + 1 /\ dc[s] => s = k
          BY <1>3, <2>2
      <4>3. Arrival[s] - Arrival[s] = 0
          BY <1>9
      <4> QED BY <1>3, <2>3, <4>1, <4>2, <4>3
    <3> QED BY <1>8, <2>1, <3>1 DEF DelayInv
  <2> QED BY <1>7, <2>4, <2>5 DEF WalkInv
<1>11. ASSUME NEW c \in Nodes, Behind(c, k)
       PROVE  WalkInv(k + 1, consumed', parenthold', entryport', pdelay')
  <2>1. /\ c \in Nat /\ c <= k /\ up[c] \in Nodes /\ up[c] \in Nat /\ up[c] < c
        /\ dc[up[c]]
      BY <1>11, BehindIs
  <2>2. top = up[c] /\ top # 0 /\ top \in Nodes /\ top # k /\ top < k
    <3>1. top = up[c]
        BY <1>3, <1>11, BranchIs
    <3>2. up[c] # 0
        BY <1>11 DEF Behind
    <3> QED BY <1>3, <2>1, <3>1, <3>2
  <2>3. ParentPort(consumed[top]) = port[c] /\ topology[top] # 1
      BY <1>2, <1>3, <1>11, <2>2, ParentPortIs
  <2>4. pport = port[c]
      BY <2>3
  <2>5. /\ consumed' = [own1 EXCEPT ![top] = Consume(@)]
        /\ pdelay' = [pdelay EXCEPT ![k] = Delay(k, EntryPort(k), top, pport)]
      BY <1>0, <2>2
  <2>6. PortsInv(k + 1, consumed')
    <3>1. DOMAIN own1 = Nodes
        BY <1>4
    <3> HIDE DEF own1, top, k
    <3>2. \A t \in Nodes : consumed'[t] = IF t = top THEN Consume(own1[t]) ELSE own1[t]
        BY <2>2, <2>5, <3>1
    <3>3. Consume(consumed[top]) = consumed[top] \ {port[c]}
        BY <2>3 DEF Consume
    <3>4. consumed'[k] = PortsOf(k)
        BY <1>3, <1>6, <2>2, <3>2
    <3>5. ASSUME NEW t \in Nodes, t < k, dc[t]
          PROVE  consumed'[t] = IF t = up[c] THEN consumed[t] \ {port[c]} ELSE consumed[t]
      <4>1. t # k
          BY <1>3, <3>5
      <4> QED BY <1>6, <2>2, <3>2, <3>3, <4>1
    <3>6. dc[k] /\ PortsInv(k, consumed) /\ k \in Nodes /\ Behind(c, k)
        BY <1>0, <1>2, <1>3, <1>11
    <3>7. \A t \in Nodes : t < k /\ dc[t] =>
             consumed'[t] = IF t = up[c] THEN consumed[t] \ {port[c]} ELSE consumed[t]
        BY <3>5
    <3> QED BY <3>4, <3>6, <3>7, PortsTaken
  <2>7. Delay(k, 0, top, pport) = Arrival[k] - Arrival[FirstClock]
    <3>1. pdelay[top] = Arrival[top] - Arrival[FirstClock]
        BY <1>2, <2>1, <2>2
    <3>2. /\ pdelay[top] \in Int
          /\ Arrival[k] \in Nat /\ Arrival[top] \in Nat /\ Arrival[FirstClock] \in Nat
      <4> HIDE DEF top, k
      <4>1. Arrival[k] \in Nat /\ Arrival[top] \in Nat /\ Arrival[FirstClock] \in Nat
          BY <1>3, <1>9, <2>2
      <4> QED BY <3>1, <4>1
    <3>3. entryport[top] = 0
        BY <1>2, <2>2
    <3> HIDE DEF top, pport, k
    <3>4. Delay(k, 0, top, pport) = Arrival[k] - Arrival[top] + pdelay[top]
        BY <1>0, <1>3, <1>11, <2>2, <2>4, <3>2, <3>3, DelayIs
    <3> QED BY <3>1, <3>2, <3>4
  <2>8. DelayInv(k + 1, entryport', pdelay')
    <3>1. pdelay'[k] = Arrival[k] - Arrival[FirstClock] /\ \A s \in Nodes : s # k => pdelay'[s] = pdelay[s]
      <4> HIDE DEF pport, top
      <4> QED BY <1>1, <1>3, <1>4, <2>5, <2>7
    <3>2. ASSUME NEW s \in Nodes
          PROVE  /\ s >= k + 1 => pdelay'[s] = 0
                 /\ s < k + 1 /\ dc[s] => pdelay'[s] = Arrival[s] - Arrival[FirstClock]
      <4>1. CASE s = k
          BY <1>3, <3>1, <4>1
      <4>2. CASE s # k
        <5>1. s \in Nat /\ pdelay'[s] = pdelay[s]
            BY <1>3, <3>1, <4>2
        <5> QED BY <1>2, <1>3, <4>2, <5>1
      <4> QED BY <4>1, <4>2
    <3> QED BY <1>8, <3>2 DEF DelayInv
  <2> QED BY <1>7, <2>6, <2>8 DEF WalkInv
<1>12. (\E c \in Nodes : Behind(c, k)) \/ ((\A t \in 1 .. k - 1 : ~dc[t]) /\ top = 0)
    BY <1>3, Reach
<1> QED BY <1>10, <1>11, <1>12

LEMMA NoClockStep ==
    ASSUME Network, Shape, Found, NoneWraps, SplitsHaveClocks, visit \in Nodes,
           WalkInv(visit, consumed, parenthold, entryport, pdelay), WithoutClock
    PROVE  WalkInv(visit + 1, consumed', parenthold', entryport', pdelay')
<1> DEFINE k == visit
           branch == BranchHeld(k)
           own1 == [consumed EXCEPT ![k] = activeports[k]]
<1>0. /\ ~dc[k] /\ UNCHANGED <<entryport, pdelay>>
      /\ IF branch > 0 /\ topology[k] = 1
         THEN /\ consumed' = [own1 EXCEPT ![branch] = Consume(@)]
              /\ parenthold' = 0
         ELSE consumed' = own1 /\ parenthold' = branch
    BY DEF WithoutClock, BranchHeld
<1>1. /\ PortsInv(k, consumed) /\ HoldInv(k, parenthold)
      /\ DelayInv(k, entryport, pdelay)
    BY DEF WalkInv
<1>2. k \in Nodes /\ k \in Nat /\ Nodes \subseteq Nat
    BY DEF Nodes
<1>3. DOMAIN consumed = Nodes /\ DOMAIN own1 = Nodes
    BY DEF Shape
<1>4. \A t \in Nodes : t # k => own1[t] = consumed[t]
    BY <1>2, <1>3
<1>5. topology[k] = 1 <=> Children(k) = {}
  <2>1. topology[k] = 1 <=> PortsOf(k) = {}
      BY <1>2, ActiveIs
  <2> QED BY <2>1 DEF PortsOf
<1>6. /\ branch # 0 =>
            \E c : Behind(c, k) /\ up[c] = branch /\ topology[up[c]] > 2
      /\ branch = 0 => \A c : Behind(c, k) => ~(topology[up[c]] > 2)
    BY <1>1, <1>2, HeldIs
<1>7. branch # 0 => branch \in Nodes /\ branch > 0 /\ branch # k
  <2> SUFFICES ASSUME branch # 0 PROVE branch \in Nodes /\ branch > 0 /\ branch # k
      OBVIOUS
  <2>1. PICK c : Behind(c, k) /\ up[c] = branch
      BY <1>6
  <2>2. c \in Nat /\ c <= k /\ branch \in Nodes /\ branch < c
      BY <1>2, <2>1, BehindIs
  <2> QED BY <1>2, <2>2 DEF Nodes
<1>8. DelayInv(k + 1, entryport', pdelay')
  <2>1. entryport' = entryport /\ pdelay' = pdelay
      BY <1>0
  <2>2. ASSUME NEW s \in Nodes
        PROVE  /\ entryport[s] = 0
               /\ s >= k + 1 => pdelay[s] = 0
               /\ s < k + 1 /\ dc[s] => pdelay[s] = Arrival[s] - Arrival[FirstClock]
    <3>1. /\ entryport[s] = 0
          /\ s >= k => pdelay[s] = 0
          /\ s < k /\ dc[s] => pdelay[s] = Arrival[s] - Arrival[FirstClock]
        BY <1>1 DEF DelayInv
    <3>2. dc[s] => s # k
        BY <1>0
    <3>3. s \in Nat
        BY <1>2
    <3> QED BY <1>2, <3>1, <3>2, <3>3
  <2> QED BY <2>1, <2>2 DEF DelayInv
<1> HIDE DEF branch, own1
<1>9. CASE branch # 0 /\ Children(k) = {}
  <2>1. consumed' = [own1 EXCEPT ![branch] = Consume(@)] /\ parenthold' = 0
      BY <1>0, <1>5, <1>7, <1>9
  <2>2. PICK c : Behind(c, k) /\ up[c] = branch /\ topology[up[c]] > 2
      BY <1>6, <1>9
  <2>3. ParentPort(consumed[branch]) = port[c]
      BY <1>1, <1>2, <2>2, ParentPortIs
  <2>4. Consume(consumed[branch]) = consumed[branch] \ {port[c]}
      BY <2>3 DEF Consume
  <2>5. ASSUME NEW t \in Nodes, t < k, dc[t]
        PROVE  consumed'[t] = IF t = up[c] THEN consumed[t] \ {port[c]} ELSE consumed[t]
    <3>1. t # k
        BY <1>2, <2>5
    <3>2. consumed'[t] = IF t = branch THEN Consume(own1[t]) ELSE own1[t]
        BY <1>3, <1>7, <1>9, <2>1
    <3> QED BY <1>4, <2>2, <2>4, <3>1, <3>2
  <2>6. PortsInv(k + 1, consumed')
    <3>1. /\ PortsInv(k, consumed) /\ k \in Nodes /\ Behind(c, k)
          /\ dc[k] \/ Children(k) = {}
          /\ dc[k] => consumed'[k] = PortsOf(k)
        BY <1>0, <1>1, <1>2, <1>9, <2>2
    <3>2. \A t \in Nodes : t < k /\ dc[t] =>
             consumed'[t] = IF t = up[c] THEN consumed[t] \ {port[c]} ELSE consumed[t]
        BY <2>5
    <3> QED BY <3>1, <3>2, PortsTaken
  <2>7. HoldInv(k + 1, parenthold')
      BY <1>2, <1>9, <2>1, HoldEnds
  <2> QED BY <1>8, <2>6, <2>7 DEF WalkInv
<1>10. CASE branch = 0 \/ Children(k) # {}
  <2>1. consumed' = own1 /\ parenthold' = branch
      BY <1>0, <1>5, <1>10
  <2>2. \A c : Behind(c, k) => (~dc[k] /\ Children(k) # {}) \/ ~(topology[up[c]] > 2)
      BY <1>0, <1>6, <1>10
  <2>3. ASSUME NEW t \in Nodes, t < k, dc[t] PROVE consumed'[t] = consumed[t]
    <3>1. t # k
        BY <1>2, <2>3
    <3> QED BY <1>4, <2>1, <3>1
  <2>4. PortsInv(k + 1, consumed')
    <3> HIDE DEF k
    <3> QED BY <1>0, <1>1, <1>2, <2>2, <2>3, PortsKept
  <2>5. HoldInv(k + 1, parenthold')
    <3>1. CASE Children(k) # {}
      <4> HIDE DEF k
      <4> QED BY <1>0, <1>2, <1>6, <2>1, <3>1, HoldGoesOn
    <3>2. CASE Children(k) = {}
      <4>1. parenthold' = 0
          BY <1>10, <2>1, <3>2
      <4> QED BY <1>2, <3>2, <4>1, HoldEnds
    <3> QED BY <3>1, <3>2
  <2> QED BY <1>8, <2>4, <2>5 DEF WalkInv
<1> QED BY <1>9, <1>10

(***************************************************************************)
(* Every step.                                                             *)
(***************************************************************************)
Position == IF phase = "done" THEN SlaveCount + 1 ELSE visit

DelayWalk ==
    /\ phase = "config" =>
          parenthold = 0 /\ \A s \in Nodes : entryport[s] = 0 /\ pdelay[s] = 0
    /\ phase # "config" /\ NoneWraps /\ SplitsHaveClocks =>
          WalkInv(Position, consumed, parenthold, entryport, pdelay)

(* The network is what it was, and so are the times of the frame.          *)
LEMMA TimesFixed ==
    ASSUME UNCHANGED <<up, port, delay, dc, off>>
    PROVE  /\ (Arrival)' = Arrival /\ (FirstClock)' = FirstClock
           /\ (NoneWraps)' <=> NoneWraps
           /\ (SplitsHaveClocks)' <=> SplitsHaveClocks
           /\ \A s : (Children(s))' = Children(s)
<1>1. Arrival' = Arrival
    BY DEF Arrival, OutAt, Trip, Leg, Children
<1>2. FirstClock' = FirstClock
    BY DEF FirstClock
<1>3. Trip' = Trip
    BY DEF Trip, Leg, Children
<1>4. NoneWraps' <=> NoneWraps
    BY <1>3 DEF NoneWraps
<1>5. SplitsHaveClocks' <=> SplitsHaveClocks
    BY DEF SplitsHaveClocks, Links, Children
<1>6. \A s : (Children(s))' = Children(s)
    BY DEF Children
<1> QED BY <1>1, <1>2, <1>4, <1>5, <1>6

LEMMA WalkFixed ==
    ASSUME UNCHANGED <<up, port, delay, dc, off, topology>>,
           NEW k, Position' = k,
           WalkInv(k, consumed', parenthold', entryport', pdelay')
    PROVE  (WalkInv(Position, consumed, parenthold, entryport, pdelay))'
<1>0. /\ Arrival' = Arrival /\ FirstClock' = FirstClock
      /\ \A s : (Children(s))' = Children(s)
    BY TimesFixed
<1>1. \A d : (Pending(d, k))' <=> Pending(d, k)
    BY <1>0 DEF Pending
<1>2. \A s : (PortsOf(s))' = PortsOf(s)
    BY <1>0 DEF PortsOf
<1>3. (PortsInv(Position, consumed))'
    BY <1>0, <1>1, <1>2 DEF PortsInv, WalkInv
<1>4. (HoldInv(Position, parenthold))'
    BY <1>0, <1>1 DEF HoldInv, WalkInv
<1>5. (DelayInv(Position, entryport, pdelay))'
    BY <1>0 DEF DelayInv, WalkInv
<1> QED BY <1>3, <1>4, <1>5 DEF WalkInv

LEMMA DelayWalkInvariant == TreeSpec => []DelayWalk
<1>1. TreeInit => DelayWalk
    BY DEF TreeInit, DelayWalk
<1>2. /\ Network /\ Shape /\ ConfigInv /\ DelayWalk /\ [TreeNext]_treeVars
      => DelayWalk'
  <2> SUFFICES ASSUME Network, Shape, ConfigInv, DelayWalk, [TreeNext]_treeVars
               PROVE  DelayWalk'
      OBVIOUS
  <2>1. CASE ConfigInit
    <3>1. /\ phase = "config"
          /\ UNCHANGED <<parenthold, entryport, pdelay>>
          /\ phase' # "config" => phase' = "dc" /\ visit' = 1
        BY <2>1 DEF ConfigInit
    <3>2. parenthold' = 0 /\ \A s \in Nodes : entryport'[s] = 0 /\ pdelay'[s] = 0
        BY <3>1 DEF DelayWalk
    <3>3. \A s \in Nodes : ~(s < 1)
        BY DEF Nodes
    <3>4. ASSUME phase' # "config"
          PROVE  (WalkInv(Position, consumed, parenthold, entryport, pdelay))'
      <4>1. Position' = 1
          BY <3>1, <3>4 DEF Position
      <4>2. (PortsInv(Position, consumed))'
          BY <3>3, <4>1 DEF PortsInv
      <4>3. (HoldInv(Position, parenthold))'
          BY <3>2, <3>3, <4>1 DEF HoldInv
      <4>4. (DelayInv(Position, entryport, pdelay))'
          BY <3>2, <3>3, <4>1 DEF DelayInv
      <4> QED BY <4>2, <4>3, <4>4 DEF WalkInv
    <3> QED BY <3>2, <3>4 DEF DelayWalk
  <2>2. CASE ConfigDC
    <3>1. /\ phase = "dc" /\ phase' = IF visit < SlaveCount THEN "dc" ELSE "done"
          /\ visit' = IF visit < SlaveCount THEN visit + 1 ELSE visit
          /\ WithClock \/ WithoutClock
          /\ UNCHANGED <<up, port, delay, dc, off, topology>>
        BY <2>2 DEF ConfigDC
    <3>2. visit \in Nodes /\ visit \in 1 .. SlaveCount /\ SlaveCount \in Nat
        BY TopologyAssumption DEF Shape, Nodes
    <3>3. Position = visit /\ Position' = visit + 1 /\ phase' # "config"
        BY <3>1, <3>2 DEF Position
    <3>4. Found
        BY <3>1 DEF Shape, ConfigInv, Found
    <3>5. (NoneWraps' <=> NoneWraps) /\ (SplitsHaveClocks' <=> SplitsHaveClocks)
        BY <3>1, TimesFixed
    <3>6. ASSUME NoneWraps, SplitsHaveClocks
          PROVE  (WalkInv(Position, consumed, parenthold, entryport, pdelay))'
      <4>1. WalkInv(visit, consumed, parenthold, entryport, pdelay)
          BY <3>1, <3>3, <3>6 DEF DelayWalk
      <4>2. CASE WithClock
        <5>1. WalkInv(visit + 1, consumed', parenthold', entryport', pdelay')
            BY <3>2, <3>4, <3>6, <4>1, <4>2, ClockStep
        <5> QED BY <3>1, <3>3, <5>1, WalkFixed
      <4>3. CASE WithoutClock
        <5>1. WalkInv(visit + 1, consumed', parenthold', entryport', pdelay')
            BY <3>2, <3>4, <3>6, <4>1, <4>3, NoClockStep
        <5> QED BY <3>1, <3>3, <5>1, WalkFixed
      <4> QED BY <3>1, <4>2, <4>3
    <3> QED BY <3>3, <3>5, <3>6 DEF DelayWalk
  <2>3. CASE UNCHANGED treeVars
    <3>1. /\ UNCHANGED <<up, port, delay, dc, off, topology>>
          /\ UNCHANGED <<consumed, parenthold, entryport, pdelay, phase, visit>>
        BY <2>3 DEF treeVars
    <3>2. (NoneWraps' <=> NoneWraps) /\ (SplitsHaveClocks' <=> SplitsHaveClocks)
        BY <3>1, TimesFixed
    <3>3. Position' = Position
        BY <3>1 DEF Position
    <3>4. ASSUME phase # "config", NoneWraps, SplitsHaveClocks
          PROVE  (WalkInv(Position, consumed, parenthold, entryport, pdelay))'
      <4>1. WalkInv(Position, consumed', parenthold', entryport', pdelay')
          BY <3>1, <3>4 DEF DelayWalk
      <4> QED BY <3>1, <3>3, <4>1, WalkFixed
    <3> QED BY <3>1, <3>2, <3>4 DEF DelayWalk
  <2> QED BY <2>1, <2>2, <2>3 DEF TreeNext
<1> QED BY <1>1, <1>2, ConfigInvariant, PTL DEF TreeSpec

(* ecx_configdc writes to every slave with a clock the time a frame takes  *)
(* to it from the first such slave (ethercatdc.c:374-405), in every tree   *)
(* of any number of slaves: where every slave at which the network splits  *)
(* has a clock, and no clock wraps while the frame is behind it.           *)
THEOREM DelaysAreRight == TreeSpec => []DelayIsRight
<1>1. Network /\ Shape /\ ConfigInv /\ DelayWalk => DelayIsRight
  <2> SUFFICES ASSUME DelayWalk, phase = "done", NoneWraps, SplitsHaveClocks,
                      NEW s \in Nodes, dc[s]
               PROVE  pdelay[s] = Arrival[s] - Arrival[FirstClock]
      BY DEF DelayIsRight
  <2>1. DelayInv(SlaveCount + 1, entryport, pdelay)
      BY DEF DelayWalk, Position, WalkInv
  <2>2. s < SlaveCount + 1
      BY TopologyAssumption DEF Nodes
  <2> QED BY <2>1, <2>2 DEF DelayInv
<1> QED BY <1>1, ConfigInvariant, DelayWalkInvariant, PTL
=============================================================================
