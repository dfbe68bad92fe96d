------------------------- MODULE ProcessDataProofs -------------------------
(***************************************************************************)
(* What is proved of ProcessData for every size of the stack, all working  *)
(* counters and any number of writes, retries, calls and failures, and,    *)
(* below, of the bridge that rides on the process data.                    *)
(***************************************************************************)
EXTENDS ProcessData, CanBridge, SequenceTheorems, WellFoundedInduction, TLAPS

(***************************************************************************)
(* Induction, and recursive functions, on 0 .. n: a set without a smallest *)
(* element is empty, so no operator has to be passed.                      *)
(***************************************************************************)
LEMMA Smallest ==
    ASSUME NEW S, S \subseteq Nat, S # {}
    PROVE  \E m \in S : \A n \in S : m <= n
<1> DEFINE R == OpToRel(<, Nat)
<1>1. IsWellFoundedOn(R, Nat)
    BY NatLessThanWellFounded, Zenon
<1>2. \A x, y \in Nat : x < y => <<x, y>> \in R
    BY DEF OpToRel
<1> HIDE DEF R
<1>3. PICK m \in S : \A n \in S : <<n, m>> \notin R
    BY <1>1, WFMin
<1>4. \A n \in S : ~(n < m)
    BY <1>2, <1>3
<1>5. \A n \in S : n \in Nat /\ m \in Nat
    BY <1>3
<1>6. \A n \in S : m <= n
    BY <1>4, <1>5
<1> QED BY <1>6

LEMMA UpTo ==
    ASSUME NEW n \in Nat, NEW T, 0 \in T,
           \A k \in 1 .. n : k - 1 \in T => k \in T
    PROVE  \A k \in 0 .. n : k \in T
<1> SUFFICES ASSUME NEW k \in 0 .. n, k \notin T
             PROVE  FALSE
    OBVIOUS
<1> DEFINE S == {j \in 0 .. n : j \notin T}
<1>0. S \subseteq Nat /\ S # {}
    OBVIOUS
<1>1. PICK m \in S : \A j \in S : m <= j
    BY <1>0, Smallest
<1>2. m \in 1 .. n /\ m \notin T
    BY <1>1
<1>3. m - 1 \in T
    BY <1>1, <1>2
<1> QED BY <1>2, <1>3

Iterates(f, n, S, b, g) ==
    f \in [0 .. n -> S] /\ f[0] = b /\ \A k \in 1 .. n : f[k] = g[k][f[k - 1]]

LEMMA Recursion ==
    ASSUME NEW n \in Nat, NEW S, NEW b \in S, NEW g \in [1 .. n -> [S -> S]]
    PROVE  \E f : Iterates(f, n, S, b, g)
<1> DEFINE Good(k, f) == f[0] = b /\ \A j \in 1 .. k : f[j] = g[j][f[j - 1]]
           T == {k \in 0 .. n : \E f \in [0 .. k -> S] : Good(k, f)}
<1>1. 0 \in T
  <2> DEFINE f == [j \in 0 .. 0 |-> b]
  <2>1. f \in [0 .. 0 -> S] /\ Good(0, f)
      OBVIOUS
  <2> HIDE DEF f
  <2> QED BY <2>1
<1>2. ASSUME NEW k \in 1 .. n, k - 1 \in T
      PROVE  k \in T
  <2>1. PICK f \in [0 .. k - 1 -> S] : Good(k - 1, f)
      BY <1>2
  <2>2. g[k][f[k - 1]] \in S
      OBVIOUS
  <2> DEFINE h == [j \in 0 .. k |-> IF j = k THEN g[k][f[k - 1]] ELSE f[j]]
  <2>3. h \in [0 .. k -> S]
      BY <2>2
  <2>4. \A j \in 0 .. k - 1 : h[j] = f[j]
      OBVIOUS
  <2>5. h[k] = g[k][f[k - 1]]
      OBVIOUS
  <2> HIDE DEF h
  <2>6. h[0] = b
      BY <2>1, <2>4
  <2>7. \A j \in 1 .. k : h[j] = g[j][h[j - 1]]
    <3> TAKE j \in 1 .. k
    <3>1. CASE j = k
        BY <2>4, <2>5, <3>1
    <3>2. CASE j # k
      <4>1. j \in 1 .. k - 1 /\ j \in 0 .. k - 1 /\ j - 1 \in 0 .. k - 1
          BY <3>2
      <4>2. f[j] = g[j][f[j - 1]]
          BY <2>1, <4>1
      <4> QED BY <2>4, <4>1, <4>2
    <3> QED BY <3>1, <3>2
  <2>8. k \in 0 .. n
      OBVIOUS
  <2>9. Good(k, h)
      BY <2>6, <2>7
  <2> HIDE DEF Good
  <2> QED BY <2>3, <2>8, <2>9
<1> HIDE DEF T
<1>3. \A k \in 0 .. n : k \in T
    BY <1>1, <1>2, UpTo
<1>4. n \in T
    BY <1>3
<1> QED BY <1>4 DEF T, Iterates
-----------------------------------------------------------------------------
(***************************************************************************)
(* What ecx_receive_processdata makes of the stack.                        *)
(***************************************************************************)
Outcome == [wkc : Nat, valid : BOOLEAN, fresh : BOOLEAN, intact : BOOLEAN]

LEMMA Counters ==
    /\ InputsWKC \in Nat \ {0} /\ OutputsWKC \in Nat \ {0}
    /\ \A k \in {"LRD", "LWR"} : Full(k) \in Nat /\ Weight(k) \in Nat
    /\ Full("LRD") * Weight("LRD") = InputsWKC
    /\ Full("LWR") * Weight("LWR") = 2 * OutputsWKC
BY ProcessDataAssumption DEF Full, Weight

LEMMA AnswerType ==
    ASSUME NEW e \in Entries, NEW a \in Answers(e), a.from # 0
    PROVE  /\ a.from \in 1 .. Len(e.sent) /\ e.sent[a.from] \in Frame
           /\ a.wkc \in 0 .. Full(e.sent[a.from].kind)
<1>1. PICK i \in DOMAIN e.sent : a \in [from : {i}, wkc : 0 .. Full(e.sent[i].kind)]
    BY DEF Answers
<1>2. e.sent \in Seq(Frame)
    BY DEF Entries
<1> QED BY <1>1, <1>2

(* Every turn of the loop adds what the slaves have answered.              *)
LEMMA PullAdds ==
    ASSUME NEW r \in Outcome, NEW e \in Entries, NEW a \in Answers(e)
    PROVE  /\ Pull(r, e, a) \in Outcome
           /\ r.wkc <= Pull(r, e, a).wkc
           /\ Pull(r, e, a).wkc <= r.wkc + (InputsWKC + 2 * OutputsWKC)
           /\ (\A i \in DOMAIN e.sent : e.sent[i].kind = "LWR") =>
                  Pull(r, e, a).wkc <= r.wkc + 2 * OutputsWKC
           /\ e.kind = "LWR" => Pull(r, e, a).fresh = r.fresh
           /\ Pull(r, e, a).intact =>
                  /\ r.intact /\ Pull(r, e, a).valid
                  /\ e.sent # <<>> =>
                        LET kind == e.sent[1].kind
                        IN  Pull(r, e, a).wkc = r.wkc + Full(kind) * Weight(kind)
<1>1. CASE a.from = 0
  <2>1. Pull(r, e, a) = [r EXCEPT !.intact = FALSE]
      BY <1>1 DEF Pull
  <2>2. /\ Pull(r, e, a) \in Outcome /\ Pull(r, e, a).intact = FALSE
        /\ Pull(r, e, a).wkc = r.wkc /\ Pull(r, e, a).fresh = r.fresh /\ r.wkc \in Nat
      BY <2>1 DEF Outcome
  <2>3. /\ r.wkc <= r.wkc /\ r.wkc <= r.wkc + 2 * OutputsWKC
        /\ r.wkc <= r.wkc + (InputsWKC + 2 * OutputsWKC)
      BY <2>2, Counters
  <2> QED BY <2>2, <2>3, Zenon
<1>2. CASE a.from # 0
  <2> DEFINE f == e.sent[a.from]
             p == Pull(r, e, a)
  <2>1. f \in Frame /\ a.wkc \in 0 .. Full(f.kind) /\ f.kind \in {"LRD", "LWR"}
      BY <1>2, AnswerType DEF Frame
  <2>2. p = [wkc |-> r.wkc + a.wkc * Weight(f.kind), valid |-> TRUE,
             fresh |-> IF e.kind = "LRD" /\ f.kind = "LRD" THEN Brings(f, a.wkc) ELSE r.fresh,
             intact |-> r.intact /\ a.from = 1 /\ a.wkc = Full(f.kind)]
      BY <1>2 DEF Pull
  <2>3. p.wkc = r.wkc + a.wkc * Weight(f.kind) /\ p.valid = TRUE
      BY <2>2
  <2>4. /\ a.wkc \in Nat /\ a.wkc * Weight(f.kind) \in Nat
        /\ a.wkc * Weight(f.kind) <= InputsWKC + 2 * OutputsWKC
      BY <2>1, Counters DEF Full, Weight
  <2>0. \A w, v, x, i :
           LET q == [wkc |-> w, valid |-> v, fresh |-> x, intact |-> i]
           IN  q.fresh = x /\ q.intact = i
      BY Zenon
  <2>5. /\ p.intact = (r.intact /\ a.from = 1 /\ a.wkc = Full(f.kind))
        /\ p.fresh = IF e.kind = "LRD" /\ f.kind = "LRD" THEN Brings(f, a.wkc) ELSE r.fresh
    <3> HIDE DEF p, f
    <3> QED BY <2>0, <2>2, Zenon
  <2>7. p \in Outcome
    <3>1. r.wkc + a.wkc * Weight(f.kind) \in Nat
        BY <2>4 DEF Outcome
    <3>2. Brings(f, a.wkc) \in BOOLEAN /\ r.fresh \in BOOLEAN
        BY <2>1 DEF Brings, Frame, Outcome
    <3>3. (r.intact /\ a.from = 1 /\ a.wkc = Full(f.kind)) \in BOOLEAN
        OBVIOUS
    <3>4. \A w \in Nat, v, x, i \in BOOLEAN :
             [wkc |-> w, valid |-> v, fresh |-> x, intact |-> i] \in Outcome
        BY DEF Outcome
    <3>5. (IF e.kind = "LRD" /\ f.kind = "LRD" THEN Brings(f, a.wkc) ELSE r.fresh) \in BOOLEAN
        BY <3>2
    <3> HIDE DEF f, p
    <3> QED BY <2>2, <3>1, <3>3, <3>4, <3>5, Zenon
  <2>8. p.intact => /\ r.intact
                    /\ e.sent # <<>> =>
                          p.wkc = r.wkc + Full(e.sent[1].kind) * Weight(e.sent[1].kind)
      BY <2>3, <2>5
  <2>9. r.wkc \in Nat
      BY DEF Outcome
  <2>10. e.kind = "LWR" => p.fresh = r.fresh
      BY <2>5
  <2> HIDE DEF p, f
  <2>11. r.wkc <= p.wkc /\ p.wkc <= r.wkc + (InputsWKC + 2 * OutputsWKC)
      BY <2>3, <2>4, <2>9, Counters
  <2>12. f.kind = "LWR" => p.wkc <= r.wkc + 2 * OutputsWKC
      BY <2>1, <2>3, <2>9, Counters DEF Full, Weight
  <2>13. a.from \in DOMAIN e.sent
      BY <1>2, AnswerType DEF Entries
  <2> QED BY <2>3, <2>7, <2>8, <2>10, <2>11, <2>12, <2>13 DEF p, f
<1> QED BY <1>1, <1>2

(* The passes over the stack exist, as recursive functions must.           *)
LEMMA Passes ==
    ASSUME NEW s \in Seq(Entries), fresh \in BOOLEAN
    PROVE  \E f \in [0 .. Len(s) -> SUBSET Outcome] :
              /\ f[0] = {Nothing}
              /\ \A k \in 1 .. Len(s) : f[k] = Turn(f[k - 1], s[k])
              /\ Results(s) = f[Len(s)]
<1> DEFINE n == Len(s)
           S == SUBSET Outcome
           b == {Nothing}
           g == [k \in 1 .. n |-> [X \in S |-> Turn(X, s[k])]]
<1>0. n \in Nat /\ \A k \in 1 .. n : s[k] \in Entries
    OBVIOUS
<1>1. b \in S
    BY DEF Nothing, Outcome
<1>2. ASSUME NEW k \in 1 .. n, NEW X \in S
      PROVE  Turn(X, s[k]) \in S
    BY <1>0, PullAdds DEF Turn
<1> HIDE DEF S, b, n
<1>3. g \in [1 .. n -> [S -> S]]
    BY <1>2
<1>4. \A k \in 1 .. n, X \in S : g[k][X] = Turn(X, s[k])
    OBVIOUS
<1> HIDE DEF g
<1>5. PICK f : Iterates(f, n, S, b, g)
    BY <1>0, <1>1, <1>3, Recursion, Zenon
<1>6. f \in [0 .. n -> S] /\ f[0] = b /\ \A k \in 1 .. n : f[k] = g[k][f[k - 1]]
    BY <1>5 DEF Iterates
<1>7. \A k \in 1 .. n : f[k] = Turn(f[k - 1], s[k])
  <2> TAKE k \in 1 .. n
  <2>1. k - 1 \in 0 .. n
      BY <1>0
  <2>2. f[k - 1] \in S
      BY <1>6, <2>1
  <2> QED BY <1>4, <1>6, <2>2
<1> DEFINE Is(R) == R = [k \in 0 .. n |-> IF k = 0 THEN b ELSE Turn(R[k - 1], s[k])]
<1>8. \A R : Is(R) => R = f
  <2> SUFFICES ASSUME NEW R, Is(R)
               PROVE  R = f
      OBVIOUS
  <2>0. \A k \in 0 .. n : R[k] = IF k = 0 THEN b ELSE Turn(R[k - 1], s[k])
      OBVIOUS
  <2> DEFINE T == {k \in 0 .. n : R[k] = f[k]}
  <2>1. 0 \in T
      BY <1>0, <1>6
  <2>2. ASSUME NEW k \in 1 .. n, k - 1 \in T
        PROVE  k \in T
    <3>1. k \in 0 .. n /\ k # 0
        BY <1>0
    <3>2. R[k] = Turn(R[k - 1], s[k])
        BY <2>0, <3>1
    <3> QED BY <1>7, <2>2, <3>1, <3>2
  <2> HIDE DEF T
  <2>3. \A k \in 0 .. n : k \in T
      BY <1>0, <2>1, <2>2, UpTo
  <2>4. \A k \in 0 .. n : R[k] = f[k]
      BY <2>3 DEF T
  <2> QED BY <1>6, <2>0, <2>4
<1>9. Is(f)
  <2>1. f = [k \in 0 .. n |-> f[k]]
      BY <1>6
  <2>2. \A k \in 0 .. n : f[k] = IF k = 0 THEN b ELSE Turn(f[k - 1], s[k])
      BY <1>0, <1>6, <1>7
  <2> QED BY <2>1, <2>2
<1>10. Results(s) = f[n]
  <2>1. Results(s) = (CHOOSE R : Is(R))[n]
      BY DEF Results, n, b
  <2>2. Is(CHOOSE R : Is(R))
      BY <1>9
  <2> QED BY <1>8, <2>1, <2>2
<1> QED BY <1>6, <1>7, <1>10, Zenon DEF n, S, b

(* No more than the stack can hold is counted.                             *)
LEMMA ResultsBounded ==
    ASSUME NEW s \in Seq(Entries), fresh \in BOOLEAN, Len(s) <= MAXBUF,
           NEW r \in Results(s)
    PROVE  r \in Outcome /\ r.wkc \in 0 .. MaxWkc
<1> DEFINE n == Len(s)
           Most == InputsWKC + 2 * OutputsWKC
<1>1. PICK f \in [0 .. n -> SUBSET Outcome] :
          /\ f[0] = {Nothing}
          /\ \A k \in 1 .. n : f[k] = Turn(f[k - 1], s[k])
          /\ Results(s) = f[n]
    BY Passes, Zenon
<1>0. n \in Nat /\ Most \in Nat /\ \A k \in 1 .. n : s[k] \in Entries
    BY Counters
<1> DEFINE T == {k \in 0 .. n : \A q \in f[k] : q.wkc <= k * Most}
<1> HIDE DEF n, Most
<1>2. 0 \in T
    BY <1>0, <1>1 DEF Nothing
<1>3. ASSUME NEW k \in 1 .. n, k - 1 \in T
      PROVE  k \in T
  <2> SUFFICES ASSUME NEW q \in f[k]
               PROVE  q.wkc <= k * Most
      BY <1>0
  <2>1. PICK p \in f[k - 1], a \in Answers(s[k]) : q = Pull(p, s[k], a)
      BY <1>1 DEF Turn
  <2>2. p \in Outcome /\ p.wkc <= (k - 1) * Most /\ p.wkc \in Nat
      BY <1>0, <1>1, <1>3 DEF Outcome
  <2>3. q.wkc <= p.wkc + Most /\ q.wkc \in Nat
      BY <1>0, <2>1, <2>2, PullAdds DEF Most, Outcome
  <2>4. (k - 1) * Most + Most = k * Most /\ (k - 1) * Most \in Int /\ k * Most \in Int
      BY <1>0
  <2> QED BY <1>0, <2>2, <2>3, <2>4
<1> HIDE DEF T
<1>4. \A k \in 0 .. n : k \in T
    BY <1>0, <1>2, <1>3, UpTo
<1>5. r \in Outcome /\ r.wkc <= n * Most /\ r.wkc \in Nat
    BY <1>0, <1>1, <1>4 DEF T, Outcome
<1>6. n * Most <= MAXBUF * Most /\ n * Most \in Nat /\ MAXBUF * Most \in Nat
  <2>1. \A x, y \in Nat : x * y \in Nat
      OBVIOUS
  <2>2. MAXBUF \in Nat /\ MAXBUF - n \in Nat
      BY <1>0, ProcessDataAssumption DEF n
  <2>3. (MAXBUF - n) * Most \in Nat /\ n * Most \in Nat /\ MAXBUF * Most \in Nat
      BY <1>0, <2>1, <2>2
  <2>4. MAXBUF * Most = n * Most + (MAXBUF - n) * Most
      BY <1>0, <2>2
  <2> QED BY <2>3, <2>4
<1> QED BY <1>5, <1>6 DEF MaxWkc, Most

(* A request for inputs and outputs that is the oldest of its entry.       *)
Paired(s) ==
    s # <<>> =>
        /\ Len(s) >= 2
        /\ s[1].sent # <<>> /\ s[1].sent[1].kind = "LRD"
        /\ s[2].sent # <<>> /\ s[2].sent[1].kind = "LWR"

(* If everything is answered in full the working counter is high enough.   *)
LEMMA IntactIsComplete ==
    ASSUME NEW s \in Seq(Entries), fresh \in BOOLEAN, Paired(s), s # <<>>,
           NEW r \in Results(s), r.intact
    PROVE  r.valid /\ r.wkc >= Expected
<1> DEFINE n == Len(s)
           High(k) == IF k = 0 THEN 0 ELSE IF k = 1 THEN InputsWKC ELSE Expected
<1>1. PICK f \in [0 .. n -> SUBSET Outcome] :
          /\ f[0] = {Nothing}
          /\ \A k \in 1 .. n : f[k] = Turn(f[k - 1], s[k])
          /\ Results(s) = f[n]
    BY Passes, Zenon
<1>0. n \in Nat /\ n >= 2 /\ \A k \in 1 .. n : s[k] \in Entries
    BY DEF Paired
<1>2. \A k \in Nat : High(k) \in Nat
    BY Counters DEF Expected
<1> DEFINE T == {k \in 0 .. n : \A q \in f[k] :
                    q.intact => q.wkc >= High(k) /\ (k > 0 => q.valid)}
<1> HIDE DEF n
<1>3. 0 \in T
    BY <1>0, <1>1 DEF Nothing
<1>4. ASSUME NEW k \in 1 .. n, k - 1 \in T
      PROVE  k \in T
  <2> SUFFICES ASSUME NEW q \in f[k], q.intact
               PROVE  q.wkc >= High(k) /\ q.valid
      BY <1>0
  <2>1. PICK p \in f[k - 1], a \in Answers(s[k]) : q = Pull(p, s[k], a)
      BY <1>1 DEF Turn
  <2>2. p \in Outcome /\ p.wkc \in Nat
      BY <1>0, <1>1 DEF Outcome
  <2>3. /\ q \in Outcome /\ q.wkc \in Nat /\ p.wkc <= q.wkc
        /\ p.intact /\ q.valid
        /\ s[k].sent # <<>> =>
              q.wkc = p.wkc + Full(s[k].sent[1].kind) * Weight(s[k].sent[1].kind)
      BY <1>0, <2>1, <2>2, PullAdds DEF Outcome
  <2>4. p.wkc >= High(k - 1)
      BY <1>4, <2>3
  <2>5. CASE k = 1
    <3>1. q.wkc = p.wkc + InputsWKC
        BY <2>3, <2>5, Counters DEF Paired
    <3> QED BY <2>2, <2>3, <2>5, <3>1, Counters
  <2>6. CASE k = 2
    <3>1. q.wkc = p.wkc + 2 * OutputsWKC
        BY <2>3, <2>6, Counters DEF Paired
    <3>2. p.wkc >= InputsWKC
        BY <2>4, <2>6
    <3> QED BY <2>2, <2>3, <2>6, <3>1, <3>2, Counters DEF Expected
  <2>7. CASE k > 2
    <3>1. High(k) = High(k - 1) /\ High(k) \in Nat
        BY <1>0, <1>2, <2>7
    <3> HIDE DEF High
    <3> QED BY <2>2, <2>3, <2>4, <3>1
  <2> QED BY <2>5, <2>6, <2>7
<1> HIDE DEF T
<1>5. \A k \in 0 .. n : k \in T
    BY <1>0, <1>3, <1>4, UpTo
<1>6. n \in T /\ n > 1
    BY <1>0, <1>5
<1> QED BY <1>1, <1>6, SMTT(30) DEF T

(* With one cycle on the stack only its own input frame can bring inputs.  *)
OneCycle(hold) ==
    <<Entry([kind |-> "LRD", val |-> TRUE, hold |-> hold]),
      Entry([kind |-> "LWR", val |-> TRUE, hold |-> FALSE])>>

LEMMA OneCycleType ==
    ASSUME NEW hold \in BOOLEAN
    PROVE  /\ OneCycle(hold) \in Seq(Entries) /\ Len(OneCycle(hold)) = 2
           /\ Paired(OneCycle(hold)) /\ OneCycle(hold) # <<>>
           /\ OneCycle(hold)[1] = [kind |-> "LRD",
                                   sent |-> <<[kind |-> "LRD", val |-> TRUE, hold |-> hold]>>]
           /\ OneCycle(hold)[2] = [kind |-> "LWR",
                                   sent |-> <<[kind |-> "LWR", val |-> TRUE, hold |-> FALSE]>>]
<1>1. Entry([kind |-> "LRD", val |-> TRUE, hold |-> hold]) \in Entries
    BY DEF Entry, Entries, Frame
<1>2. Entry([kind |-> "LWR", val |-> TRUE, hold |-> FALSE]) \in Entries
    BY DEF Entry, Entries, Frame
<1>3. OneCycle(hold) \in Seq(Entries) /\ Len(OneCycle(hold)) = 2
    BY <1>1, <1>2 DEF OneCycle
<1> QED BY <1>3 DEF OneCycle, Entry, Paired

LEMMA OneCycleIsFresh ==
    ASSUME NEW hold \in BOOLEAN, fresh \in BOOLEAN, NEW r \in Results(OneCycle(hold))
    PROVE  /\ r.wkc >= Expected => r.fresh
           /\ fresh /\ hold => r.fresh
<1> DEFINE s == OneCycle(hold)
<1>0. s \in Seq(Entries) /\ Len(s) = 2
    BY OneCycleType
<1>1. PICK f \in [0 .. Len(s) -> SUBSET Outcome] :
          /\ f[0] = {Nothing}
          /\ \A k \in 1 .. Len(s) : f[k] = Turn(f[k - 1], s[k])
          /\ Results(s) = f[Len(s)]
    BY <1>0, Passes, Zenon
<1>2. s[1] \in Entries /\ s[2] \in Entries /\ s[2].kind = "LWR"
  <2>1. s[2] = [kind |-> "LWR", sent |-> <<[kind |-> "LWR", val |-> TRUE, hold |-> FALSE]>>]
      BY OneCycleType
  <2> HIDE DEF s
  <2> QED BY <1>0, <2>1
<1> HIDE DEF s
<1>3. f[1] = Turn({Nothing}, s[1]) /\ r \in Turn(f[1], s[2]) /\ f[1] \subseteq Outcome
  <2>1. 1 \in 1 .. Len(s) /\ 2 \in 1 .. Len(s) /\ 1 \in 0 .. Len(s)
      BY <1>0
  <2>2. f[1] = Turn(f[1 - 1], s[1]) /\ f[2] = Turn(f[2 - 1], s[2])
      BY <1>1, <2>1
  <2>3. f[1 - 1] = {Nothing} /\ f[2 - 1] = f[1]
      BY <1>1
  <2>4. r \in f[2]
      BY <1>0, <1>1 DEF s
  <2> QED BY <1>1, <2>1, <2>2, <2>3, <2>4
<1>4. PICK p \in f[1], b \in Answers(s[2]) : r = Pull(p, s[2], b)
    BY <1>3 DEF Turn
<1>5. PICK a \in Answers(s[1]) : p = Pull(Nothing, s[1], a)
    BY <1>3 DEF Turn
<1>6. p \in Outcome /\ r.fresh = p.fresh
    BY <1>3, <1>2, <1>4, PullAdds
<1>7. (p.wkc >= InputsWKC => p.fresh) /\ (fresh /\ hold => p.fresh)
  <2> DEFINE e == s[1]
  <2>0. /\ e.kind = "LRD" /\ e.sent = <<[kind |-> "LRD", val |-> TRUE, hold |-> hold]>>
        /\ e \in Entries
    <3>1. /\ e = [kind |-> "LRD", sent |-> <<[kind |-> "LRD", val |-> TRUE, hold |-> hold]>>]
          /\ e \in Entries
        BY <1>2, OneCycleType DEF s
    <3> HIDE DEF e
    <3> QED BY <3>1
  <2> HIDE DEF e
  <2>1. CASE a.from = 0
    <3>1. p = [Nothing EXCEPT !.intact = FALSE]
        BY <1>5, <2>1 DEF Pull
    <3>2. p.wkc = 0 /\ p.fresh = fresh
        BY <3>1 DEF Nothing
    <3> QED BY <3>2, Counters
  <2>2. CASE a.from # 0
    <3>1. a.from \in 1 .. Len(e.sent) /\ a.wkc \in 0 .. Full(e.sent[a.from].kind)
        BY <1>5, <2>0, <2>2, AnswerType DEF e
    <3>2. a.from = 1
        BY <2>0, <3>1
    <3> DEFINE g == e.sent[a.from]
    <3>3. g.kind = "LRD" /\ g.val = TRUE /\ g.hold = hold
        BY <2>0, <3>2
    <3> HIDE DEF g
    <3>4. p = [wkc |-> Nothing.wkc + a.wkc * Weight(g.kind), valid |-> TRUE,
               fresh |-> IF e.kind = "LRD" /\ g.kind = "LRD" THEN Brings(g, a.wkc)
                         ELSE Nothing.fresh,
               intact |-> Nothing.intact /\ a.from = 1 /\ a.wkc = Full(g.kind)]
        BY <1>5, <2>2 DEF Pull, e, g
    <3>5. \A w, v, x, i :
             LET q == [wkc |-> w, valid |-> v, fresh |-> x, intact |-> i]
             IN  q.fresh = x /\ q.wkc = w
        BY Zenon
    <3>6. /\ p.fresh = IF e.kind = "LRD" /\ g.kind = "LRD" THEN Brings(g, a.wkc)
                       ELSE Nothing.fresh
          /\ p.wkc = Nothing.wkc + a.wkc * Weight(g.kind)
        BY <3>4, <3>5, Zenon
    <3>7. p.fresh = Brings(g, a.wkc)
        BY <2>0, <3>3, <3>6, Zenon
    <3>8. Brings(g, a.wkc) = (a.wkc = InputsWKC \/ hold)
        BY <3>3 DEF Brings, Full
    <3>9. a.wkc \in 0 .. InputsWKC /\ p.wkc = a.wkc
        BY <3>1, <3>3, <3>6, Counters DEF Full, Weight, Nothing, g
    <3>10. p.wkc >= InputsWKC => a.wkc = InputsWKC
        BY <3>9, Counters
    <3> QED BY <3>7, <3>8, <3>10, Zenon
  <2> QED BY <2>1, <2>2
<1>8. r.wkc >= Expected => p.wkc >= InputsWKC
  <2> DEFINE e == s[2]
  <2>1. e = [kind |-> "LWR", sent |-> <<[kind |-> "LWR", val |-> TRUE, hold |-> FALSE]>>]
      BY OneCycleType DEF s
  <2> HIDE DEF e
  <2>2. \A i \in DOMAIN e.sent : e.sent[i].kind = "LWR"
      BY <2>1
  <2>3. r.wkc <= p.wkc + 2 * OutputsWKC /\ r \in Outcome
      BY <1>2, <1>4, <1>6, <2>2, PullAdds DEF e
  <2>4. p.wkc \in Nat /\ r.wkc \in Nat
      BY <1>6, <2>3 DEF Outcome
  <2> QED BY <2>3, <2>4, Counters, SMTT(30) DEF Expected
<1> QED BY <1>6, <1>7, <1>8
-----------------------------------------------------------------------------
(***************************************************************************)
(* What ecx_send_processdata puts on the stack.                            *)
(***************************************************************************)
Stacks == {s \in Seq(Entries) : Len(s) <= MAXBUF}

LEMMA PushKeeps ==
    ASSUME NEW s \in Stacks, NEW f \in Frame, NEW t \in Push(s, f)
    PROVE  /\ t \in Stacks /\ Len(s) <= Len(t)
           /\ Len(s) < MAXBUF => t = Append(s, Entry(f))
           /\ \A i \in 1 .. Len(s) : s[i].sent # <<>> =>
                  t[i].sent # <<>> /\ t[i].sent[1] = s[i].sent[1]
<1>0. s \in Seq(Entries) /\ Len(s) \in Nat /\ Len(s) <= MAXBUF /\ MAXBUF \in Nat
    BY ProcessDataAssumption DEF Stacks
<1>1. CASE Len(s) < MAXBUF
  <2>1. t = Append(s, Entry(f))
      BY <1>1 DEF Push
  <2>2. Entry(f) \in Entries
      BY DEF Entry, Entries, Frame
  <2>3. t \in Seq(Entries) /\ Len(t) = Len(s) + 1 /\ \A i \in 1 .. Len(s) : t[i] = s[i]
      BY <1>0, <2>1, <2>2
  <2> QED BY <1>0, <1>1, <2>1, <2>3 DEF Stacks
<1>2. CASE ~(Len(s) < MAXBUF)
  <2>1. PICK p \in DOMAIN s : t = [s EXCEPT ![p].sent = Append(@, f)]
      BY <1>2 DEF Push
  <2>2. p \in 1 .. Len(s) /\ s[p] \in Entries
      BY <1>0
  <2>3. s[p].sent \in Seq(Frame) /\ Append(s[p].sent, f) \in Seq(Frame)
      BY <2>2 DEF Entries
  <2>4. [s[p] EXCEPT !.sent = Append(@, f)] \in Entries
      BY <2>2, <2>3 DEF Entries
  <2>5. t = [s EXCEPT ![p] = [s[p] EXCEPT !.sent = Append(@, f)]]
      BY <2>1, <2>2
  <2>6. t \in Seq(Entries) /\ Len(t) = Len(s)
      BY <1>0, <2>2, <2>4, <2>5
  <2>7. \A i \in 1 .. Len(s) : s[i].sent # <<>> =>
            t[i].sent # <<>> /\ t[i].sent[1] = s[i].sent[1]
    <3> SUFFICES ASSUME NEW i \in 1 .. Len(s), s[i].sent # <<>>
                 PROVE  t[i].sent # <<>> /\ t[i].sent[1] = s[i].sent[1]
        OBVIOUS
    <3>1. CASE i # p
        BY <1>0, <2>5, <3>1
    <3>2. CASE i = p
      <4>1. t[i].sent = Append(s[i].sent, f) /\ s[i].sent \in Seq(Frame)
          BY <1>0, <2>2, <2>3, <2>5, <3>2 DEF Entries
      <4> QED BY <4>1
    <3> QED BY <3>1, <3>2
  <2> QED BY <1>0, <1>2, <2>6, <2>7 DEF Stacks
<1> QED BY <1>1, <1>2

LEMMA SentPairs ==
    ASSUME NEW s \in Stacks, Paired(s), NEW hold \in BOOLEAN, NEW u \in Sent(s, hold)
    PROVE  u \in Stacks /\ u # <<>> /\ Paired(u) /\ (s = <<>> => u = OneCycle(hold))
<1> DEFINE in == [kind |-> "LRD", val |-> TRUE, hold |-> hold]
           out == [kind |-> "LWR", val |-> TRUE, hold |-> FALSE]
<1>0. in \in Frame /\ out \in Frame /\ in.kind = "LRD" /\ out.kind = "LWR"
    BY DEF Frame
<1>1. PICK t \in Push(s, in) : u \in Push(t, out)
    BY DEF Sent
<1>2. /\ t \in Stacks /\ Len(s) <= Len(t)
      /\ Len(s) < MAXBUF => t = Append(s, Entry(in))
      /\ \A i \in 1 .. Len(s) : s[i].sent # <<>> =>
             t[i].sent # <<>> /\ t[i].sent[1] = s[i].sent[1]
    BY <1>0, <1>1, PushKeeps, Zenon
<1>3. /\ u \in Stacks /\ Len(t) <= Len(u)
      /\ Len(t) < MAXBUF => u = Append(t, Entry(out))
      /\ \A i \in 1 .. Len(t) : t[i].sent # <<>> =>
             u[i].sent # <<>> /\ u[i].sent[1] = t[i].sent[1]
    BY <1>0, <1>1, <1>2, PushKeeps, Zenon
<1>4. CASE s = <<>>
  <2>1. t = <<Entry(in)>> /\ Len(t) = 1
      BY <1>2, <1>4, ProcessDataAssumption
  <2>2. u = <<Entry(in), Entry(out)>>
      BY <1>3, <2>1, ProcessDataAssumption
  <2>3. u = OneCycle(hold)
      BY <2>2 DEF OneCycle
  <2> QED BY <1>3, <2>3, OneCycleType
<1>5. CASE s # <<>>
  <2>0. /\ Len(s) >= 2 /\ s[1].sent # <<>> /\ s[1].sent[1].kind = "LRD"
        /\ s[2].sent # <<>> /\ s[2].sent[1].kind = "LWR"
      BY <1>5 DEF Paired
  <2>1. {Len(s), Len(t), Len(u)} \subseteq Nat
      BY <1>2, <1>3 DEF Stacks
  <2>2. 1 \in 1 .. Len(s) /\ 2 \in 1 .. Len(s) /\ 1 \in 1 .. Len(t) /\ 2 \in 1 .. Len(t)
      BY <1>2, <2>0, <2>1
  <2>3. Len(u) >= 2
      BY <1>2, <1>3, <2>0, <2>1
  <2>4. /\ u[1].sent # <<>> /\ u[1].sent[1] = s[1].sent[1]
        /\ u[2].sent # <<>> /\ u[2].sent[1] = s[2].sent[1]
      BY <1>2, <1>3, <2>0, <2>2
  <2> QED BY <1>3, <1>5, <2>0, <2>3, <2>4 DEF Paired
<1> QED BY <1>4, <1>5

LEMMA AgedKeeps ==
    ASSUME NEW s \in Stacks
    PROVE  Aged(s) \in Stacks /\ (Paired(s) => Paired(Aged(s))) /\ (s = <<>> => Aged(s) = <<>>)
<1> DEFINE Old(q) == [i \in DOMAIN q |-> [q[i] EXCEPT !.val = FALSE, !.hold = FALSE]]
           a == Aged(s)
<1>0. s \in Seq(Entries) /\ Len(s) \in Nat /\ Len(s) <= MAXBUF
    BY DEF Stacks
<1>1. a = [p \in 1 .. Len(s) |-> [s[p] EXCEPT !.sent = Old(s[p].sent)]]
    BY <1>0 DEF Aged
<1>2. ASSUME NEW q \in Seq(Frame)
      PROVE  /\ Old(q) \in Seq(Frame) /\ Len(Old(q)) = Len(q)
             /\ q # <<>> => Old(q) # <<>> /\ Old(q)[1].kind = q[1].kind
  <2>0. DOMAIN q = 1 .. Len(q) /\ Len(q) \in Nat /\ \A i \in 1 .. Len(q) : q[i] \in Frame
      OBVIOUS
  <2> DEFINE o == Old(q)
  <2>1. o = [i \in 1 .. Len(q) |-> [q[i] EXCEPT !.val = FALSE, !.hold = FALSE]]
      BY <2>0
  <2> HIDE DEF o
  <2>2. ASSUME NEW i \in 1 .. Len(q)
        PROVE  o[i] \in Frame /\ o[i].kind = q[i].kind
    <3>1. o[i] = [q[i] EXCEPT !.val = FALSE, !.hold = FALSE] /\ q[i] \in Frame
        BY <2>0, <2>1
    <3> QED BY <3>1 DEF Frame
  <2>3. o \in Seq(Frame) /\ Len(o) = Len(q)
    <3>1. \A i \in 1 .. Len(q) : o[i] \in Frame
        BY <2>2
    <3>2. o \in [1 .. Len(q) -> Frame]
      <4> HIDE DEF Old
      <4> DEFINE n == Len(q)
      <4>1. o = [i \in 1 .. n |-> o[i]]
          BY <2>1
      <4> QED BY <3>1, <4>1
    <3> QED BY <2>0, <3>2
  <2>4. q # <<>> => o # <<>> /\ 1 \in 1 .. Len(q)
      BY <2>0, <2>3
  <2> QED BY <2>2, <2>3, <2>4 DEF o
<1> HIDE DEF Old
<1>3. ASSUME NEW p \in 1 .. Len(s)
      PROVE  a[p] \in Entries /\ a[p].sent = Old(s[p].sent) /\ s[p].sent \in Seq(Frame)
  <2>1. s[p] \in Entries /\ a[p] = [s[p] EXCEPT !.sent = Old(s[p].sent)]
      BY <1>0, <1>1
  <2>2. s[p].sent \in Seq(Frame) /\ Old(s[p].sent) \in Seq(Frame)
      BY <1>2, <2>1 DEF Entries
  <2> HIDE DEF a
  <2> QED BY <2>1, <2>2 DEF Entries
<1>4. a \in Seq(Entries) /\ Len(a) = Len(s)
    BY <1>0, <1>1, <1>3
<1> HIDE DEF a
<1>5. Paired(s) => Paired(a)
  <2> SUFFICES ASSUME Paired(s), s # <<>>
               PROVE  Paired(a)
      BY <1>0, <1>4 DEF Paired
  <2>1. 1 \in 1 .. Len(s) /\ 2 \in 1 .. Len(s)
      BY <1>0 DEF Paired
  <2> QED BY <1>2, <1>3, <1>4, <2>1 DEF Paired
<1>6. s = <<>> => a = <<>>
    BY <1>0, <1>4
<1> QED BY <1>0, <1>4, <1>5, <1>6 DEF Stacks, a
-----------------------------------------------------------------------------
(***************************************************************************)
(* The inductive invariant. What is on the stack always begins with an     *)
(* input and an output request, and after one updateWrite it is exactly    *)
(* that cycle (StackInv): this is what makes the working counter tell how  *)
(* fresh the inputs are (FreshInv), and an exchange without a lost frame   *)
(* reach the expected counter. A too low reading that is still to be       *)
(* counted is paid for already (AlarmInv).                                 *)
(***************************************************************************)
Due ==
    \/ pc = "received" /\ wkc < Expected
    \/ pc = "idle" /\ sent /\ (holder \/ stack = <<>>)

StackInv ==
    /\ Paired(stack)
    /\ pc # "idle" \/ writes = 0 => stack = <<>>
    /\ writes = 1 => stack \in {<<>>, OneCycle(FALSE)}

FreshInv ==
    /\ pc = "received" /\ writes = 1 /\ wkc >= Expected => fresh
    /\ pc = "deliver" /\ writes = 1 => fresh

AlarmInv ==
    /\ pc \in {"log", "deliver"} => ~sent
    /\ tooLow + (IF Due THEN 1 ELSE 0) <= fails + ops

IInv == TypeOK /\ StackInv /\ FreshInv /\ AlarmInv

LEMMA StackType == TypeOK => stack \in Stacks /\ fresh \in BOOLEAN
BY DEF TypeOK, Stacks

LEMMA Receives ==
    ASSUME TypeOK, NEW s \in Stacks, Paired(s), Receive(s)
    PROVE  /\ wkc' \in NOFRAME .. MaxWkc /\ fresh' \in BOOLEAN /\ fails' \in 0 .. MaxFails
           /\ stack' = <<>>
           /\ fails' = fails \/ fails' = fails + 1
           /\ s # <<>> /\ wkc' < Expected => fails' = fails + 1
           /\ s = <<>> => wkc' = NOFRAME
           /\ \A hold \in BOOLEAN : s = OneCycle(hold) =>
                  /\ wkc' >= Expected => fresh'
                  /\ fresh /\ hold => fresh'
<1>1. PICK r \in Results(s) :
          /\ fails' = IF r.intact THEN fails ELSE fails + 1
          /\ fails' <= MaxFails
          /\ wkc' = IF r.valid THEN r.wkc ELSE NOFRAME
          /\ fresh' = r.fresh
          /\ stack' = <<>>
    BY DEF Receive
<1>2. /\ fresh \in BOOLEAN /\ s \in Seq(Entries) /\ Len(s) <= MAXBUF /\ fails \in 0 .. MaxFails
      /\ MaxFails \in Nat /\ Expected \in Nat /\ Expected > 0 /\ MaxWkc \in Nat
    BY Counters, ProcessDataAssumption DEF TypeOK, Stacks, Expected, MaxWkc
<1>3. r \in Outcome /\ r.wkc \in 0 .. MaxWkc
    BY <1>2, ResultsBounded
<1>4. wkc' \in NOFRAME .. MaxWkc
    BY <1>1, <1>2, <1>3 DEF NOFRAME
<1>5. fresh' \in BOOLEAN
    BY <1>1, <1>3 DEF Outcome
<1>6. fails' \in 0 .. MaxFails /\ (fails' = fails \/ fails' = fails + 1)
    BY <1>1, <1>2
<1>7. s # <<>> /\ wkc' < Expected => fails' = fails + 1
  <2> SUFFICES ASSUME s # <<>>, wkc' < Expected, r.intact
               PROVE  FALSE
      BY <1>1
  <2>1. r.valid /\ r.wkc >= Expected
      BY <1>2, IntactIsComplete
  <2> QED BY <1>1, <1>2, <1>3, <2>1
<1>8. s = <<>> => wkc' = NOFRAME
  <2> SUFFICES ASSUME s = <<>>
               PROVE  ~r.valid
      BY <1>1
  <2>1. PICK f \in [0 .. Len(s) -> SUBSET Outcome] : f[0] = {Nothing} /\ Results(s) = f[Len(s)]
      BY <1>2, Passes, Zenon
  <2>2. r = Nothing
      BY <2>1
  <2> QED BY <2>2 DEF Nothing
<1>9. ASSUME NEW hold \in BOOLEAN, s = OneCycle(hold)
      PROVE  (wkc' >= Expected => fresh') /\ (fresh /\ hold => fresh')
  <2>1. (r.wkc >= Expected => r.fresh) /\ (fresh /\ hold => r.fresh)
      BY <1>2, <1>9, OneCycleIsFresh
  <2>2. wkc' >= Expected => r.wkc >= Expected
      BY <1>1, <1>2, <1>3 DEF NOFRAME
  <2> QED BY <1>1, <2>1, <2>2
<1> QED BY <1>1, <1>4, <1>5, <1>6, <1>7, <1>8, <1>9, Zenon

(* An exchange of the control thread.                                      *)
LEMMA Exchanges ==
    ASSUME TypeOK, StackInv, Exchange
    PROVE  /\ wkc' \in NOFRAME .. MaxWkc /\ fresh' \in BOOLEAN /\ fails' \in 0 .. MaxFails
           /\ stack' = <<>>
           /\ fails' = fails \/ fails' = fails + 1
           /\ wkc' < Expected => fails' = fails + 1
           /\ pc # "idle" => (wkc' >= Expected => fresh') /\ (fresh => fresh')
<1>0. stack \in Stacks /\ fresh \in BOOLEAN /\ Paired(stack)
    BY StackType DEF StackInv
<1>1. PICK s \in Sent(stack, fresh) : Receive(s)
    BY DEF Exchange
<1>2. s \in Stacks /\ s # <<>> /\ Paired(s) /\ (stack = <<>> => s = OneCycle(fresh))
    BY <1>0, SentPairs, Zenon
<1>3. pc # "idle" => s = OneCycle(fresh)
    BY <1>2 DEF StackInv
<1> QED BY <1>0, <1>1, <1>2, <1>3, Receives, Zenon

LEMMA Bounds ==
    /\ MaxWrites \in Nat /\ MaxRetries \in Nat /\ MaxOps \in Nat /\ MaxFails \in Nat
    /\ 0 <= MaxWkc /\ MaxWkc \in Nat
BY Counters, ProcessDataAssumption DEF MaxWkc

FlagsOK == fresh \in BOOLEAN /\ sent \in BOOLEAN /\ holder \in BOOLEAN
CountsOK ==
    /\ wkc \in NOFRAME .. MaxWkc
    /\ tooLow \in Nat
    /\ retry \in 0 .. MaxRetries + 1
    /\ writes \in 0 .. MaxWrites /\ ops \in 0 .. MaxOps /\ fails \in 0 .. MaxFails

LEMMA TypeParts ==
    TypeOK <=> /\ stack \in Stacks /\ pc \in {"idle", "received", "log", "deliver"}
               /\ FlagsOK /\ CountsOK
<1>1. (stack \in Seq(Entries) /\ Len(stack) <= MAXBUF) <=> stack \in Stacks
    BY Zenon DEF Stacks
<1> QED BY <1>1, Zenon DEF TypeOK, FlagsOK, CountsOK

LEMMA CountsType ==
    CountsOK => writes \in Nat /\ tooLow \in Nat /\ fails \in Nat /\ ops \in Nat
BY Bounds DEF CountsOK

LEMMA TypeStep == IInv /\ [Next]_vars => TypeOK'
<1> SUFFICES ASSUME IInv, [Next]_vars
             PROVE  TypeOK'
    OBVIOUS
<1>0. /\ TypeOK /\ StackInv /\ stack \in Stacks /\ Paired(stack)
      /\ pc \in {"idle", "received", "log", "deliver"} /\ FlagsOK /\ CountsOK
    BY TypeParts, Zenon DEF IInv, StackInv
<1>1. ASSUME stack' \in Stacks, pc' \in {"idle", "received", "log", "deliver"},
             FlagsOK', CountsOK'
      PROVE  TypeOK'
    BY <1>1, Zenon DEF TypeOK, FlagsOK, CountsOK, Stacks
<1>2. CASE UpdateWrite
  <2>1. Aged(stack) \in Stacks /\ Paired(Aged(stack)) /\ stack' \in Sent(Aged(stack), FALSE)
      BY <1>0, <1>2, AgedKeeps DEF UpdateWrite
  <2>2. stack' \in Stacks
      BY <2>1, SentPairs
  <2>3. FlagsOK' /\ pc' = pc
      BY <1>0, <1>2, Zenon DEF UpdateWrite, FlagsOK
  <2>4. CountsOK'
      BY <1>0, <1>2, Bounds DEF UpdateWrite, CountsOK, MaxWkc
  <2> QED BY <1>0, <1>1, <2>2, <2>3, <2>4
<1>3. CASE UpdateReadReceive \/ SetOperational \/ WaitRetry
  <2>1. /\ wkc' \in NOFRAME .. MaxWkc /\ fresh' \in BOOLEAN /\ fails' \in 0 .. MaxFails
        /\ stack' = <<>>
      BY <1>0, <1>3, Receives, Exchanges, Zenon
      DEF UpdateReadReceive, SetOperational, WaitRetry
  <2>2. stack' \in Stacks
      BY <2>1, ProcessDataAssumption DEF Stacks
  <2>3. FlagsOK' /\ pc' \in {pc, "received"}
      BY <1>0, <1>3, <2>1 DEF UpdateReadReceive, SetOperational, WaitRetry, FlagsOK
  <2>4. CountsOK'
      BY <1>0, <1>3, <2>1, Bounds, SMTT(30)
      DEF UpdateReadReceive, SetOperational, WaitRetry, CountsOK, MaxWkc
  <2> QED BY <1>0, <1>1, <2>2, <2>3, <2>4
<1>4. CASE UpdateReadCheck
  <2>1. FlagsOK' /\ pc' \in {"log", "deliver"} /\ stack' = stack
      BY <1>0, <1>4 DEF UpdateReadCheck, FlagsOK
  <2>2. CountsOK'
      BY <1>0, <1>4 DEF UpdateReadCheck, CountsOK, MaxWkc
  <2> QED BY <1>0, <1>1, <2>1, <2>2
<1>5. CASE UpdateReadEnd \/ WaitBegin \/ WaitEnd \/ UNCHANGED vars
  <2>1. FlagsOK' /\ pc' \in {pc, "idle"} /\ stack' = stack
      BY <1>0, <1>5 DEF UpdateReadEnd, WaitBegin, WaitEnd, vars, FlagsOK
  <2>2. CountsOK'
      BY <1>0, <1>5, Bounds DEF UpdateReadEnd, WaitBegin, WaitEnd, vars, CountsOK, MaxWkc
  <2> QED BY <1>0, <1>1, <2>1, <2>2
<1> QED BY <1>2, <1>3, <1>4, <1>5 DEF Next, Cyclic, Control

LEMMA StackStep == IInv /\ [Next]_vars => StackInv'
<1> SUFFICES ASSUME IInv, [Next]_vars
             PROVE  StackInv'
    OBVIOUS
<1>0. TypeOK /\ StackInv /\ stack \in Stacks /\ Paired(stack) /\ writes \in Nat
    BY TypeParts, CountsType, Zenon DEF IInv, StackInv
<1>1. CASE UpdateWrite
  <2>1. /\ Aged(stack) \in Stacks /\ Paired(Aged(stack)) /\ stack' \in Sent(Aged(stack), FALSE)
        /\ stack = <<>> => Aged(stack) = <<>>
      BY <1>0, <1>1, AgedKeeps DEF UpdateWrite
  <2>2. Paired(stack') /\ (stack = <<>> => stack' = OneCycle(FALSE))
      BY <2>1, SentPairs
  <2>3. pc' = "idle" /\ writes' = writes + 1
      BY <1>1 DEF UpdateWrite
  <2>4. writes' # 0 /\ (writes' = 1 => stack = <<>>)
      BY <1>0, <2>3 DEF StackInv
  <2> QED BY <2>2, <2>3, <2>4 DEF StackInv, Paired
<1>2. ASSUME stack' = <<>>
      PROVE  StackInv'
    BY <1>2 DEF StackInv, Paired
<1>3. CASE UpdateReadReceive \/ SetOperational \/ WaitRetry
    BY <1>0, <1>2, <1>3, Receives, Exchanges
    DEF UpdateReadReceive, SetOperational, WaitRetry
<1>4. CASE UpdateReadCheck \/ UpdateReadEnd
    BY <1>0, <1>2, <1>4 DEF UpdateReadCheck, UpdateReadEnd, StackInv
<1>5. CASE WaitBegin \/ WaitEnd \/ UNCHANGED vars
    BY <1>0, <1>5 DEF WaitBegin, WaitEnd, vars, StackInv, Paired
<1> QED BY <1>1, <1>3, <1>4, <1>5 DEF Next, Cyclic, Control

LEMMA FreshStep == IInv /\ [Next]_vars => FreshInv'
<1> SUFFICES ASSUME IInv, [Next]_vars
             PROVE  FreshInv'
    OBVIOUS
<1>0. TypeOK /\ StackInv /\ FreshInv /\ stack \in Stacks /\ Paired(stack)
    BY StackType DEF IInv, StackInv
<1>1. CASE UpdateReadReceive
  <2>1. /\ stack = <<>> => wkc' = NOFRAME
        /\ stack = OneCycle(FALSE) => (wkc' >= Expected => fresh')
      BY <1>0, <1>1, Receives DEF UpdateReadReceive
  <2>2. ~(NOFRAME >= Expected)
      BY Counters DEF NOFRAME, Expected
  <2>3. pc' = "received" /\ writes' = writes
      BY <1>1 DEF UpdateReadReceive
  <2> QED BY <1>0, <2>1, <2>2, <2>3 DEF FreshInv, StackInv
<1>2. CASE UpdateReadCheck
    BY <1>0, <1>2 DEF UpdateReadCheck, FreshInv
<1>3. CASE UpdateWrite \/ UpdateReadEnd
    BY <1>3 DEF UpdateWrite, UpdateReadEnd, FreshInv
<1>4. CASE SetOperational \/ WaitRetry
  <2>1. /\ pc # "idle" => (wkc' >= Expected => fresh') /\ (fresh => fresh')
        /\ pc' = pc /\ writes' = writes
      BY <1>0, <1>4, Exchanges DEF SetOperational, WaitRetry
  <2> QED BY <1>0, <2>1, Zenon DEF FreshInv
<1>5. CASE WaitBegin \/ WaitEnd \/ UNCHANGED vars
    BY <1>0, <1>5 DEF WaitBegin, WaitEnd, vars, FreshInv, Expected
<1> QED BY <1>1, <1>2, <1>3, <1>4, <1>5 DEF Next, Cyclic, Control

LEMMA AlarmStep == IInv /\ [Next]_vars => AlarmInv'
<1> SUFFICES ASSUME IInv, [Next]_vars
             PROVE  AlarmInv'
    OBVIOUS
<1>0. /\ TypeOK /\ StackInv /\ AlarmInv /\ stack \in Stacks /\ Paired(stack)
      /\ tooLow \in Nat /\ fails \in Nat /\ ops \in Nat
    BY TypeParts, CountsType, Zenon DEF IInv, StackInv
<1>10. Expected' = Expected
    BY DEF Expected
<1>1. CASE UpdateWrite
  <2>1. stack' # <<>>
    <3>1. Aged(stack) \in Stacks /\ Paired(Aged(stack)) /\ stack' \in Sent(Aged(stack), FALSE)
        BY <1>0, <1>1, AgedKeeps DEF UpdateWrite
    <3> QED BY <3>1, SentPairs
  <2>2. pc' = "idle" /\ ~holder' /\ tooLow' = tooLow /\ fails' = fails /\ ops' = ops
      BY <1>1 DEF UpdateWrite
  <2>3. ~Due'
      BY <2>1, <2>2 DEF Due
  <2> QED BY <1>0, <2>2, <2>3 DEF AlarmInv
<1>2. CASE UpdateReadReceive
  <2>1. /\ fails' = fails \/ fails' = fails + 1
        /\ stack # <<>> /\ wkc' < Expected => fails' = fails + 1
      BY <1>0, <1>2, Receives DEF UpdateReadReceive
  <2>2. pc = "idle" /\ sent /\ pc' = "received" /\ tooLow' = tooLow /\ ops' = ops
      BY <1>2 DEF UpdateReadReceive
  <2>3. Due' => wkc' < Expected
      BY <1>10, <2>2 DEF Due
  <2>4. stack = <<>> => Due
      BY <2>2 DEF Due
  <2> HIDE DEF Due
  <2> QED BY <1>0, <2>1, <2>2, <2>3, <2>4 DEF AlarmInv
<1>3. CASE UpdateReadCheck
  <2>1. /\ pc = "received" /\ pc' \in {"log", "deliver"} /\ sent' = FALSE
        /\ fails' = fails /\ ops' = ops
      BY <1>3 DEF UpdateReadCheck
  <2>0. tooLow' = 0 \/ (wkc < Expected /\ tooLow' = tooLow + 1)
      BY <1>3 DEF UpdateReadCheck
  <2>2. ~Due' /\ (wkc < Expected => Due)
      BY <2>1 DEF Due
  <2> QED BY <1>0, <2>0, <2>1, <2>2 DEF AlarmInv
<1>4. CASE UpdateReadEnd
  <2>1. /\ pc' = "idle" /\ ~sent' /\ tooLow' = tooLow /\ fails' = fails /\ ops' = ops
      BY <1>0, <1>4 DEF UpdateReadEnd, AlarmInv
  <2>2. ~Due'
      BY <2>1 DEF Due
  <2> QED BY <1>0, <2>1, <2>2 DEF AlarmInv
<1>5. CASE SetOperational
  <2>1. fails' = fails \/ fails' = fails + 1
      BY <1>0, <1>5, Exchanges DEF SetOperational
  <2>2. pc' = pc /\ sent' = sent /\ tooLow' = tooLow /\ ops' = ops + 1
      BY <1>5 DEF SetOperational
  <2> QED BY <1>0, <2>1, <2>2 DEF AlarmInv
<1>6. CASE WaitBegin
  <2>1. pc' = pc /\ sent' = sent /\ tooLow' = tooLow /\ ops' = ops + 1 /\ fails' = fails
      BY <1>6 DEF WaitBegin
  <2> QED BY <1>0, <2>1 DEF AlarmInv
<1>7. CASE WaitRetry
  <2>1. (fails' = fails \/ fails' = fails + 1) /\ (wkc' < Expected => fails' = fails + 1)
      BY <1>0, <1>7, Exchanges DEF WaitRetry
  <2>2. /\ holder /\ holder' = holder /\ pc' = pc /\ sent' = sent
        /\ tooLow' = tooLow /\ ops' = ops
      BY <1>7 DEF WaitRetry
  <2>3. Due' => Due \/ fails' = fails + 1
      BY <1>10, <2>1, <2>2 DEF Due
  <2> HIDE DEF Due
  <2> QED BY <1>0, <2>1, <2>2, <2>3 DEF AlarmInv
<1>8. CASE WaitEnd
  <2>1. /\ holder /\ pc' = pc /\ sent' = sent /\ tooLow' = tooLow /\ ops' = ops
        /\ fails' = fails /\ wkc' = wkc
      BY <1>8 DEF WaitEnd
  <2>2. Due' => Due
      BY <1>10, <2>1 DEF Due
  <2> QED BY <1>0, <2>1, <2>2 DEF AlarmInv
<1>9. CASE UNCHANGED vars
    BY <1>0, <1>9 DEF vars, AlarmInv, Due, Expected
<1> QED BY <1>1, <1>2, <1>3, <1>4, <1>5, <1>6, <1>7, <1>8, <1>9 DEF Next, Cyclic, Control

LEMMA Inductive == Spec => []IInv
<1>1. Init => IInv
  <2>1. Init => TypeOK
    <3>1. Init => stack \in Stacks /\ pc \in {"idle", "received", "log", "deliver"}
        BY ProcessDataAssumption DEF Init, Stacks
    <3>2. Init => FlagsOK
        BY Zenon DEF Init, FlagsOK
    <3>3. Init => CountsOK
        BY Bounds DEF Init, CountsOK, NOFRAME
    <3> QED BY <3>1, <3>2, <3>3, TypeParts, Zenon
  <2>2. Init => StackInv /\ FreshInv /\ AlarmInv
      BY DEF Init, StackInv, FreshInv, AlarmInv, Paired, Due
  <2> QED BY <2>1, <2>2 DEF IInv
<1>2. IInv /\ [Next]_vars => IInv'
    BY TypeStep, StackStep, FreshStep, AlarmStep DEF IInv
<1> QED BY <1>1, <1>2, PTL DEF Spec

(* The stack never holds more than EC_MAXBUF entries, wkc_ never counts    *)
(* more than they can bring (ethercatmain.c:2066, 2230).                   *)
THEOREM Typed == Spec => []TypeOK
BY Inductive, PTL DEF IInv

(* EthercatBusBase.cpp:258: slaves that are told to read their inputs read *)
(* fresh ones, if there was one updateWrite.                               *)
THEOREM FreshInputs == Spec => []ReadsAreFresh
<1>1. IInv => ReadsAreFresh
    BY DEF IInv, FreshInv, ReadsAreFresh
<1> QED BY Inductive, <1>1, PTL

(* EthercatBusBase.cpp:259: every too low reading is due to an exchange    *)
(* that went wrong or to a call of the control thread.                     *)
THEOREM AlarmsAreDue == Spec => []NoFalseAlarm
<1>1. IInv => NoFalseAlarm
    BY Bounds DEF IInv, AlarmInv, NoFalseAlarm, TypeOK
<1> QED BY Inductive, <1>1, PTL

-----------------------------------------------------------------------------
(***************************************************************************)
(* The bridge: CanBridge, for any channels, contents of frames and sizes   *)
(* of the process data.                                                    *)
(***************************************************************************)

(***************************************************************************)
(* receiveAllUniqueMessages, frame by frame.                               *)
(***************************************************************************)
Known(u, f) == \E i \in DOMAIN u : u[i].what = f.what
Read(u, f) == IF Known(u, f) THEN u ELSE Append(u, f)

LEMMA Reads ==
    ASSUME NEW q \in Seq(CanFrame)
    PROVE  \E f \in [0 .. Len(q) -> Seq(CanFrame)] :
              /\ f[0] = <<>>
              /\ \A k \in 1 .. Len(q) : f[k] = Read(f[k - 1], q[k])
              /\ Unique(q) = f[Len(q)]
<1> DEFINE n == Len(q)
           S == Seq(CanFrame)
           g == [k \in 1 .. n |-> [u \in S |-> Read(u, q[k])]]
<1>0. n \in Nat /\ \A k \in 1 .. n : q[k] \in CanFrame
    OBVIOUS
<1>1. <<>> \in S
    OBVIOUS
<1>2. ASSUME NEW k \in 1 .. n, NEW u \in S
      PROVE  Read(u, q[k]) \in S
  <2>1. q[k] \in CanFrame
      BY <1>0
  <2>2. Append(u, q[k]) \in S
      BY <2>1
  <2> QED BY <2>2 DEF Read
<1> HIDE DEF S, n
<1>3. g \in [1 .. n -> [S -> S]]
    BY <1>2
<1>4. \A k \in 1 .. n, u \in S : g[k][u] = Read(u, q[k])
    OBVIOUS
<1> HIDE DEF g
<1>5. PICK f : Iterates(f, n, S, <<>>, g)
    BY <1>0, <1>1, <1>3, Recursion, Zenon
<1>6. f \in [0 .. n -> S] /\ f[0] = <<>> /\ \A k \in 1 .. n : f[k] = g[k][f[k - 1]]
    BY <1>5 DEF Iterates
<1>7. \A k \in 1 .. n : f[k] = Read(f[k - 1], q[k])
  <2> TAKE k \in 1 .. n
  <2>1. k - 1 \in 0 .. n
      BY <1>0
  <2>2. f[k - 1] \in S
      BY <1>6, <2>1
  <2> QED BY <1>4, <1>6, <2>2
<1> DEFINE Is(R) == R = [k \in 0 .. n |->
                           IF k = 0 THEN <<>>
                           ELSE IF \E x \in Range(R[k - 1]) : x.what = q[k].what THEN R[k - 1]
                           ELSE Append(R[k - 1], q[k])]
<1>8. \A R : Is(R) => R = f
  <2> SUFFICES ASSUME NEW R, Is(R)
               PROVE  R = f
      OBVIOUS
  <2>0. \A k \in 0 .. n : R[k] = IF k = 0 THEN <<>> ELSE Read(R[k - 1], q[k])
    <3>1. ASSUME NEW k \in 0 .. n, k # 0 PROVE R[k] = Read(R[k - 1], q[k])
        BY <3>1 DEF Read, Known, Range
    <3>2. 0 \in 0 .. n => R[0] = <<>>
        OBVIOUS
    <3> QED BY <3>1, <3>2
  <2> DEFINE T == {k \in 0 .. n : R[k] = f[k]}
  <2>1. 0 \in T
      BY <1>0, <1>6, <2>0
  <2>2. ASSUME NEW k \in 1 .. n, k - 1 \in T
        PROVE  k \in T
    <3>1. k \in 0 .. n /\ k # 0
        BY <1>0
    <3>2. R[k] = Read(R[k - 1], q[k])
        BY <2>0, <3>1
    <3> QED BY <1>7, <2>2, <3>1, <3>2
  <2> HIDE DEF T
  <2>3. \A k \in 0 .. n : k \in T
      BY <1>0, <2>1, <2>2, UpTo
  <2>4. \A k \in 0 .. n : R[k] = f[k]
      BY <2>3 DEF T
  <2>5. R = [k \in 0 .. n |-> R[k]]
      OBVIOUS
  <2> QED BY <1>6, <2>4, <2>5
<1>9. Is(f)
  <2>1. f = [k \in 0 .. n |-> f[k]]
      BY <1>6
  <2>2. \A k \in 0 .. n :
           f[k] = IF k = 0 THEN <<>>
                  ELSE IF \E x \in Range(f[k - 1]) : x.what = q[k].what THEN f[k - 1]
                  ELSE Append(f[k - 1], q[k])
    <3> TAKE k \in 0 .. n
    <3>1. CASE k = 0
        BY <1>6, <3>1
    <3>2. CASE k # 0
      <4>1. k \in 1 .. n
          BY <1>0, <3>2
      <4>2. f[k] = Read(f[k - 1], q[k])
          BY <1>7, <4>1
      <4> QED BY <3>2, <4>2 DEF Read, Known, Range
    <3> QED BY <3>1, <3>2
  <2> QED BY <2>1, <2>2
<1>10. Unique(q) = f[n]
  <2>1. Unique(q) = (CHOOSE R : Is(R))[n]
      BY DEF Unique, n
  <2>2. Is(CHOOSE R : Is(R))
      BY <1>9
  <2> QED BY <1>8, <2>1, <2>2
<1> QED BY <1>6, <1>7, <1>10, Zenon DEF n, S

Rising(s) == \A i, j \in DOMAIN s : i < j => s[i].n < s[j].n

(* What has been kept of the first k frames of a queue.                    *)
Kept(q, k, u) ==
    /\ \A i \in DOMAIN u : \E j \in 1 .. k : u[i] = q[j]
    /\ \A j \in 1 .. k : Known(u, q[j])
    /\ \A i, j \in DOMAIN u : u[i].what = u[j].what => i = j
    /\ Rising(q) => Rising(u)

LEMMA KeptNext ==
    ASSUME NEW q \in Seq(CanFrame), NEW k \in 1 .. Len(q),
           NEW u \in Seq(CanFrame), Kept(q, k - 1, u)
    PROVE  Kept(q, k, Read(u, q[k]))
<1>0. k \in Nat /\ k - 1 \in Nat /\ \A j \in 1 .. k : j \in 1 .. k - 1 \/ j = k
    OBVIOUS
<1>1. CASE Known(u, q[k])
  <2>1. Read(u, q[k]) = u
      BY <1>1 DEF Read
  <2>2. \A i \in DOMAIN u : \E j \in 1 .. k : u[i] = q[j]
      BY <1>0 DEF Kept
  <2>3. \A j \in 1 .. k : Known(u, q[j])
      BY <1>0, <1>1 DEF Kept
  <2> QED BY <2>1, <2>2, <2>3 DEF Kept
<1>2. CASE ~Known(u, q[k])
  <2> DEFINE v == Append(u, q[k])
             m == Len(u)
  <2>1. Read(u, q[k]) = v
      BY <1>2 DEF Read
  <2>2. m \in Nat /\ DOMAIN u = 1 .. m /\ DOMAIN v = 1 .. m + 1
      OBVIOUS
  <2>3. v[m + 1] = q[k] /\ \A i \in 1 .. m : v[i] = u[i]
      OBVIOUS
  <2> HIDE DEF v, m
  <2>4. \A i \in 1 .. m + 1 : i \in 1 .. m \/ i = m + 1
      BY <2>2
  <2>5. \A i \in DOMAIN v : \E j \in 1 .. k : v[i] = q[j]
    <3> TAKE i \in DOMAIN v
    <3>1. CASE i \in 1 .. m
        BY <1>0, <2>2, <2>3, <3>1 DEF Kept
    <3>2. CASE i = m + 1
        BY <1>0, <2>3, <3>2
    <3> QED BY <2>2, <2>4, <3>1, <3>2
  <2>6. \A j \in 1 .. k : Known(v, q[j])
    <3> TAKE j \in 1 .. k
    <3>1. CASE j = k
        BY <2>2, <2>3, <3>1 DEF Known
    <3>2. CASE j \in 1 .. k - 1
      <4>1. PICK i \in 1 .. m : u[i].what = q[j].what
          BY <2>2, <3>2 DEF Kept, Known
      <4>2. i \in DOMAIN v /\ v[i].what = q[j].what
          BY <2>2, <2>3, <4>1
      <4> QED BY <4>2 DEF Known
    <3> QED BY <1>0, <3>1, <3>2
  <2>7. \A i \in 1 .. m : u[i].what # q[k].what
      BY <1>2, <2>2 DEF Known
  <2>8. ASSUME NEW i \in DOMAIN v, NEW j \in DOMAIN v, v[i].what = v[j].what
        PROVE  i = j
    <3>1. CASE i \in 1 .. m /\ j \in 1 .. m
        BY <2>2, <2>3, <2>8, <3>1 DEF Kept
    <3>2. CASE i = m + 1 /\ j \in 1 .. m
        BY <2>3, <2>7, <2>8, <3>2
    <3>3. CASE i \in 1 .. m /\ j = m + 1
        BY <2>3, <2>7, <2>8, <3>3
    <3> QED BY <2>2, <2>4, <3>1, <3>2, <3>3
  <2>9. ASSUME Rising(q), NEW i \in DOMAIN v, NEW j \in DOMAIN v, i < j
        PROVE  v[i].n < v[j].n
    <3>1. i \in 1 .. m
        BY <2>2, <2>9
    <3>2. CASE j \in 1 .. m
        BY <2>2, <2>3, <2>9, <3>1, <3>2 DEF Kept, Rising
    <3>3. CASE j = m + 1
      <4>1. PICK l \in 1 .. k - 1 : u[i] = q[l]
          BY <2>2, <3>1 DEF Kept
      <4>2. l \in DOMAIN q /\ k \in DOMAIN q /\ l < k
          BY <1>0
      <4>3. q[l].n < q[k].n
          BY <2>9, <4>2 DEF Rising
      <4> QED BY <2>3, <3>1, <3>3, <4>1, <4>3
    <3> QED BY <2>2, <2>4, <3>2, <3>3
  <2>10. Rising(q) => Rising(v)
      BY <2>9 DEF Rising
  <2> QED BY <2>1, <2>5, <2>6, <2>8, <2>10 DEF Kept
<1> QED BY <1>1, <1>2

LEMMA KeptFrames ==
    ASSUME NEW q \in Seq(CanFrame)
    PROVE  Unique(q) \in Seq(CanFrame) /\ Kept(q, Len(q), Unique(q))
<1>1. PICK f \in [0 .. Len(q) -> Seq(CanFrame)] :
              /\ f[0] = <<>>
              /\ \A k \in 1 .. Len(q) : f[k] = Read(f[k - 1], q[k])
              /\ Unique(q) = f[Len(q)]
    BY Reads
<1> DEFINE T == {k \in 0 .. Len(q) : Kept(q, k, f[k])}
<1>2. 0 \in T
  <2>1. Kept(q, 0, <<>>)
      BY DEF Kept, Rising
  <2> QED BY <1>1, <2>1
<1>3. ASSUME NEW k \in 1 .. Len(q), k - 1 \in T
      PROVE  k \in T
  <2>1. k - 1 \in 0 .. Len(q) /\ k \in 0 .. Len(q)
      OBVIOUS
  <2>2. f[k - 1] \in Seq(CanFrame) /\ Kept(q, k - 1, f[k - 1])
      BY <1>1, <1>3, <2>1
  <2>3. Kept(q, k, Read(f[k - 1], q[k]))
      BY <2>2, KeptNext
  <2> QED BY <1>1, <2>1, <2>3
<1> HIDE DEF T
<1>4. Len(q) \in Nat /\ Len(q) \in 0 .. Len(q)
    OBVIOUS
<1>5. Len(q) \in T
    BY <1>2, <1>3, <1>4, UpTo
<1> QED BY <1>1, <1>4, <1>5 DEF T

(* Collect: what the command becomes when the frames u of channel c are    *)
(* added to s.                                                             *)
Added(s, c, u, t) ==
    /\ t \in Seq(PdoFrame) /\ Len(t) <= MAXMSG
    /\ Len(s) <= Len(t) /\ Len(t) <= Len(s) + Len(u)
    /\ \A i \in 1 .. Len(s) : t[i] = s[i]
    /\ \A i \in 1 .. Len(t) : i \notin 1 .. Len(s) =>
          \E k \in 1 .. Len(u) :
             /\ i = Len(s) + k
             /\ t[i] = [ch |-> c, n |-> u[k].n, what |-> u[k].what]
    /\ Len(t) = MAXMSG \/ Len(t) = Len(s) + Len(u)

LEMMA AddedFrames ==
    ASSUME NEW s \in Seq(PdoFrame), Len(s) <= MAXMSG,
           NEW c \in Channels, NEW u \in Seq(CanFrame)
    PROVE  Added(s, c, u, Capped(s \o
               [i \in DOMAIN u |-> [ch |-> c, n |-> u[i].n, what |-> u[i].what]]))
<1> DEFINE x == [i \in DOMAIN u |-> [ch |-> c, n |-> u[i].n, what |-> u[i].what]]
           w == s \o x
           t == Capped(w)
           a == Len(s)
           b == Len(u)
<1>0. MAXMSG \in Nat \ {0} /\ MaxFrames \in Nat
    BY CanBridgeAssumption
<1>1. a \in Nat /\ b \in Nat /\ a <= MAXMSG /\ DOMAIN u = 1 .. b
    OBVIOUS
<1>2. x \in Seq(PdoFrame) /\ Len(x) = b
  <2>1. ASSUME NEW i \in 1 .. b
        PROVE  [ch |-> c, n |-> u[i].n, what |-> u[i].what] \in PdoFrame
    <3>1. u[i] \in CanFrame
        OBVIOUS
    <3>2. u[i].n \in 1 .. MaxFrames /\ u[i].what \in Contents
        BY <3>1 DEF CanFrame
    <3> QED BY <1>0, <3>2 DEF PdoFrame
  <2>2. x \in [1 .. b -> PdoFrame]
      BY <1>1, <2>1
  <2> QED BY <1>1, <2>2
<1>3. \A k \in 1 .. b : x[k] = [ch |-> c, n |-> u[k].n, what |-> u[k].what]
    BY <1>1
<1> HIDE DEF x
<1>4. /\ w \in Seq(PdoFrame) /\ Len(w) = a + b
      /\ \A i \in 1 .. a : w[i] = s[i]
      /\ \A i \in 1 .. a + b : i \notin 1 .. a => w[i] = x[i - a]
  <2>1. w \in Seq(PdoFrame)
      BY <1>2
  <2>2. Len(w) = a + b
      BY <1>2
  <2>3. \A i \in 1 .. a : w[i] = s[i]
      BY <1>2
  <2>4. \A i \in 1 .. a + b : i \notin 1 .. a => w[i] = x[i - a]
      BY <1>1, <1>2
  <2> QED BY <2>1, <2>2, <2>3, <2>4
<1> HIDE DEF w
<1>5. /\ t \in Seq(PdoFrame) /\ Len(t) <= MAXMSG /\ Len(t) <= a + b /\ a <= Len(t)
      /\ \A i \in 1 .. Len(t) : t[i] = w[i]
      /\ Len(t) = MAXMSG \/ Len(t) = a + b
  <2>1. CASE a + b <= MAXMSG
    <3>1. t = w
        BY <1>4, <2>1 DEF Capped
    <3>2. t \in Seq(PdoFrame) /\ Len(t) = a + b /\ \A i \in 1 .. Len(t) : t[i] = w[i]
        BY <1>4, <3>1, Zenon
    <3> HIDE DEF t, a, b
    <3> QED BY <1>1, <2>1, <3>2
  <2>2. CASE ~(a + b <= MAXMSG)
    <3>1. t = SubSeq(w, 1, MAXMSG)
        BY <1>4, <2>2 DEF Capped
    <3>2. t \in Seq(PdoFrame)
      <4>1. \A i \in 1 .. MAXMSG : w[i] \in PdoFrame
          BY <1>0, <1>1, <1>4, <2>2
      <4> QED BY <1>0, <1>1, <1>4, <2>2, <3>1, <4>1
    <3>3. Len(t) = MAXMSG /\ \A i \in 1 .. MAXMSG : t[i] = w[i]
        BY <1>0, <1>1, <1>4, <2>2, <3>1
    <3> QED BY <1>0, <1>1, <2>2, <3>2, <3>3
  <2> QED BY <2>1, <2>2
<1> HIDE DEF t
<1>6. Len(t) \in Nat
    BY <1>5
<1>7. \A i \in 1 .. a : t[i] = s[i]
    BY <1>1, <1>4, <1>5, <1>6
<1>8. ASSUME NEW i \in 1 .. Len(t), i \notin 1 .. a
      PROVE  \E k \in 1 .. b : i = a + k /\ t[i] = x[k]
  <2>1. i \in 1 .. a + b /\ i - a \in 1 .. b /\ i = a + (i - a)
      BY <1>1, <1>5, <1>6, <1>8
  <2>2. t[i] = x[i - a]
      BY <1>4, <1>5, <1>8, <2>1
  <2> QED BY <2>1, <2>2
<1>9. \A i \in 1 .. Len(t) : i \notin 1 .. a =>
         \E k \in 1 .. b :
            /\ i = a + k
            /\ t[i] = [ch |-> c, n |-> u[k].n, what |-> u[k].what]
  <2> TAKE i \in 1 .. Len(t)
  <2> HAVE i \notin 1 .. a
  <2>1. PICK k \in 1 .. b : i = a + k /\ t[i] = x[k]
      BY <1>8
  <2>2. x[k] = [ch |-> c, n |-> u[k].n, what |-> u[k].what]
      BY <1>3
  <2> QED BY <2>1, <2>2, Zenon
<1>10. Added(s, c, u, t)
    BY <1>5, <1>7, <1>9, Zenon DEF Added
<1> QED BY <1>10 DEF t, w, x

(***************************************************************************)
(* The types.                                                              *)
(***************************************************************************)
LEMMA Reopened ==
    ASSUME BridgeTypeOK, NEW c \in Channels, Reopen(c)
    PROVE  /\ iface' \in [Channels -> {"up", "down", "gone"}]
           /\ sock' \in [Channels -> {"closed", "bound", "orphan"}]
           /\ error' \in [Channels -> BOOLEAN]
           /\ canOk' \in [Channels -> BOOLEAN]
           /\ queue' \in [Channels -> Seq(CanFrame)]
           /\ \A d \in Channels : queue'[d] = queue[d] \/ queue'[d] = <<>>
<1>1. /\ iface \in [Channels -> {"up", "down", "gone"}]
      /\ sock \in [Channels -> {"closed", "bound", "orphan"}]
      /\ error \in [Channels -> BOOLEAN]
      /\ canOk \in [Channels -> BOOLEAN]
      /\ queue \in [Channels -> Seq(CanFrame)]
    BY DEF BridgeTypeOK
<1>2. PICK opened \in BOOLEAN :
          /\ sock' = [sock EXCEPT ![c] = IF opened THEN "bound" ELSE "closed"]
          /\ canOk' = [canOk EXCEPT ![c] = opened]
          /\ iface' = [iface EXCEPT ![c] = IF opened THEN "up" ELSE @]
    BY DEF Reopen
<1>3. error' = [error EXCEPT ![c] = FALSE] /\ queue' = [queue EXCEPT ![c] = <<>>]
    BY DEF Reopen
<1>4. iface' \in [Channels -> {"up", "down", "gone"}]
    BY <1>1, <1>2
<1>5. sock' \in [Channels -> {"closed", "bound", "orphan"}]
    BY <1>1, <1>2
<1>6. error' \in [Channels -> BOOLEAN]
    BY <1>1, <1>3
<1>7. canOk' \in [Channels -> BOOLEAN]
    BY <1>1, <1>2, Zenon
<1>8. <<>> \in Seq(CanFrame)
    OBVIOUS
<1>9. queue' \in [Channels -> Seq(CanFrame)]
    BY <1>1, <1>3, <1>8
<1>10. \A d \in Channels : queue'[d] = queue[d] \/ queue'[d] = <<>>
    BY <1>1, <1>3
<1> QED BY <1>4, <1>5, <1>6, <1>7, <1>9, <1>10

LEMMA NewestFrame ==
    ASSUME BridgeTypeOK, NEW c \in Channels,
           NEW x, x = CHOOSE n \in Newest(c) : \A m \in Newest(c) : m <= n
    PROVE  /\ x \in 0 .. MaxFrames
           /\ x = last[c] \/ \E i \in DOMAIN output : output[i].ch = c /\ output[i].n = x
<1> DEFINE S == Newest(c)
           D == {n \in 0 .. MaxFrames : MaxFrames - n \in S}
<1>0. MaxFrames \in Nat
    BY CanBridgeAssumption
<1>1. last[c] \in 0 .. MaxFrames
    BY DEF BridgeTypeOK
<1>2. ASSUME NEW i \in DOMAIN output PROVE output[i].n \in 0 .. MaxFrames
  <2>1. output[i] \in PdoFrame
      BY DEF BridgeTypeOK
  <2> QED BY <2>1 DEF PdoFrame
<1>3. ASSUME NEW n \in S
      PROVE  n = last[c] \/ \E i \in DOMAIN output : output[i].ch = c /\ output[i].n = n
    BY <1>3 DEF Newest, Range
<1>4. last[c] \in S
    BY DEF Newest
<1> HIDE DEF S
<1>5. \A n \in S : n \in 0 .. MaxFrames
    BY <1>1, <1>2, <1>3
<1>6. D \subseteq Nat /\ D # {}
  <2>1. MaxFrames - last[c] \in 0 .. MaxFrames /\ MaxFrames - (MaxFrames - last[c]) = last[c]
      BY <1>0, <1>1
  <2>2. MaxFrames - last[c] \in D
      BY <1>4, <2>1
  <2> QED BY <2>2
<1>7. PICK m \in D : \A n \in D : m <= n
    BY <1>6, Smallest
<1>8. MaxFrames - m \in S /\ m \in Nat
    BY <1>6, <1>7
<1>9. ASSUME NEW n \in S PROVE n <= MaxFrames - m
  <2>1. n \in 0 .. MaxFrames
      BY <1>5
  <2>2. MaxFrames - n \in 0 .. MaxFrames /\ MaxFrames - (MaxFrames - n) = n
      BY <1>0, <2>1
  <2>3. MaxFrames - n \in D
      BY <2>2
  <2>4. m <= MaxFrames - n
      BY <1>7, <2>3
  <2> QED BY <1>0, <1>8, <2>1, <2>4
<1>10. x \in S
    BY <1>8, <1>9 DEF S
<1> QED BY <1>3, <1>5, <1>10

LEMMA BridgeTypes ==
    ASSUME BridgeTypeOK, [BridgeNext]_bridgeVars
    PROVE  BridgeTypeOK'
<1> USE DEF net, rx
<1>0. /\ CHANNELS \in Nat \ {0} /\ MAXMSG \in Nat \ {0}
      /\ MaxFrames \in Nat /\ MaxBatch \in Nat /\ MaxChanges \in Nat
    BY CanBridgeAssumption
<1>1. CASE UpdateRead
    BY <1>1 DEF BridgeTypeOK, UpdateRead
<1>2. ASSUME NEW c \in Channels, SendMessage(c) PROVE BridgeTypeOK'
    BY <1>0, <1>2 DEF BridgeTypeOK, SendMessage
<1>3. ASSUME NEW c \in Channels, SendFails(c) PROVE BridgeTypeOK'
  <2>1. Reopen(c) /\ batch > 0 /\ batch' = batch - 1
      BY <1>3 DEF SendFails
  <2>2. batch' \in 0 .. MaxBatch
      BY <1>0, <2>1 DEF BridgeTypeOK
  <2> QED BY <1>3, <2>1, <2>2, Reopened DEF BridgeTypeOK, SendFails
<1>4. CASE WriteRxPdo
  <2>1. 1 \in Channels
      BY <1>0 DEF Channels
  <2>2. {command', output'} \subseteq Seq(PdoFrame) /\ Len(command') <= MAXMSG
        /\ Len(output') <= MAXMSG
      BY <1>0, <1>4 DEF BridgeTypeOK, WriteRxPdo
  <2> QED BY <1>4, <2>1, <2>2 DEF BridgeTypeOK, WriteRxPdo
<1>5. ASSUME NextChannel, cycle = "collect", BridgeTypeOK
      PROVE  chan' \in Channels /\ cycle' \in {"read", "send", "collect", "ship"}
    BY <1>0, <1>5 DEF NextChannel, Channels, BridgeTypeOK
<1>6. CASE Collect
  <2>1. chan \in Channels /\ queue[chan] \in Seq(CanFrame)
        /\ command \in Seq(PdoFrame) /\ Len(command) <= MAXMSG
      BY DEF BridgeTypeOK
  <2> DEFINE u == Unique(queue[chan])
  <2>2. u \in Seq(CanFrame)
      BY <2>1, KeptFrames
  <2>3. command' = Capped(command \o
           [i \in DOMAIN u |-> [ch |-> chan, n |-> u[i].n, what |-> u[i].what]])
      BY <1>6 DEF Collect
  <2> HIDE DEF u
  <2>4. Added(command, chan, u, command')
      BY <2>1, <2>2, <2>3, AddedFrames
  <2>5. command' \in Seq(PdoFrame) /\ Len(command') <= MAXMSG
      BY <2>4 DEF Added
  <2>6. queue' \in [Channels -> Seq(CanFrame)]
    <3>1. <<>> \in Seq(CanFrame)
        OBVIOUS
    <3> QED BY <1>6, <2>1, <3>1 DEF Collect, BridgeTypeOK
  <2>7. taken' \subseteq Channels \X Contents
    <3>1. taken' = taken \cup {<<chan, f.what>> : f \in Range(queue[chan])}
        BY <1>6 DEF Collect
    <3>2. ASSUME NEW f \in Range(queue[chan]) PROVE f.what \in Contents
      <4>1. f \in CanFrame
          BY <2>1 DEF Range
      <4> QED BY <4>1 DEF CanFrame
    <3>3. {<<chan, f.what>> : f \in Range(queue[chan])} \subseteq Channels \X Contents
        BY <2>1, <3>2
    <3>4. taken \subseteq Channels \X Contents
        BY DEF BridgeTypeOK
    <3> QED BY <3>1, <3>3, <3>4
  <2>8. chan' \in Channels /\ cycle' \in {"read", "send", "collect", "ship"}
      BY <1>5, <1>6 DEF Collect
  <2>9. UNCHANGED <<iface, sock, error, canOk, batch, output, last, arrived, changes>>
      BY <1>6 DEF Collect
  <2> QED BY <2>5, <2>6, <2>7, <2>8, <2>9 DEF BridgeTypeOK
<1>7. CASE CollectFails
  <2>1. Reopen(chan) /\ chan \in Channels
      BY <1>7 DEF CollectFails, BridgeTypeOK
  <2>2. chan' \in Channels /\ cycle' \in {"read", "send", "collect", "ship"}
      BY <1>5, <1>7 DEF CollectFails
  <2> QED BY <1>7, <2>1, <2>2, Reopened DEF BridgeTypeOK, CollectFails
<1>8. CASE Ship
  <2>1. last' \in [Channels -> 0 .. MaxFrames]
    <3> DEFINE x(c) == CHOOSE n \in Newest(c) : \A m \in Newest(c) : m <= n
    <3>1. \A c \in Channels : x(c) \in 0 .. MaxFrames
        BY NewestFrame
    <3>2. last' = [c \in Channels |-> x(c)] \/ last' = last
        BY <1>8 DEF Ship
    <3>3. last \in [Channels -> 0 .. MaxFrames]
        BY DEF BridgeTypeOK
    <3> HIDE DEF x
    <3> QED BY <3>1, <3>2, <3>3
  <2>2. UNCHANGED <<iface, sock, error, canOk, queue, batch, command, output, chan,
                    arrived, changes>> /\ cycle' = "read" /\ taken' = {}
      BY <1>8 DEF Ship
  <2> QED BY <2>1, <2>2 DEF BridgeTypeOK
<1>9. ASSUME NEW c \in Channels, NEW w \in Contents, Arrive(c, w)
      PROVE  BridgeTypeOK'
  <2>1. arrived' \in 0 .. MaxFrames /\ arrived + 1 \in 1 .. MaxFrames
      BY <1>0, <1>9 DEF BridgeTypeOK, Arrive
  <2>2. [n |-> arrived + 1, what |-> w] \in CanFrame
      BY <2>1 DEF CanFrame
  <2>3. queue[c] \in Seq(CanFrame)
      BY DEF BridgeTypeOK
  <2>4. Append(queue[c], [n |-> arrived + 1, what |-> w]) \in Seq(CanFrame)
      BY <2>2, <2>3
  <2>5. queue' \in [Channels -> Seq(CanFrame)]
      BY <1>9, <2>4 DEF BridgeTypeOK, Arrive
  <2>6. UNCHANGED <<iface, sock, error, canOk, batch, command, output, taken, last, chan,
                    cycle, changes>>
      BY <1>9 DEF Arrive
  <2> QED BY <2>1, <2>5, <2>6 DEF BridgeTypeOK
<1>10. ASSUME NEW c \in Channels, NEW state \in {"down", "gone"}, IfaceLost(c, state)
       PROVE  BridgeTypeOK'
  <2>1. changes' \in 0 .. MaxChanges
      BY <1>0, <1>10 DEF BridgeTypeOK, IfaceLost
  <2>2. iface' \in [Channels -> {"up", "down", "gone"}]
      BY <1>10 DEF BridgeTypeOK, IfaceLost
  <2>3. sock' \in [Channels -> {"closed", "bound", "orphan"}]
      BY <1>10 DEF BridgeTypeOK, IfaceLost
  <2>4. error' \in [Channels -> BOOLEAN]
    <3>1. error' = [error EXCEPT ![c] = sock[c] # "closed"]
        BY <1>10 DEF IfaceLost
    <3>2. error \in [Channels -> BOOLEAN]
        BY DEF BridgeTypeOK
    <3> QED BY <3>1, <3>2, Zenon
  <2>5. UNCHANGED <<canOk, queue, batch, command, output, taken, last, chan, cycle, arrived>>
      BY <1>10 DEF IfaceLost
  <2> QED BY <2>1, <2>2, <2>3, <2>4, <2>5 DEF BridgeTypeOK
<1>11. ASSUME NEW c \in Channels, Manage(c) PROVE BridgeTypeOK'
    BY <1>11 DEF BridgeTypeOK, Manage
<1>12. CASE UNCHANGED bridgeVars
    BY <1>12 DEF BridgeTypeOK, bridgeVars
<1> QED BY <1>1, <1>2, <1>3, <1>4, <1>6, <1>7, <1>8, <1>9, <1>10, <1>11, <1>12
        DEF BridgeNext, Bridge

LEMMA BridgeStarts ==
    ASSUME BridgeInit
    PROVE  BridgeTypeOK
<1>0. /\ CHANNELS \in Nat \ {0} /\ MAXMSG \in Nat \ {0}
      /\ MaxFrames \in Nat /\ MaxBatch \in Nat /\ MaxChanges \in Nat
    BY CanBridgeAssumption
<1>1. 1 \in Channels
    BY <1>0 DEF Channels
<1>2. command \in Seq(PdoFrame) /\ Len(command) <= MAXMSG
  <2>1. CASE command = <<>>
      BY <1>0, <2>1
  <2>2. ASSUME NEW f \in [ch : Channels, n : {0}, what : Contents], command = <<f>>
        PROVE  command \in Seq(PdoFrame) /\ Len(command) <= MAXMSG
    <3>1. f \in PdoFrame
        BY <1>0 DEF PdoFrame
    <3> QED BY <1>0, <2>2, <3>1
  <2> QED BY <2>1, <2>2 DEF BridgeInit
<1>3. canOk \in [Channels -> BOOLEAN]
  <2>1. canOk = [c \in Channels |-> iface[c] = "up"]
      BY DEF BridgeInit
  <2> QED BY <2>1, Zenon
<1>4. /\ iface \in [Channels -> {"up", "down", "gone"}]
      /\ sock \in [Channels -> {"closed", "bound", "orphan"}]
      /\ error \in [Channels -> BOOLEAN]
    BY DEF BridgeInit
<1>5. queue \in [Channels -> Seq(CanFrame)]
    BY DEF BridgeInit
<1>6. output \in Seq(PdoFrame) /\ Len(output) <= MAXMSG
    BY <1>0 DEF BridgeInit
<1>7. /\ batch \in 0 .. MaxBatch /\ taken \subseteq Channels \X Contents
      /\ last \in [Channels -> 0 .. MaxFrames]
      /\ cycle \in {"read", "send", "collect", "ship"} /\ chan \in Channels
      /\ arrived \in 0 .. MaxFrames /\ changes \in 0 .. MaxChanges
    BY <1>0, <1>1 DEF BridgeInit
<1> QED BY <1>2, <1>3, <1>4, <1>5, <1>6, <1>7 DEF BridgeTypeOK

(* ExampleSlave and its CanDrivers: the types of their state.              *)
THEOREM BridgeTyped == BridgeSpec => []BridgeTypeOK
<1>1. BridgeInit => BridgeTypeOK
    BY BridgeStarts
<1>2. BridgeTypeOK /\ [BridgeNext]_bridgeVars => BridgeTypeOK'
    BY BridgeTypes
<1> QED BY <1>1, <1>2, PTL DEF BridgeSpec

(***************************************************************************)
(* The order of the frames. What the board has got of a channel, what is   *)
(* in the process data, what is in the command and what waits in the       *)
(* socket follow one another: l is the newest frame the board has got of   *)
(* each channel, q the queues, a how many frames have arrived.             *)
(***************************************************************************)
Sorted(s) ==
    \A i, j \in DOMAIN s :
        i < j /\ s[i].ch = s[j].ch /\ s[j].n # 0 => s[i].n < s[j].n
Before(s, t) ==
    \A i \in DOMAIN s, j \in DOMAIN t : s[i].ch = t[j].ch => s[i].n < t[j].n
Waiting(q, l, a) ==
    \A c \in Channels :
        /\ l[c] <= a /\ Rising(q[c])
        /\ \A i \in DOMAIN q[c] : l[c] < q[c][i].n /\ q[c][i].n <= a
Awaited(s, q, l, a) ==
    \A i \in DOMAIN s :
        /\ s[i].n # 0 => l[s[i].ch] < s[i].n
        /\ s[i].n <= a
        /\ \A j \in DOMAIN q[s[i].ch] : s[i].n < q[s[i].ch][j].n

FlowInv ==
    /\ Waiting(queue, last, arrived)
    /\ Sorted(command) /\ Awaited(command, queue, last, arrived)
    /\ cycle \in {"collect", "ship"} =>
          /\ Sorted(output) /\ Awaited(output, queue, last, arrived)
          /\ Before(output, command)

LEMMA ChannelOf ==
    ASSUME NEW s \in Seq(PdoFrame), NEW i \in DOMAIN s
    PROVE  s[i].ch \in Channels /\ s[i].n \in 0 .. MaxFrames
<1>1. s[i] \in PdoFrame
    OBVIOUS
<1> QED BY <1>1 DEF PdoFrame

(* Sockets that are read or reopened lose what waits in them.              *)
LEMMA QueuesShrink ==
    ASSUME NEW q, NEW r, NEW l, NEW a, Waiting(q, l, a),
           \A d \in Channels : r[d] = q[d] \/ r[d] = <<>>
    PROVE  /\ Waiting(r, l, a)
           /\ \A s \in Seq(PdoFrame) : Awaited(s, q, l, a) => Awaited(s, r, l, a)
<1>1. DOMAIN <<>> = {}
    OBVIOUS
<1>2. Waiting(r, l, a)
  <2> SUFFICES ASSUME NEW c \in Channels
               PROVE  /\ l[c] <= a /\ Rising(r[c])
                      /\ \A i \in DOMAIN r[c] : l[c] < r[c][i].n /\ r[c][i].n <= a
      BY Zenon DEF Waiting
  <2>1. /\ l[c] <= a /\ Rising(q[c])
        /\ \A i \in DOMAIN q[c] : l[c] < q[c][i].n /\ q[c][i].n <= a
      BY DEF Waiting
  <2>2. CASE r[c] = q[c]
      BY <2>1, <2>2
  <2>3. CASE r[c] = <<>>
    <3>1. DOMAIN r[c] = {}
        BY <1>1, <2>3
    <3> QED BY <2>1, <3>1 DEF Rising
  <2> QED BY <2>2, <2>3
<1>3. ASSUME NEW s \in Seq(PdoFrame), Awaited(s, q, l, a)
      PROVE  Awaited(s, r, l, a)
  <2> SUFFICES ASSUME NEW i \in DOMAIN s
               PROVE  /\ s[i].n # 0 => l[s[i].ch] < s[i].n
                      /\ s[i].n <= a
                      /\ \A j \in DOMAIN r[s[i].ch] : s[i].n < r[s[i].ch][j].n
      BY Zenon DEF Awaited
  <2>1. /\ s[i].n # 0 => l[s[i].ch] < s[i].n
        /\ s[i].n <= a
        /\ \A j \in DOMAIN q[s[i].ch] : s[i].n < q[s[i].ch][j].n
      BY <1>3, Zenon DEF Awaited
  <2>2. s[i].ch \in Channels
      BY ChannelOf
  <2>3. CASE r[s[i].ch] = q[s[i].ch]
      BY <2>1, <2>3
  <2>4. CASE r[s[i].ch] = <<>>
      BY <1>1, <2>1, <2>4
  <2> QED BY <2>2, <2>3, <2>4
<1> QED BY <1>2, <1>3

LEMMA FlowArrive ==
    ASSUME BridgeTypeOK, FlowInv,
           NEW c \in Channels, NEW w \in Contents, Arrive(c, w)
    PROVE  FlowInv'
<1> DEFINE f == [n |-> arrived + 1, what |-> w]
<1>1. /\ queue \in [Channels -> Seq(CanFrame)] /\ arrived \in Nat
      /\ last \in [Channels -> 0 .. MaxFrames]
      /\ command \in Seq(PdoFrame) /\ output \in Seq(PdoFrame)
    BY DEF BridgeTypeOK
<1>2. arrived' = arrived + 1 /\ queue' = [queue EXCEPT ![c] = Append(queue[c], f)]
    BY <1>1 DEF Arrive
<1>3. UNCHANGED <<command, output, last, cycle>>
    BY DEF Arrive, rx
<1>4. \A d \in Channels : queue[d] \in Seq(CanFrame)
    BY <1>1
<1>5. ASSUME NEW d \in Channels, NEW i \in DOMAIN queue[d] PROVE queue[d][i].n \in Nat
  <2>1. queue[d][i] \in CanFrame
      BY <1>4
  <2> QED BY <2>1 DEF CanFrame
<1>6. f.n = arrived + 1
    OBVIOUS
<1> HIDE DEF f
<1> DEFINE m == Len(queue[c])
<1>7. m \in Nat /\ DOMAIN queue[c] = 1 .. m
    BY <1>4
<1>8. /\ DOMAIN queue'[c] = 1 .. m + 1 /\ queue'[c][m + 1] = f
      /\ \A i \in 1 .. m : queue'[c][i] = queue[c][i]
  <2>1. queue'[c] = Append(queue[c], f)
      BY <1>1, <1>2
  <2> QED BY <1>4, <2>1
<1>9. \A d \in Channels : d # c => queue'[d] = queue[d]
    BY <1>1, <1>2
<1> HIDE DEF m
<1>10. \A i \in 1 .. m + 1 : i \in 1 .. m \/ i = m + 1
    BY <1>7
<1>11. \A d \in Channels :
          /\ last[d] <= arrived /\ last[d] \in Nat /\ Rising(queue[d])
          /\ \A i \in DOMAIN queue[d] : last[d] < queue[d][i].n /\ queue[d][i].n <= arrived
    BY <1>1 DEF FlowInv, Waiting
<1>12. Waiting(queue', last, arrived')
  <2> SUFFICES ASSUME NEW d \in Channels
               PROVE  /\ last[d] <= arrived' /\ Rising(queue'[d])
                      /\ \A i \in DOMAIN queue'[d] :
                            last[d] < queue'[d][i].n /\ queue'[d][i].n <= arrived'
      BY Zenon DEF Waiting
  <2>1. last[d] <= arrived'
      BY <1>1, <1>2, <1>11
  <2>2. CASE d # c
    <3>1. \A i \in DOMAIN queue[d] : queue[d][i].n <= arrived + 1
        BY <1>1, <1>5, <1>11
    <3> QED BY <1>2, <1>9, <1>11, <2>1, <2>2, <3>1
  <2>3. CASE d = c
    <3>1. ASSUME NEW i \in 1 .. m + 1
          PROVE  last[c] < queue'[c][i].n /\ queue'[c][i].n <= arrived'
      <4>1. CASE i \in 1 .. m
        <5>1. last[c] < queue[c][i].n /\ queue[c][i].n <= arrived /\ queue[c][i].n \in Nat
            BY <1>5, <1>7, <1>11, <4>1
        <5>2. queue[c][i].n <= arrived + 1
            BY <1>1, <5>1
        <5>3. queue'[c][i] = queue[c][i]
            BY <1>8, <4>1
        <5> QED BY <1>2, <5>1, <5>2, <5>3
      <4>2. CASE i = m + 1
          BY <1>1, <1>2, <1>6, <1>8, <1>11, <4>2
      <4> QED BY <1>10, <4>1, <4>2
    <3>2. ASSUME NEW i \in 1 .. m + 1, NEW j \in 1 .. m + 1, i < j
          PROVE  queue'[c][i].n < queue'[c][j].n
      <4>1. i \in 1 .. m
          BY <1>7, <3>2
      <4>2. CASE j \in 1 .. m
          BY <1>7, <1>8, <1>11, <3>2, <4>1, <4>2 DEF Rising
      <4>3. CASE j = m + 1
        <5>1. queue[c][i].n <= arrived /\ queue[c][i].n \in Nat
            BY <1>5, <1>7, <1>11, <4>1
        <5>2. queue[c][i].n < arrived + 1
            BY <1>1, <5>1
        <5>3. queue'[c][i] = queue[c][i] /\ queue'[c][j] = f
            BY <1>8, <4>1, <4>3
        <5> QED BY <1>6, <5>2, <5>3
      <4> QED BY <1>10, <4>2, <4>3
    <3> QED BY <1>8, <2>1, <2>3, <3>1, <3>2 DEF Rising
  <2> QED BY <2>2, <2>3
<1>13. ASSUME NEW s \in Seq(PdoFrame), Awaited(s, queue, last, arrived)
       PROVE  Awaited(s, queue', last, arrived')
  <2> SUFFICES ASSUME NEW i \in DOMAIN s
               PROVE  /\ s[i].n # 0 => last[s[i].ch] < s[i].n
                      /\ s[i].n <= arrived'
                      /\ \A j \in DOMAIN queue'[s[i].ch] : s[i].n < queue'[s[i].ch][j].n
      BY Zenon DEF Awaited
  <2>1. /\ s[i].n # 0 => last[s[i].ch] < s[i].n
        /\ s[i].n <= arrived
        /\ \A j \in DOMAIN queue[s[i].ch] : s[i].n < queue[s[i].ch][j].n
      BY <1>13, Zenon DEF Awaited
  <2>2. s[i].ch \in Channels /\ s[i].n \in Nat
      BY ChannelOf
  <2>3. s[i].n <= arrived' /\ s[i].n < arrived + 1
      BY <1>1, <1>2, <2>1, <2>2
  <2>4. CASE s[i].ch # c
      BY <1>9, <2>1, <2>2, <2>3, <2>4
  <2>5. CASE s[i].ch = c
    <3>1. ASSUME NEW j \in 1 .. m + 1 PROVE s[i].n < queue'[c][j].n
      <4>1. CASE j \in 1 .. m
          BY <1>7, <1>8, <2>1, <2>5, <4>1
      <4>2. CASE j = m + 1
          BY <1>6, <1>8, <2>3, <4>2
      <4> QED BY <1>10, <4>1, <4>2
    <3> QED BY <1>8, <2>1, <2>3, <2>5, <3>1
  <2> QED BY <2>4, <2>5
<1> QED BY <1>1, <1>3, <1>12, <1>13 DEF FlowInv

LEMMA FlowShrink ==
    ASSUME BridgeTypeOK, FlowInv,
           \A d \in Channels : queue'[d] = queue[d] \/ queue'[d] = <<>>,
           UNCHANGED <<command, output, last, arrived>>,
           cycle' \in {"collect", "ship"} => cycle \in {"collect", "ship"}
    PROVE  FlowInv'
<1>1. command \in Seq(PdoFrame) /\ output \in Seq(PdoFrame)
    BY DEF BridgeTypeOK
<1>2. Waiting(queue, last, arrived)
    BY DEF FlowInv
<1>3. /\ Waiting(queue', last, arrived)
      /\ \A s \in Seq(PdoFrame) :
            Awaited(s, queue, last, arrived) => Awaited(s, queue', last, arrived)
    BY <1>2, QueuesShrink
<1> QED BY <1>1, <1>3 DEF FlowInv

LEMMA FlowCollect ==
    ASSUME BridgeTypeOK, FlowInv, Collect
    PROVE  FlowInv'
<1> DEFINE q == queue[chan]
           u == Unique(q)
           a == Len(command)
<1>1. /\ chan \in Channels /\ q \in Seq(CanFrame) /\ arrived \in Nat
      /\ last \in [Channels -> 0 .. MaxFrames] /\ queue \in [Channels -> Seq(CanFrame)]
      /\ command \in Seq(PdoFrame) /\ Len(command) <= MAXMSG
      /\ output \in Seq(PdoFrame)
    BY DEF BridgeTypeOK
<1>2. /\ cycle = "collect"
      /\ command' = Capped(command \o
             [i \in DOMAIN u |-> [ch |-> chan, n |-> u[i].n, what |-> u[i].what]])
      /\ queue' = [queue EXCEPT ![chan] = <<>>]
      /\ UNCHANGED <<output, last, arrived>>
    BY DEF Collect
<1>3. u \in Seq(CanFrame) /\ Kept(q, Len(q), u)
    BY <1>1, KeptFrames
<1> HIDE DEF u
<1>4. Added(command, chan, u, command')
    BY <1>1, <1>2, <1>3, AddedFrames
<1>5. a \in Nat /\ DOMAIN command = 1 .. a /\ DOMAIN u = 1 .. Len(u) /\ Len(u) \in Nat
    BY <1>1, <1>3
<1>6. /\ Waiting(queue, last, arrived)
      /\ Sorted(command) /\ Awaited(command, queue, last, arrived)
      /\ Sorted(output) /\ Awaited(output, queue, last, arrived)
      /\ Before(output, command)
    BY <1>2 DEF FlowInv
<1>7. \A d \in Channels : queue'[d] = queue[d] \/ queue'[d] = <<>>
    BY <1>1, <1>2
<1>8. /\ Waiting(queue', last, arrived)
      /\ \A s \in Seq(PdoFrame) :
            Awaited(s, queue, last, arrived) => Awaited(s, queue', last, arrived)
    BY <1>6, <1>7, QueuesShrink
<1>9. Rising(q) /\ \A i \in DOMAIN q : last[chan] < q[i].n /\ q[i].n <= arrived
    BY <1>1, <1>6 DEF Waiting
<1>10. queue'[chan] = <<>>
    BY <1>1, <1>2
<1>11. Rising(u) /\ \A k \in 1 .. Len(u) : \E j \in DOMAIN q : u[k] = q[j]
  <2>1. \A j \in 1 .. Len(q) : j \in DOMAIN q
      BY <1>1
  <2>2. \A i \in DOMAIN u : \E j \in 1 .. Len(q) : u[i] = q[j]
      BY <1>3, Zenon DEF Kept
  <2>3. Rising(q) => Rising(u)
      BY <1>3, Zenon DEF Kept
  <2> QED BY <1>5, <1>9, <2>1, <2>2, <2>3
<1> HIDE DEF q
<1>12. /\ command' \in Seq(PdoFrame) /\ DOMAIN command' = 1 .. Len(command')
       /\ Len(command') \in Nat
       /\ \A i \in 1 .. a : command'[i] = command[i]
    BY <1>4 DEF Added
(* An added frame stands for one that was in the queue of its channel.     *)
<1>13. ASSUME NEW i \in DOMAIN command', i \notin 1 .. a
       PROVE  \E k \in 1 .. Len(u) : \E j \in DOMAIN q :
                 /\ i = a + k /\ u[k] = q[j]
                 /\ command'[i].ch = chan /\ command'[i].n = q[j].n
  <2>1. PICK k \in 1 .. Len(u) :
            /\ i = a + k
            /\ command'[i] = [ch |-> chan, n |-> u[k].n, what |-> u[k].what]
      BY <1>4, <1>12, <1>13 DEF Added
  <2>2. PICK j \in DOMAIN q : u[k] = q[j]
      BY <1>11
  <2> QED BY <2>1, <2>2
<1>14. Sorted(command')
  <2> SUFFICES ASSUME NEW i \in DOMAIN command', NEW j \in DOMAIN command', i < j,
                      command'[i].ch = command'[j].ch, command'[j].n # 0
               PROVE  command'[i].n < command'[j].n
      BY DEF Sorted
  <2>1. CASE j \in 1 .. a
    <3>1. i \in 1 .. a
        BY <1>5, <1>12, <2>1
    <3>2. command'[i] = command[i] /\ command'[j] = command[j]
        BY <1>12, <2>1, <3>1
    <3> QED BY <1>5, <1>6, <2>1, <3>1, <3>2 DEF Sorted
  <2>2. CASE j \notin 1 .. a
    <3>1. PICK k \in 1 .. Len(u), x \in DOMAIN q :
             /\ j = a + k /\ u[k] = q[x]
             /\ command'[j].ch = chan /\ command'[j].n = q[x].n
        BY <1>13, <2>2
    <3>2. CASE i \in 1 .. a
      <4>1. command'[i] = command[i]
          BY <1>12, <3>2
      <4>2. command[i].ch = chan
          BY <3>1, <4>1
      <4>3. command[i].n < q[x].n
          BY <1>5, <1>6, <3>1, <3>2, <4>2 DEF Awaited, q
      <4> QED BY <3>1, <4>1, <4>3
    <3>3. CASE i \notin 1 .. a
      <4>1. PICK l \in 1 .. Len(u), y \in DOMAIN q :
               /\ i = a + l /\ u[l] = q[y]
               /\ command'[i].ch = chan /\ command'[i].n = q[y].n
          BY <1>13, <3>3
      <4>2. l < k
          BY <1>5, <3>1, <4>1
      <4>3. u[l].n < u[k].n
          BY <1>5, <1>11, <4>2 DEF Rising
      <4> QED BY <3>1, <4>1, <4>3
    <3> QED BY <3>2, <3>3
  <2> QED BY <2>1, <2>2
<1>15. Awaited(command', queue', last, arrived)
  <2> SUFFICES ASSUME NEW i \in DOMAIN command'
               PROVE  /\ command'[i].n # 0 => last[command'[i].ch] < command'[i].n
                      /\ command'[i].n <= arrived
                      /\ \A j \in DOMAIN queue'[command'[i].ch] :
                            command'[i].n < queue'[command'[i].ch][j].n
      BY Zenon DEF Awaited
  <2>1. CASE i \in 1 .. a
    <3>1. command'[i] = command[i]
        BY <1>12, <2>1
    <3>2. Awaited(command, queue', last, arrived)
        BY <1>1, <1>6, <1>8
    <3> QED BY <1>5, <2>1, <3>1, <3>2, Zenon DEF Awaited
  <2>2. CASE i \notin 1 .. a
    <3>1. PICK k \in 1 .. Len(u), x \in DOMAIN q :
             /\ i = a + k /\ u[k] = q[x]
             /\ command'[i].ch = chan /\ command'[i].n = q[x].n
        BY <1>13, <2>2
    <3>2. last[chan] < q[x].n /\ q[x].n <= arrived
        BY <1>9
    <3>3. DOMAIN queue'[chan] = {}
        BY <1>10
    <3> QED BY <3>1, <3>2, <3>3
  <2> QED BY <2>1, <2>2
<1>16. Before(output, command')
  <2> SUFFICES ASSUME NEW o \in DOMAIN output, NEW i \in DOMAIN command',
                      output[o].ch = command'[i].ch
               PROVE  output[o].n < command'[i].n
      BY DEF Before
  <2>1. CASE i \in 1 .. a
    <3>1. command'[i] = command[i]
        BY <1>12, <2>1
    <3> QED BY <1>5, <1>6, <2>1, <3>1 DEF Before
  <2>2. CASE i \notin 1 .. a
    <3>1. PICK k \in 1 .. Len(u), x \in DOMAIN q :
             /\ i = a + k /\ u[k] = q[x]
             /\ command'[i].ch = chan /\ command'[i].n = q[x].n
        BY <1>13, <2>2
    <3>2. output[o].ch = chan
        BY <3>1
    <3>3. output[o].n < q[x].n
        BY <1>6, <3>1, <3>2 DEF Awaited, q
    <3> QED BY <3>1, <3>3
  <2> QED BY <2>1, <2>2
<1>17. Sorted(output) /\ Awaited(output, queue', last, arrived)
    BY <1>1, <1>6, <1>8
<1> QED BY <1>2, <1>8, <1>14, <1>15, <1>16, <1>17 DEF FlowInv

LEMMA FlowShip ==
    ASSUME BridgeTypeOK, FlowInv, Ship
    PROVE  FlowInv'
<1>1. /\ last \in [Channels -> 0 .. MaxFrames] /\ last' \in [Channels -> 0 .. MaxFrames]
      /\ queue \in [Channels -> Seq(CanFrame)]
      /\ command \in Seq(PdoFrame) /\ output \in Seq(PdoFrame)
      /\ BridgeTypeOK'
  <2>1. [BridgeNext]_bridgeVars
      BY DEF BridgeNext, Bridge
  <2>2. BridgeTypeOK'
      BY <2>1, BridgeTypes
  <2> QED BY <2>2 DEF BridgeTypeOK
<1>2. cycle = "ship" /\ cycle' = "read" /\ UNCHANGED <<queue, command, output, arrived>>
    BY DEF Ship, net
<1>3. /\ Waiting(queue, last, arrived)
      /\ Sorted(command) /\ Awaited(command, queue, last, arrived)
      /\ Awaited(output, queue, last, arrived) /\ Before(output, command)
    BY <1>2 DEF FlowInv
<1>4. ASSUME NEW c \in Channels
      PROVE  last'[c] = last[c]
             \/ \E i \in DOMAIN output : output[i].ch = c /\ output[i].n = last'[c]
  <2> DEFINE x(d) == CHOOSE n \in Newest(d) : \A m \in Newest(d) : m <= n
  <2>1. last' = [d \in Channels |-> x(d)] \/ last' = last
      BY DEF Ship
  <2>2. x(c) = last[c] \/ \E i \in DOMAIN output : output[i].ch = c /\ output[i].n = x(c)
      BY NewestFrame
  <2> HIDE DEF x
  <2>3. CASE last' = last
      BY <2>3
  <2>4. CASE last' = [d \in Channels |-> x(d)]
    <3>1. last'[c] = x(c)
        BY <2>4
    <3> QED BY <2>2, <3>1
  <2> QED BY <2>1, <2>3, <2>4
<1>5. Waiting(queue, last', arrived)
  <2> SUFFICES ASSUME NEW c \in Channels
               PROVE  /\ last'[c] <= arrived /\ Rising(queue[c])
                      /\ \A i \in DOMAIN queue[c] :
                            last'[c] < queue[c][i].n /\ queue[c][i].n <= arrived
      BY Zenon DEF Waiting
  <2>1. /\ last[c] <= arrived /\ Rising(queue[c])
        /\ \A i \in DOMAIN queue[c] : last[c] < queue[c][i].n /\ queue[c][i].n <= arrived
      BY <1>3 DEF Waiting
  <2>2. CASE last'[c] = last[c]
      BY <2>1, <2>2
  <2>3. ASSUME NEW i \in DOMAIN output, output[i].ch = c, output[i].n = last'[c]
        PROVE  /\ last'[c] <= arrived
               /\ \A j \in DOMAIN queue[c] : last'[c] < queue[c][j].n
      BY <1>3, <2>3 DEF Awaited
  <2> QED BY <1>4, <2>1, <2>2, <2>3
<1>6. Awaited(command, queue, last', arrived)
  <2> SUFFICES ASSUME NEW i \in DOMAIN command
               PROVE  /\ command[i].n # 0 => last'[command[i].ch] < command[i].n
                      /\ command[i].n <= arrived
                      /\ \A j \in DOMAIN queue[command[i].ch] :
                            command[i].n < queue[command[i].ch][j].n
      BY Zenon DEF Awaited
  <2>1. /\ command[i].n # 0 => last[command[i].ch] < command[i].n
        /\ command[i].n <= arrived
        /\ \A j \in DOMAIN queue[command[i].ch] : command[i].n < queue[command[i].ch][j].n
      BY <1>3, Zenon DEF Awaited
  <2>2. command[i].ch \in Channels
      BY <1>1, ChannelOf
  <2>3. ASSUME NEW o \in DOMAIN output, output[o].ch = command[i].ch,
               output[o].n = last'[command[i].ch]
        PROVE  last'[command[i].ch] < command[i].n
      BY <1>3, <2>3 DEF Before
  <2>4. command[i].n # 0 => last'[command[i].ch] < command[i].n
      BY <1>4, <2>1, <2>2, <2>3
  <2> QED BY <2>1, <2>4
<1> QED BY <1>2, <1>3, <1>5, <1>6 DEF FlowInv

LEMMA FlowInvariant ==
    ASSUME BridgeTypeOK, FlowInv, [BridgeNext]_bridgeVars
    PROVE  FlowInv'
<1>0. ASSUME UNCHANGED <<queue, command, output, last, arrived>>,
             cycle' \in {"collect", "ship"} => cycle \in {"collect", "ship"}
      PROVE  FlowInv'
    BY <1>0, FlowShrink
<1>1. CASE UpdateRead
    BY <1>0, <1>1 DEF UpdateRead, net, rx
<1>2. ASSUME NEW c \in Channels, SendMessage(c) PROVE FlowInv'
    BY <1>0, <1>2 DEF SendMessage, net, rx
<1>3. ASSUME NEW c \in Channels, SendFails(c) PROVE FlowInv'
  <2>1. \A d \in Channels : queue'[d] = queue[d] \/ queue'[d] = <<>>
      BY <1>3, Reopened DEF SendFails
  <2> QED BY <1>3, <2>1, FlowShrink DEF SendFails, rx
<1>4. CASE WriteRxPdo
  <2>1. /\ UNCHANGED <<queue, last, arrived>> /\ output' = command /\ command' = <<>>
      BY <1>4 DEF WriteRxPdo, net
  <2>2. Sorted(<<>>) /\ Awaited(<<>>, queue, last, arrived) /\ Before(command, <<>>)
      BY DEF Sorted, Awaited, Before
  <2> QED BY <2>1, <2>2 DEF FlowInv
<1>5. CASE Collect
    BY <1>5, FlowCollect
<1>6. CASE CollectFails
  <2>1. chan \in Channels /\ Reopen(chan) /\ cycle = "collect"
      BY <1>6 DEF CollectFails, BridgeTypeOK
  <2>2. \A d \in Channels : queue'[d] = queue[d] \/ queue'[d] = <<>>
      BY <2>1, Reopened
  <2> QED BY <1>6, <2>1, <2>2, FlowShrink DEF CollectFails
<1>7. CASE Ship
    BY <1>7, FlowShip
<1>8. ASSUME NEW c \in Channels, NEW w \in Contents, Arrive(c, w) PROVE FlowInv'
    BY <1>8, FlowArrive
<1>9. ASSUME NEW c \in Channels, NEW state \in {"down", "gone"}, IfaceLost(c, state)
      PROVE  FlowInv'
    BY <1>0, <1>9 DEF IfaceLost, rx
<1>10. ASSUME NEW c \in Channels, Manage(c) PROVE FlowInv'
    BY <1>0, <1>10 DEF Manage, rx
<1>11. CASE UNCHANGED bridgeVars
    BY <1>0, <1>11 DEF bridgeVars, net, rx
<1> QED BY <1>1, <1>2, <1>3, <1>4, <1>5, <1>6, <1>7, <1>8, <1>9, <1>10, <1>11
        DEF BridgeNext, Bridge

LEMMA FlowAtStart ==
    ASSUME BridgeInit
    PROVE  FlowInv
<1>1. /\ queue = [c \in Channels |-> <<>>] /\ last = [c \in Channels |-> 0]
      /\ arrived = 0 /\ cycle = "read"
    BY DEF BridgeInit
<1>2. command \in Seq(PdoFrame) /\ \A i \in DOMAIN command : i = 1 /\ command[i].n = 0
  <2>1. CASE command = <<>>
      BY <2>1
  <2>2. ASSUME NEW f \in [ch : Channels, n : {0}, what : Contents], command = <<f>>
        PROVE  \A i \in DOMAIN command : i = 1 /\ command[i].n = 0
      BY <2>2
  <2>3. command \in Seq(PdoFrame)
      BY BridgeStarts DEF BridgeTypeOK
  <2> QED BY <2>1, <2>2, <2>3 DEF BridgeInit
<1>3. Waiting(queue, last, arrived)
    BY <1>1 DEF Waiting, Rising
<1>4. Sorted(command)
    BY <1>2 DEF Sorted
<1>5. Awaited(command, queue, last, arrived)
  <2>1. ASSUME NEW i \in DOMAIN command
        PROVE  command[i].n = 0 /\ DOMAIN queue[command[i].ch] = {}
    <3>1. command[i].ch \in Channels
        BY <1>2, ChannelOf
    <3> QED BY <1>1, <1>2, <3>1, SMTT(30)
  <2>2. \A i \in DOMAIN command :
          command[i].n <= arrived /\ \A j \in DOMAIN queue[command[i].ch] : FALSE
      BY <1>1, <2>1
  <2> QED BY <2>1, <2>2 DEF Awaited
<1> QED BY <1>1, <1>3, <1>4, <1>5 DEF FlowInv

LEMMA FlowOnce ==
    ASSUME BridgeTypeOK, FlowInv
    PROVE  OnceInOrder
<1> SUFFICES ASSUME cycle = "ship", NEW i \in DOMAIN output, output[i].n # 0
             PROVE  /\ output[i].n > last[output[i].ch]
                    /\ \A j \in 1 .. i - 1 :
                          output[j].ch = output[i].ch => output[j].n < output[i].n
    BY DEF OnceInOrder
<1>1. Sorted(output) /\ Awaited(output, queue, last, arrived)
    BY DEF FlowInv
<1>2. output \in Seq(PdoFrame)
    BY DEF BridgeTypeOK
<1>3. last[output[i].ch] < output[i].n
    BY <1>1 DEF Awaited
<1>4. \A j \in 1 .. i - 1 : j \in DOMAIN output /\ j < i
    BY <1>2
<1>5. \A j \in 1 .. i - 1 : output[j].ch = output[i].ch => output[j].n < output[i].n
    BY <1>1, <1>4 DEF Sorted
<1>6. last[output[i].ch] \in Nat /\ output[i].n \in Nat
  <2>1. output[i].ch \in Channels /\ output[i].n \in 0 .. MaxFrames
      BY <1>2, ChannelOf
  <2> QED BY <2>1 DEF BridgeTypeOK
<1> QED BY <1>3, <1>5, <1>6

(* ExampleSlave.cpp:109, 112: whatever fails, is lost or is reopened in    *)
(* between, the board gets each received frame at most once, and the       *)
(* frames of a channel in the order they were received.                    *)
THEOREM OncePerFrame == BridgeSpec => []OnceInOrder
<1>1. BridgeInit => BridgeTypeOK /\ FlowInv
    BY BridgeStarts, FlowAtStart
<1>2. BridgeTypeOK /\ FlowInv /\ [BridgeNext]_bridgeVars => (BridgeTypeOK /\ FlowInv)'
    BY BridgeTypes, FlowInvariant
<1>3. BridgeTypeOK /\ FlowInv => OnceInOrder
    BY FlowOnce
<1> QED BY <1>1, <1>2, <1>3, PTL DEF BridgeSpec

(***************************************************************************)
(* What the command has of the frames read in this cycle.                  *)
(***************************************************************************)
Held(s, t) == \A i \in DOMAIN s : <<s[i].ch, s[i].what>> \in t
Whole(s, t) ==
    Len(s) = MAXMSG \/ \A p \in t : \E i \in DOMAIN s : p = <<s[i].ch, s[i].what>>
Distinct(s) ==
    \A i, j \in DOMAIN s : s[i].ch = s[j].ch /\ s[i].what = s[j].what => i = j

TakenInv ==
    /\ cycle \in {"read", "send"} => taken = {}
    /\ cycle \in {"collect", "ship"} =>
          Held(command, taken) /\ Whole(command, taken) /\ Distinct(command)
    /\ cycle = "collect" => \A i \in DOMAIN command : command[i].ch < chan

(* The frames of a channel are added after those of the channels before    *)
(* it: none of them can be in the command already.                         *)
LEMMA TakenCollect ==
    ASSUME BridgeTypeOK, TakenInv, Collect
    PROVE  TakenInv'
<1> DEFINE q == queue[chan]
           u == Unique(q)
           a == Len(command)
<1>1. /\ chan \in Channels /\ q \in Seq(CanFrame)
      /\ command \in Seq(PdoFrame) /\ Len(command) <= MAXMSG
    BY DEF BridgeTypeOK
<1>2. /\ cycle = "collect"
      /\ command' = Capped(command \o
             [i \in DOMAIN u |-> [ch |-> chan, n |-> u[i].n, what |-> u[i].what]])
      /\ taken' = taken \cup {<<chan, f.what>> : f \in Range(q)}
    BY DEF Collect
<1>3. u \in Seq(CanFrame) /\ Kept(q, Len(q), u)
    BY <1>1, KeptFrames
<1> HIDE DEF u
<1>4. Added(command, chan, u, command')
    BY <1>1, <1>2, <1>3, AddedFrames
<1>5. /\ a \in Nat /\ DOMAIN command = 1 .. a /\ DOMAIN u = 1 .. Len(u) /\ Len(u) \in Nat
      /\ DOMAIN q = 1 .. Len(q)
    BY <1>1, <1>3
<1>6. /\ Held(command, taken) /\ Whole(command, taken) /\ Distinct(command)
      /\ \A i \in DOMAIN command : command[i].ch < chan
    BY <1>2 DEF TakenInv
<1>7. \A x \in DOMAIN q : <<chan, q[x].what>> \in taken'
  <2>1. \A x \in DOMAIN q : q[x] \in Range(q)
      BY DEF Range
  <2> HIDE DEF q
  <2> QED BY <1>2, <2>1
<1>8. ASSUME NEW p \in taken'
      PROVE  p \in taken \/ \E x \in DOMAIN q : p = <<chan, q[x].what>>
    BY <1>2, <1>8 DEF Range
<1> HIDE DEF q
<1>9. /\ \A i \in DOMAIN u : \E j \in DOMAIN q : u[i] = q[j]
      /\ \A j \in DOMAIN q : \E i \in DOMAIN u : u[i].what = q[j].what
      /\ \A i, j \in DOMAIN u : u[i].what = u[j].what => i = j
    BY <1>3, <1>5, Zenon DEF Kept, Known
<1>10. /\ command' \in Seq(PdoFrame) /\ DOMAIN command' = 1 .. Len(command')
       /\ Len(command') \in Nat /\ a <= Len(command') /\ Len(command') <= MAXMSG
       /\ \A i \in 1 .. a : command'[i] = command[i]
       /\ Len(command') = MAXMSG \/ Len(command') = a + Len(u)
    BY <1>4 DEF Added
<1>11. ASSUME NEW i \in DOMAIN command', i \notin 1 .. a
       PROVE  \E k \in DOMAIN u :
                 i = a + k /\ command'[i].ch = chan /\ command'[i].what = u[k].what
  <2>1. PICK k \in 1 .. Len(u) :
            /\ i = a + k
            /\ command'[i] = [ch |-> chan, n |-> u[k].n, what |-> u[k].what]
      BY <1>4, <1>10, <1>11 DEF Added
  <2> QED BY <1>5, <2>1
<1>12. \A i \in 1 .. a : i \in DOMAIN command' /\ command'[i].ch < chan
  <2> TAKE i \in 1 .. a
  <2>1. command'[i] = command[i] /\ i \in DOMAIN command
      BY <1>5, <1>10
  <2>2. a \in Nat /\ Len(command') \in Nat /\ a <= Len(command')
      BY <1>5, <1>10
  <2>3. i \in DOMAIN command'
    <3> HIDE DEF a
    <3>1. i \in 1 .. Len(command')
        BY <2>2
    <3> QED BY <1>10, <3>1
  <2> QED BY <1>6, <2>1, <2>3
<1>13. \A i \in DOMAIN command' : command'[i].ch \in Nat
  <2>1. \A i \in DOMAIN command' : command'[i].ch \in Channels
      BY <1>10, ChannelOf
  <2> QED BY <2>1 DEF Channels
<1>14. Held(command', taken')
  <2> SUFFICES ASSUME NEW i \in DOMAIN command'
               PROVE  <<command'[i].ch, command'[i].what>> \in taken'
      BY DEF Held
  <2>1. CASE i \in 1 .. a
    <3>1. command'[i] = command[i] /\ i \in DOMAIN command
        BY <1>5, <1>10, <2>1
    <3>2. <<command[i].ch, command[i].what>> \in taken
        BY <1>6, <3>1 DEF Held
    <3> QED BY <1>2, <3>1, <3>2
  <2>2. CASE i \notin 1 .. a
    <3>1. PICK k \in DOMAIN u :
             i = a + k /\ command'[i].ch = chan /\ command'[i].what = u[k].what
        BY <1>11, <2>2
    <3>2. PICK x \in DOMAIN q : u[k] = q[x]
        BY <1>9
    <3> QED BY <1>7, <3>1, <3>2
  <2> QED BY <2>1, <2>2
<1>15. Whole(command', taken')
  <2>1. CASE Len(command') = MAXMSG
      BY <2>1 DEF Whole
  <2>2. CASE Len(command') # MAXMSG
    <3>1. Len(command') = a + Len(u)
        BY <1>10, <2>2
    <3>2. a # MAXMSG
      <4>1. MAXMSG \in Nat
          BY CanBridgeAssumption
      <4>2. Len(command') \in Nat /\ a <= Len(command') /\ Len(command') <= MAXMSG
          BY <1>10
      <4> HIDE DEF a
      <4> QED BY <1>5, <2>2, <4>1, <4>2
    <3>3. ASSUME NEW p \in taken'
          PROVE  \E i \in DOMAIN command' : p = <<command'[i].ch, command'[i].what>>
      <4>1. CASE p \in taken
        <5>1. PICK i \in DOMAIN command : p = <<command[i].ch, command[i].what>>
            BY <1>6, <3>2, <4>1 DEF Whole
        <5>2. i \in DOMAIN command' /\ command'[i] = command[i]
            BY <1>5, <1>10, <1>12
        <5> QED BY <5>1, <5>2
      <4>2. ASSUME NEW x \in DOMAIN q, p = <<chan, q[x].what>>
            PROVE  \E i \in DOMAIN command' : p = <<command'[i].ch, command'[i].what>>
        <5>1. PICK k \in DOMAIN u : u[k].what = q[x].what
            BY <1>9
        <5>2. a + k \in DOMAIN command' /\ a + k \notin 1 .. a
            BY <1>5, <1>10, <3>1
        <5>3. PICK l \in DOMAIN u :
                 /\ a + k = a + l
                 /\ command'[a + k].ch = chan /\ command'[a + k].what = u[l].what
            BY <1>11, <5>2
        <5>4. l = k
            BY <1>5, <5>3
        <5> QED BY <4>2, <5>1, <5>2, <5>3, <5>4
      <4> QED BY <1>8, <4>1, <4>2
    <3> QED BY <3>3, Zenon DEF Whole
  <2> QED BY <2>1, <2>2
<1>16. Distinct(command')
  <2>0. chan \in Nat
      BY <1>1 DEF Channels
  <2> SUFFICES ASSUME NEW i \in DOMAIN command', NEW j \in DOMAIN command',
                      command'[i].ch = command'[j].ch, command'[i].what = command'[j].what
               PROVE  i = j
      BY DEF Distinct
  <2>1. CASE i \in 1 .. a /\ j \in 1 .. a
      BY <1>5, <1>6, <1>10, <2>1 DEF Distinct
  <2>2. CASE i \notin 1 .. a /\ j \notin 1 .. a
    <3>1. PICK k \in DOMAIN u :
             i = a + k /\ command'[i].ch = chan /\ command'[i].what = u[k].what
        BY <1>11, <2>2
    <3>2. PICK l \in DOMAIN u :
             j = a + l /\ command'[j].ch = chan /\ command'[j].what = u[l].what
        BY <1>11, <2>2
    <3>3. k = l
        BY <1>9, <3>1, <3>2
    <3> QED BY <3>1, <3>2, <3>3
  <2>3. \A x, y \in DOMAIN command' : x \in 1 .. a /\ y \notin 1 .. a =>
           command'[x].ch # command'[y].ch
    <3> SUFFICES ASSUME NEW x \in DOMAIN command', NEW y \in DOMAIN command',
                        x \in 1 .. a, y \notin 1 .. a
                 PROVE  command'[x].ch # command'[y].ch
        OBVIOUS
    <3>1. command'[y].ch = chan
        BY <1>11
    <3>2. command'[x].ch < chan
        BY <1>12
    <3>3. command'[x].ch \in Nat
        BY <1>13
    <3> QED BY <2>0, <3>1, <3>2, <3>3
  <2> QED BY <2>1, <2>2, <2>3
<1>17. cycle' \in {"collect", "ship"}
       /\ (cycle' = "collect" => chan' = chan + 1)
    BY <1>2 DEF Collect, NextChannel
<1>18. cycle' = "collect" => \A i \in DOMAIN command' : command'[i].ch < chan'
  <2> SUFFICES ASSUME cycle' = "collect", NEW i \in DOMAIN command'
               PROVE  command'[i].ch < chan'
      OBVIOUS
  <2>0. chan \in Nat /\ chan' = chan + 1 /\ command'[i].ch \in Nat
      BY <1>1, <1>17, <1>13 DEF Channels
  <2>1. CASE i \in 1 .. a
      BY <1>12, <2>0, <2>1
  <2>2. CASE i \notin 1 .. a
      BY <1>11, <2>0, <2>2
  <2> QED BY <2>1, <2>2
<1> QED BY <1>14, <1>15, <1>16, <1>17, <1>18 DEF TakenInv

LEMMA TakenInvariant ==
    ASSUME BridgeTypeOK, TakenInv, [BridgeNext]_bridgeVars
    PROVE  TakenInv'
<1>0. ASSUME UNCHANGED <<command, taken, chan, cycle>>
      PROVE  TakenInv'
    BY <1>0 DEF TakenInv
<1>1. CASE UpdateRead
    BY <1>1 DEF TakenInv, UpdateRead, rx
<1>2. ASSUME NEW c \in Channels, SendMessage(c) PROVE TakenInv'
    BY <1>0, <1>2 DEF SendMessage, rx
<1>3. ASSUME NEW c \in Channels, SendFails(c) PROVE TakenInv'
    BY <1>0, <1>3 DEF SendFails, rx
<1>4. CASE WriteRxPdo
  <2>1. command' = <<>> /\ taken' = taken /\ taken = {} /\ cycle' = "collect"
      BY <1>4 DEF WriteRxPdo, TakenInv
  <2>2. DOMAIN command' = {}
      BY <2>1
  <2> QED BY <2>1, <2>2 DEF TakenInv, Held, Whole, Distinct
<1>5. CASE Collect
    BY <1>5, TakenCollect
<1>6. CASE CollectFails
  <2>1. UNCHANGED <<command, taken>> /\ cycle = "collect" /\ chan \in Nat
      BY <1>6 DEF CollectFails, BridgeTypeOK, Channels
  <2>2. cycle' \in {"collect", "ship"} /\ (cycle' = "collect" => chan' = chan + 1)
      BY <1>6, <2>1 DEF CollectFails, NextChannel
  <2>3. \A i \in DOMAIN command : command[i].ch < chan /\ command[i].ch \in Nat
    <3>1. command \in Seq(PdoFrame)
        BY DEF BridgeTypeOK
    <3>2. \A i \in DOMAIN command : command[i].ch \in Channels
        BY <3>1, ChannelOf
    <3>3. \A i \in DOMAIN command : command[i].ch < chan
        BY <2>1 DEF TakenInv
    <3> QED BY <3>2, <3>3 DEF Channels
  <2>4. \A i \in DOMAIN command : command[i].ch < chan + 1
      BY <2>1, <2>3
  <2> QED BY <2>1, <2>2, <2>4 DEF TakenInv
<1>7. CASE Ship
    BY <1>7 DEF TakenInv, Ship
<1>8. ASSUME NEW c \in Channels, NEW w \in Contents, Arrive(c, w) PROVE TakenInv'
    BY <1>0, <1>8 DEF Arrive, rx
<1>9. ASSUME NEW c \in Channels, NEW state \in {"down", "gone"}, IfaceLost(c, state)
      PROVE  TakenInv'
    BY <1>0, <1>9 DEF IfaceLost, rx
<1>10. ASSUME NEW c \in Channels, Manage(c) PROVE TakenInv'
    BY <1>0, <1>10 DEF Manage, rx
<1>11. CASE UNCHANGED bridgeVars
    BY <1>0, <1>11 DEF bridgeVars, rx
<1> QED BY <1>1, <1>2, <1>3, <1>4, <1>5, <1>6, <1>7, <1>8, <1>9, <1>10, <1>11
        DEF BridgeNext, Bridge

LEMMA TakenComplete ==
    ASSUME BridgeTypeOK, TakenInv
    PROVE  CommandIsComplete
<1> DEFINE P == {<<f.ch, f.what>> : f \in Range(command)}
<1> SUFFICES ASSUME cycle = "ship"
             PROVE  /\ P \subseteq taken
                    /\ P = taken \/ Len(command) = MAXMSG
                    /\ \A i, j \in DOMAIN command :
                          command[i].ch = command[j].ch /\ command[i].what = command[j].what
                          => i = j
    BY DEF CommandIsComplete
<1>1. Held(command, taken) /\ Whole(command, taken) /\ Distinct(command)
    BY DEF TakenInv
<1>2. P \subseteq taken
    BY <1>1 DEF Held, Range
<1>3. Len(command) # MAXMSG => taken \subseteq P
    BY <1>1 DEF Whole, Range
<1> HIDE DEF P
<1> QED BY <1>1, <1>2, <1>3 DEF Distinct

(* ExampleSlave.cpp:116-141: when the cycle ends, the command has the      *)
(* frames read from the sockets in it, each once and with its channel -    *)
(* all of them, unless the command is full.                                *)
THEOREM CommandComplete == BridgeSpec => []CommandIsComplete
<1>1. BridgeInit => BridgeTypeOK /\ TakenInv
    BY BridgeStarts DEF BridgeInit, TakenInv
<1>2. BridgeTypeOK /\ TakenInv /\ [BridgeNext]_bridgeVars => (BridgeTypeOK /\ TakenInv)'
    BY BridgeTypes, TakenInvariant
<1>3. BridgeTypeOK /\ TakenInv => CommandIsComplete
    BY TakenComplete
<1> QED BY <1>1, <1>2, <1>3, PTL DEF BridgeSpec
=============================================================================
