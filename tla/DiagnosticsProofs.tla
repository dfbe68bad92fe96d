------------------------- MODULE DiagnosticsProofs -------------------------
(***************************************************************************)
(* What is proved of the error ring for every EC_MAXELIST, and of the SDO  *)
(* error reporting and the MessageLog for any number of errors.            *)
(***************************************************************************)
EXTENDS Diagnostics, SequenceTheorems, TLAPS

(***************************************************************************)
(* The ring by itself.                                                     *)
(***************************************************************************)
RingInv ==
    /\ RingTypeOK
    /\ \A k \in 1 .. Count : Error[At(k)] \in Entry
    /\ FlagIsUp

LEMMA CountRange ==
    ASSUME RingTypeOK
    PROVE  /\ Count \in 0 .. MAXELIST
           /\ Count = 0 <=> ~IsError
           /\ \A k \in 1 .. MAXELIST + 1 : At(k) \in Slots
           /\ At(Count + 1) = head
           /\ \A j, k \in 1 .. MAXELIST + 1 : At(j) = At(k) => j = k
BY RingAssumption DEF RingTypeOK, Count, IsError, At, Slots

LEMMA PendingIsSeq ==
    ASSUME RingInv
    PROVE  Pending \in Seq(Entry) /\ Len(Pending) = Count
<1>1. Count \in Nat
    BY CountRange, RingAssumption DEF RingInv
<1>2. \A k \in 1 .. Count : Error[At(k)] \in Entry
    BY DEF RingInv
<1> QED BY <1>1, <1>2 DEF Pending

(* A push to a ring that is not full appends.                              *)
LEMMA PushAppends ==
    ASSUME RingInv, NEW e \in Entry, Push(e), Count # MAXELIST
    PROVE  RingInv' /\ Pending' = Append(Pending, e) /\ Count' = Count + 1
<1>0. PICK n \in 0 .. MAXELIST - 1 : n = Count
    BY CountRange, RingAssumption DEF RingInv
<1>1. /\ tail' = tail /\ Error' = [Error EXCEPT ![head] = e]
      /\ head' = After(head) /\ Count' = n + 1 /\ ecaterror' = TRUE
    BY <1>0, CountRange, RingAssumption
    DEF RingInv, RingTypeOK, Push, After, Count, Slots
<1>2. RingTypeOK'
    BY <1>1, RingAssumption DEF RingInv, RingTypeOK, After, Slots
<1>3. ASSUME NEW k \in 1 .. n PROVE Error'[At(k)'] = Error[At(k)]
  <2>1. At(k)' = At(k)
      BY <1>1 DEF At
  <2>2. k \in 1 .. MAXELIST + 1 /\ n + 1 \in 1 .. MAXELIST + 1 /\ k # n + 1
      BY RingAssumption
  <2>3. At(n + 1) = head
      BY <1>0, CountRange DEF RingInv
  <2>4. At(k) # head /\ At(k) \in Slots
      BY <2>2, <2>3, CountRange DEF RingInv
  <2> QED BY <1>1, <2>1, <2>4 DEF RingInv, RingTypeOK
<1>4. Error'[At(n + 1)'] = e
  <2>1. At(n + 1)' = head
      BY <1>0, <1>1, CountRange DEF RingInv, At
  <2> QED BY <1>1, <2>1 DEF RingInv, RingTypeOK
<1>5. \A k \in 1 .. n + 1 : Error'[At(k)'] = IF k <= n THEN Error[At(k)] ELSE e
  <2> TAKE k \in 1 .. n + 1
  <2>1. CASE k <= n
      BY <1>3, <2>1
  <2>2. CASE k = n + 1
      BY <1>4, <2>2
  <2> QED BY <2>1, <2>2
<1>6. RingInv'
  <2>1. \A k \in 1 .. n : Error[At(k)] \in Entry
      BY <1>0 DEF RingInv
  <2>2. \A k \in 1 .. n + 1 : Error'[At(k)'] \in Entry
      BY <1>5, <2>1
  <2> QED BY <1>1, <1>2, <2>2 DEF RingInv, FlagIsUp
<1>7. Pending' = Append(Pending, e)
  <2>1. Pending' = [k \in 1 .. n + 1 |-> IF k <= n THEN Error[At(k)] ELSE e]
      BY <1>1, <1>5 DEF Pending
  <2>2. Pending \in Seq(Entry) /\ Len(Pending) = n
      BY <1>0, PendingIsSeq
  <2>3. \A k \in 1 .. n : Pending[k] = Error[At(k)]
      BY <1>0 DEF Pending
  <2>4. \A k \in 1 .. n + 1 : (IF k <= n THEN Error[At(k)] ELSE e) \in Entry
      BY <1>0 DEF RingInv
  <2>5. Pending' \in Seq(Entry) /\ Len(Pending') = n + 1
      BY <2>1, <2>4
  <2>6. \A k \in 1 .. n + 1 : Pending'[k] = Append(Pending, e)[k]
      BY <2>1, <2>2, <2>3, AppendProperties
  <2> QED BY <2>2, <2>5, <2>6, AppendProperties, SeqEqual
<1> QED BY <1>0, <1>1, <1>6, <1>7

(* A push to a full ring drops the oldest entry.                           *)
LEMMA PushReplaces ==
    ASSUME RingInv, NEW e \in Entry, Push(e), Count = MAXELIST
    PROVE  RingInv' /\ Pending' = Append(Tail(Pending), e) /\ Count' = Count
<1>1. /\ tail' = After(tail) /\ Error' = [Error EXCEPT ![head] = e]
      /\ head' = After(head) /\ Count' = MAXELIST /\ ecaterror' = TRUE
    BY CountRange, RingAssumption
    DEF RingInv, RingTypeOK, Push, After, Count, Slots
<1>2. RingTypeOK'
    BY <1>1, RingAssumption DEF RingInv, RingTypeOK, After, Slots
<1>0. \A k \in 1 .. MAXELIST : At(k)' = At(k + 1)
    BY <1>1, RingAssumption DEF RingInv, RingTypeOK, After, At, Slots
<1>3. ASSUME NEW k \in 1 .. MAXELIST - 1 PROVE Error'[At(k)'] = Error[At(k + 1)]
  <2>1. At(k)' = At(k + 1)
      BY <1>0, RingAssumption
  <2>2. k + 1 \in 1 .. MAXELIST + 1 /\ k + 1 # MAXELIST + 1
      BY RingAssumption
  <2>3. At(MAXELIST + 1) = head
      BY CountRange DEF RingInv
  <2>4. At(k + 1) # head /\ At(k + 1) \in Slots
      BY <2>2, <2>3, CountRange, RingAssumption DEF RingInv
  <2> QED BY <1>1, <2>1, <2>4 DEF RingInv, RingTypeOK
<1>4. Error'[At(MAXELIST)'] = e
  <2>1. At(MAXELIST)' = head
      BY <1>0, CountRange, RingAssumption DEF RingInv
  <2> QED BY <1>1, <2>1 DEF RingInv, RingTypeOK
<1>5. \A k \in 1 .. MAXELIST :
        Error'[At(k)'] = IF k < MAXELIST THEN Error[At(k + 1)] ELSE e
  <2> TAKE k \in 1 .. MAXELIST
  <2>1. CASE k < MAXELIST
      BY <1>3, <2>1, RingAssumption
  <2>2. CASE k = MAXELIST
      BY <1>4, <2>2
  <2> QED BY <2>1, <2>2, RingAssumption
<1>6. RingInv'
  <2>1. \A k \in 1 .. MAXELIST : Error[At(k)] \in Entry
      BY DEF RingInv
  <2>2. \A k \in 1 .. MAXELIST : Error'[At(k)'] \in Entry
      BY <1>5, <2>1, RingAssumption
  <2> QED BY <1>1, <1>2, <2>2 DEF RingInv, FlagIsUp
<1>7. Pending' = Append(Tail(Pending), e)
  <2>1. Pending' = [k \in 1 .. MAXELIST |-> IF k < MAXELIST THEN Error[At(k + 1)] ELSE e]
      BY <1>1, <1>5 DEF Pending
  <2>2. Pending \in Seq(Entry) /\ Len(Pending) = MAXELIST
      BY PendingIsSeq
  <2>3. \A k \in 1 .. MAXELIST : Pending[k] = Error[At(k)]
      BY DEF Pending
  <2>4. /\ Tail(Pending) \in Seq(Entry) /\ Len(Tail(Pending)) = MAXELIST - 1
        /\ \A k \in 1 .. MAXELIST - 1 : Tail(Pending)[k] = Error[At(k + 1)]
      BY <2>2, <2>3, RingAssumption
  <2>5. \A k \in 1 .. MAXELIST :
          (IF k < MAXELIST THEN Error[At(k + 1)] ELSE e) \in Entry
      BY RingAssumption DEF RingInv
  <2>6. Pending' \in Seq(Entry) /\ Len(Pending') = MAXELIST
      BY <2>1, <2>5, RingAssumption
  <2>7. \A k \in 1 .. MAXELIST : Pending'[k] = Append(Tail(Pending), e)[k]
      BY <2>1, <2>4, AppendProperties, RingAssumption
  <2> QED BY <2>4, <2>6, <2>7, AppendProperties, SeqEqual, RingAssumption
<1> QED BY <1>1, <1>6, <1>7

(* A pop takes the oldest entry.                                           *)
LEMMA PopTakesOldest ==
    ASSUME RingInv, PopError
    PROVE  RingInv' /\ Pending # <<>> /\ Pending' = Tail(Pending) /\ Count' = Count - 1
<1>0. PICK n \in 1 .. MAXELIST : n = Count
    BY CountRange, RingAssumption DEF RingInv, PopError
<1>1. /\ tail' = After(tail) /\ UNCHANGED <<Error, head, ecaterror>>
      /\ Count' = n - 1
    BY <1>0, CountRange, RingAssumption
    DEF RingInv, RingTypeOK, PopError, AdvanceTail, After, Count, Slots, IsError
<1>2. RingTypeOK'
    BY <1>1, RingAssumption DEF RingInv, RingTypeOK, After, Slots
<1>3. \A k \in 1 .. n - 1 : At(k)' = At(k + 1)
    BY <1>1, RingAssumption DEF RingInv, RingTypeOK, After, At, Slots
<1>4. \A k \in 1 .. n : Error[At(k)] \in Entry
    BY <1>0 DEF RingInv
<1>5. \A k \in 1 .. n - 1 : Error'[At(k)'] = Error[At(k + 1)]
    BY <1>1, <1>3
<1>6. RingInv'
  <2>1. \A k \in 1 .. n - 1 : Error'[At(k)'] \in Entry
      BY <1>4, <1>5, RingAssumption
  <2>2. FlagIsUp'
      BY <1>1 DEF RingInv, FlagIsUp, PopError, IsError
  <2> QED BY <1>1, <1>2, <2>1, <2>2 DEF RingInv
<1>7. Pending # <<>> /\ Pending' = Tail(Pending)
  <2>1. Pending' = [k \in 1 .. n - 1 |-> Error[At(k + 1)]]
      BY <1>1, <1>5 DEF Pending
  <2>2. Pending \in Seq(Entry) /\ Len(Pending) = n
      BY <1>0, PendingIsSeq
  <2>3. \A k \in 1 .. n : Pending[k] = Error[At(k)]
      BY <1>0 DEF Pending
  <2>4. /\ Tail(Pending) \in Seq(Entry) /\ Len(Tail(Pending)) = n - 1
        /\ \A k \in 1 .. n - 1 : Tail(Pending)[k] = Error[At(k + 1)]
      BY <2>2, <2>3
  <2>5. Pending' \in Seq(Entry) /\ Len(Pending') = n - 1
      BY <1>4, <2>1
  <2>6. \A k \in 1 .. n - 1 : Pending'[k] = Tail(Pending)[k]
      BY <2>1, <2>4
  <2>7. Pending' = Tail(Pending)
      BY <2>4, <2>5, <2>6, SeqEqual
  <2> QED BY <2>2, <2>7
<1> QED BY <1>0, <1>1, <1>6, <1>7

LEMMA PopNothingKeeps ==
    ASSUME RingInv, PopNothing
    PROVE  RingInv' /\ Pending' = Pending /\ Count' = Count
BY DEF RingInv, PopNothing, RingTypeOK, FlagIsUp, IsError, Count, At, Pending

LEMMA StutterKeeps ==
    ASSUME RingInv, UNCHANGED ring
    PROVE  RingInv' /\ Pending' = Pending /\ Count' = Count
BY DEF RingInv, ring, RingTypeOK, FlagIsUp, IsError, Count, At, Pending

LEMMA RingInvInit == RingInit => RingInv /\ Pending = <<>>
<1> SUFFICES ASSUME RingInit PROVE RingInv /\ Pending = <<>>
    OBVIOUS
<1>1. Count = 0
    BY DEF RingInit, Count
<1>4. RingTypeOK
  <2>1. head \in Slots /\ tail \in Slots
      BY RingAssumption DEF RingInit, Slots
  <2>2. Error \in [Slots -> Entry \cup {NoEntry}] /\ ecaterror \in BOOLEAN
      BY Zenon DEF RingInit
  <2> QED BY <2>1, <2>2 DEF RingTypeOK
<1>2. RingInv
    BY <1>1, <1>4 DEF RingInit, RingInv, FlagIsUp, IsError
<1>3. Pending \in Seq(Entry) /\ Len(Pending) = 0
    BY <1>1, <1>2, PendingIsSeq
<1> QED BY <1>2, <1>3, EmptySeq

LEMMA RingInvNext == RingInv /\ [RingNext]_ring => RingInv'
BY PushAppends, PushReplaces, PopTakesOldest, PopNothingKeeps, StutterKeeps
DEF RingNext

(* The flag ecaterror is up while there are errors, and the ring's indices *)
(* stay within the array.                                                  *)
THEOREM FlagNeverMissesAnError == RingSpec => [](RingTypeOK /\ FlagIsUp)
<1>1. RingInv => RingTypeOK /\ FlagIsUp
    BY DEF RingInv
<1> QED BY <1>1, RingInvInit, RingInvNext, PTL DEF RingSpec

LEMMA RingStepIsRecent == RingInv /\ [RingNext]_ring => [Recent!Next]_Pending
<1> SUFFICES ASSUME RingInv, [RingNext]_ring PROVE [Recent!Next]_Pending
    OBVIOUS
<1> USE DEF Recent!Next, Recent!Add, Recent!TakeOldest
<1>0. Len(Pending) = Count /\ Count \in 0 .. MAXELIST
    BY PendingIsSeq, CountRange DEF RingInv
<1>1. ASSUME NEW e \in Entry, Push(e) PROVE Recent!Next
  <2>1. CASE Count = MAXELIST
      BY <1>0, <1>1, <2>1, PushReplaces
  <2>2. CASE Count # MAXELIST
      BY <1>0, <1>1, <2>2, PushAppends, RingAssumption
  <2> QED BY <2>1, <2>2
<1>2. CASE PopError
    BY <1>2, PopTakesOldest
<1>3. CASE PopNothing
    BY <1>3, PopNothingKeeps
<1>4. CASE UNCHANGED ring
    BY <1>4, StutterKeeps
<1> QED BY <1>1, <1>2, <1>3, <1>4 DEF RingNext

(* The ring is the list of the EC_MAXELIST newest errors, oldest first.    *)
THEOREM RingImplementsRecent == RingSpec => ImplementsRecent
<1>1. RingInit => Recent!Init
    BY RingInvInit DEF Recent!Init
<1> QED
    BY <1>1, RingStepIsRecent, RingInvInit, RingInvNext, PTL
    DEF RingSpec, ImplementsRecent, Recent!Spec
-----------------------------------------------------------------------------
(***************************************************************************)
(* Types, which hold for any number of callers; the rest of the ring's     *)
(* invariant does not, as two callers may take one error twice.            *)
(***************************************************************************)
Places == {"idle", "call", "drain", "pop", "advance", "report"}

DiagTypeOK ==
    /\ RingTypeOK
    /\ pc \in [Callers -> Places]
    /\ own \in [Callers -> Entry \cup {NoEntry}]
    /\ popped \in [Callers -> Entry \cup {NoEntry}]
    /\ nerr \in 0 .. MaxErrors
    /\ log \in Seq(Entry) /\ Len(log) <= MaxLogSize
    /\ \A c \in Callers : pc[c] = "report" => Mine(c)

USE DEF Go

LEMMA DiagTypeInit == Init => DiagTypeOK
<1> SUFFICES ASSUME Init
             PROVE  DiagTypeOK
    OBVIOUS
<1>1. RingTypeOK
    BY RingInvInit DEF Init, RingInv
<1>2. log \in Seq(Entry) /\ Len(log) = 0
    BY DEF Init
<1>3. nerr \in 0 .. MaxErrors
    BY DiagnosticsAssumption DEF Init
<1> QED BY <1>1, <1>2, <1>3, DiagnosticsAssumption DEF Init, DiagTypeOK, Places

(* A message is added at the end, or the list does not change.             *)
LEMMA Inserted ==
    ASSUME DiagTypeOK, NEW e \in Entry, Insert(e)
    PROVE  /\ log' \in Seq(Entry) /\ Len(log') <= MaxLogSize
           /\ \/ Len(log) < MaxLogSize /\ log' = Append(log, e)
              \/ Len(log) = MaxLogSize /\ log' = Append(Tail(log), e)
<1>0. log \in Seq(Entry) /\ Len(log) \in Nat /\ Len(log) <= MaxLogSize /\ MaxLogSize \in Nat \ {0}
    BY DiagnosticsAssumption DEF DiagTypeOK
<1>1. Append(log, e) \in Seq(Entry) /\ Len(Append(log, e)) = Len(log) + 1
    BY <1>0
<1>2. CASE Len(log) < MaxLogSize
    BY <1>0, <1>1, <1>2 DEF Insert
<1>3. CASE Len(log) = MaxLogSize
  <2>1. log' = Tail(Append(log, e))
      BY <1>0, <1>1, <1>3 DEF Insert
  <2>2. Tail(Append(log, e)) = Append(Tail(log), e)
      BY <1>0, <1>3
  <2>3. Append(Tail(log), e) \in Seq(Entry) /\ Len(Append(Tail(log), e)) = Len(log)
      BY <1>0, <1>3
  <2> QED BY <1>0, <1>3, <2>1, <2>2, <2>3
<1> QED BY <1>0, <1>2, <1>3

LEMMA PushType ==
    ASSUME RingTypeOK, NEW e \in Entry, Push(e)
    PROVE  RingTypeOK'
BY RingAssumption DEF RingTypeOK, Push, After, Slots

LEMMA NewError ==
    ASSUME nerr \in 0 .. MaxErrors, nerr < MaxErrors, NEW o \in Callers \cup {Elsewhere}
    PROVE  [of |-> o, no |-> nerr + 1] \in Entry /\ nerr + 1 \in 0 .. MaxErrors
BY DiagnosticsAssumption

LEMMA DiagTypeNext == DiagTypeOK /\ [Next]_vars => DiagTypeOK'
<1> SUFFICES ASSUME DiagTypeOK, [Next]_vars
             PROVE  DiagTypeOK'
    OBVIOUS
<1> USE DEF DiagTypeOK
<1>1. ASSUME NEW c \in Callers, Begin(c)
      PROVE  DiagTypeOK'
    BY <1>1 DEF Begin, ring, RingTypeOK, Places, Mine
<1>2. ASSUME NEW c \in Callers, PushElsewhere(c)
      PROVE  DiagTypeOK'
    BY <1>2, NewError, PushType DEF PushElsewhere, Mine
<1>3. ASSUME NEW c \in Callers, PushOwn(c)
      PROVE  DiagTypeOK'
    BY <1>3, NewError, PushType DEF PushOwn, Mine, Places
<1>4. ASSUME NEW c \in Callers, Return(c)
      PROVE  DiagTypeOK'
    BY <1>4 DEF Return, ring, RingTypeOK, Places, Mine
<1>5. ASSUME NEW c \in Callers, FindsError(c) \/ FindsNone(c)
      PROVE  DiagTypeOK'
    BY <1>5 DEF FindsError, FindsNone, ring, RingTypeOK, Places, Mine
<1>6. ASSUME NEW c \in Callers, PopReads(c)
      PROVE  DiagTypeOK'
    BY <1>6, ZenonT(30) DEF PopReads, PopNothing, ring, RingTypeOK, Places, Mine
<1>7. ASSUME NEW c \in Callers, PopAdvances(c)
      PROVE  DiagTypeOK'
    BY <1>7, RingAssumption DEF PopAdvances, AdvanceTail, After, Slots, RingTypeOK, Places, Mine
<1>8. ASSUME NEW c \in Callers, Report(c)
      PROVE  DiagTypeOK'
    BY <1>8, Inserted DEF Report, ring, RingTypeOK, Places, Mine
<1>9. CASE GetLog
    BY <1>9 DEF GetLog, ring, RingTypeOK, Mine
<1>10. CASE ClearLog
    BY <1>10, DiagnosticsAssumption DEF ClearLog, ring, RingTypeOK, Mine
<1>11. CASE UNCHANGED vars
    BY <1>11 DEF vars, ring, RingTypeOK, Mine
<1> QED BY <1>1, <1>2, <1>3, <1>4, <1>5, <1>6, <1>7, <1>8, <1>9, <1>10, <1>11
        DEF Next, Step

(* The MessageLog is the list of the newest messages (Macros.cpp:32),      *)
(* whatever the callers take out of the ring and whenever the reader       *)
(* clears it.                                                              *)
THEOREM LogImplements == Spec => LogImplementsRecent
<1>1. Init => Messages!Init
    BY DEF Init, Messages!Init
<1>2. DiagTypeOK /\ [Next]_vars => [Messages!Next]_log
  <2> SUFFICES ASSUME DiagTypeOK, [Next]_vars, log' # log
               PROVE  Messages!Next
      OBVIOUS
  <2> USE DEF Messages!Next, Messages!Add, Messages!Clear
  <2>1. ASSUME NEW c \in Callers, Report(c)
        PROVE  Messages!Next
    <3>1. Mine(c) /\ popped[c] \in Entry /\ Insert(popped[c])
        BY <2>1 DEF Report, DiagTypeOK, Mine
    <3> QED BY <3>1, Inserted
  <2>2. CASE ClearLog
      BY <2>2 DEF ClearLog
  <2>3. ASSUME NEW c \in Callers, Step(c), ~Report(c)
        PROVE  FALSE
      BY <2>3 DEF Step, Begin, PushElsewhere, PushOwn, Return, FindsError, FindsNone,
                  PopReads, PopAdvances
  <2>4. ~GetLog /\ ~UNCHANGED vars
      BY DEF GetLog, vars
  <2> QED BY <2>1, <2>2, <2>3, <2>4 DEF Next
<1> QED
    BY <1>1, <1>2, DiagTypeInit, DiagTypeNext, PTL
    DEF Spec, LogImplementsRecent, Messages!Spec
-----------------------------------------------------------------------------
(***************************************************************************)
(* One caller. Between two transfers the ring holds no error of his; when  *)
(* he has left one it is the newest, and it is still there until he takes  *)
(* it, however many errors of other objects came before it.                *)
(***************************************************************************)
Single == \A c, d \in Callers : c = d

Others(n) == \A k \in 1 .. n : Pending[k].of \notin Callers

Left(c) ==
    IF own[c] = NoEntry THEN Others(Count)
    ELSE /\ Count > 0 /\ Pending[Count] = own[c] /\ own[c].of = c
         /\ Others(Count - 1)

CallerInv(c) ==
    /\ pc[c] \in {"idle", "call", "report"} => Others(Count)
    /\ pc[c] = "call" => own[c] = NoEntry
    /\ pc[c] \in {"drain", "pop", "advance"} => Left(c)
    /\ pc[c] = "advance" => Count > 0 /\ popped[c] = Pending[1]
    /\ pc[c] = "report" => popped[c] = own[c]

SingleInv == DiagTypeOK /\ RingInv /\ \A c \in Callers : CallerInv(c)

LEMMA PendingType ==
    ASSUME RingInv
    PROVE  /\ Count \in 0 .. MAXELIST /\ Len(Pending) = Count /\ Pending \in Seq(Entry)
           /\ \A k \in 1 .. Count : Pending[k] \in Entry /\ Pending[k] = Error[At(k)]
           /\ Count = 0 <=> ~IsError
           /\ Count > 0 => Pending[1] = Error[tail]
<1>1. Count \in 0 .. MAXELIST /\ Len(Pending) = Count /\ Pending \in Seq(Entry)
    BY PendingIsSeq, CountRange DEF RingInv
<1>2. Count = 0 <=> ~IsError
    BY CountRange DEF RingInv
<1>3. \A k \in 1 .. Count : Pending[k] \in Entry /\ Pending[k] = Error[At(k)]
    BY DEF RingInv, Pending
<1>4. At(1) = tail
    BY RingAssumption DEF RingInv, RingTypeOK, Slots, At
<1> QED BY <1>1, <1>2, <1>3, <1>4, RingAssumption

(* What a push does to the list of the errors in the ring.                 *)
LEMMA PushPending ==
    ASSUME RingInv, NEW e \in Entry, Push(e)
    PROVE  /\ RingInv' /\ Count' \in 1 .. MAXELIST /\ Pending'[Count'] = e
           /\ Others(Count) => Others(Count - 1)'
<1> DEFINE n == Count
           s == Pending
<1>0. /\ n \in 0 .. MAXELIST /\ Len(s) = n /\ s \in Seq(Entry) /\ MAXELIST \in Nat \ {0}
    BY PendingType, RingAssumption
<1>1. CASE n # MAXELIST
  <2>1. RingInv' /\ Count' = n + 1 /\ Pending' = Append(s, e)
      BY <1>1, PushAppends
  <2> HIDE DEF n, s
  <2>2. \A k \in 1 .. n : Pending'[k] = s[k]
      BY <1>0, <2>1
  <2>3. Pending'[n + 1] = e /\ n + 1 \in 1 .. MAXELIST
      BY <1>0, <1>1, <2>1
  <2> QED BY <1>0, <2>1, <2>2, <2>3 DEF Others, n, s
<1>2. CASE n = MAXELIST
  <2>1. RingInv' /\ Count' = n /\ Pending' = Append(Tail(s), e)
      BY <1>2, PushReplaces
  <2> HIDE DEF n, s
  <2>2. \A k \in 1 .. n - 1 : Pending'[k] = s[k + 1] /\ k + 1 \in 1 .. n
      BY <1>0, <2>1
  <2>3. Pending'[n] = e
      BY <1>0, <1>2, <2>1
  <2> QED BY <1>0, <1>2, <2>1, <2>2, <2>3 DEF Others, n, s
<1> QED BY <1>1, <1>2

LEMMA SingleInit == Init => SingleInv
<1>1. Init => RingInv /\ Pending = <<>>
    BY RingInvInit DEF Init
<1>2. Init => Count = 0
    BY DEF Init, RingInit, Count
<1>3. Init => \A c \in Callers : CallerInv(c)
    BY <1>2, RingAssumption DEF Init, CallerInv, Others
<1> QED BY <1>1, <1>3, DiagTypeInit DEF SingleInv

LEMMA SingleNext == Single /\ SingleInv /\ [Next]_vars => SingleInv'
<1> SUFFICES ASSUME Single, SingleInv, [Next]_vars
             PROVE  SingleInv'
    OBVIOUS
<1>0. /\ DiagTypeOK /\ RingInv /\ \A c \in Callers : CallerInv(c)
      /\ DiagTypeOK'
    BY DiagTypeNext DEF SingleInv
<1>1. ASSUME NEW c \in Callers, RingInv', CallerInv(c)'
      PROVE  SingleInv'
    BY <1>0, <1>1 DEF SingleInv, Single
<1>2. ASSUME UNCHANGED ring
      PROVE  RingInv' /\ UNCHANGED <<Pending, Count>>
    BY <1>0, <1>2, StutterKeeps
<1>3. ASSUME NEW c \in Callers, Begin(c)
      PROVE  SingleInv'
    BY <1>0, <1>1, <1>2, <1>3 DEF Begin, CallerInv, Others, DiagTypeOK
<1>4. ASSUME NEW c \in Callers, PushElsewhere(c)
      PROVE  SingleInv'
  <2> DEFINE e == [of |-> Elsewhere, no |-> nerr + 1]
  <2>1. e \in Entry /\ Push(e)
      BY <1>0, <1>4, NewError DEF PushElsewhere, DiagTypeOK
  <2>2. RingInv' /\ Count' \in 1 .. MAXELIST /\ Pending'[Count'] = e
        /\ (Others(Count) => Others(Count - 1)')
      BY <1>0, <2>1, PushPending
  <2>3. Others(Count)'
    <3>1. Others(Count - 1)' /\ e.of \notin Callers
        BY <1>0, <1>4, <2>2, DiagnosticsAssumption DEF CallerInv, PushElsewhere
    <3> HIDE DEF e
    <3>2. \A k \in 1 .. Count' - 1 : Pending'[k].of \notin Callers
        BY <3>1 DEF Others
    <3>3. Count' \in Nat /\ Pending'[Count'].of \notin Callers
        BY <2>2, <3>1, RingAssumption
    <3>4. \A s : \A n \in Nat :
             (\A k \in 1 .. n - 1 : s[k].of \notin Callers) /\ s[n].of \notin Callers
             => \A k \in 1 .. n : s[k].of \notin Callers
        OBVIOUS
    <3>5. \A k \in 1 .. Count' : Pending'[k].of \notin Callers
        BY <3>2, <3>3, <3>4, Zenon
    <3> QED BY <3>5 DEF Others
  <2>4. pc[c] = "call" /\ UNCHANGED <<pc, own, popped>>
      BY <1>4 DEF PushElsewhere
  <2> QED BY <1>0, <1>1, <2>2, <2>3, <2>4 DEF CallerInv
<1>5. ASSUME NEW c \in Callers, PushOwn(c)
      PROVE  SingleInv'
  <2> DEFINE e == [of |-> c, no |-> nerr + 1]
  <2>1. e \in Entry /\ Push(e) /\ pc[c] = "call" /\ e.of = c /\ e # NoEntry
      BY <1>0, <1>5, NewError, RingAssumption DEF PushOwn, DiagTypeOK
  <2>2. own'[c] = e /\ pc'[c] = "drain"
      BY <1>0, <1>5 DEF PushOwn, DiagTypeOK
  <2>3. RingInv' /\ Count' \in 1 .. MAXELIST /\ Pending'[Count'] = e
        /\ (Others(Count) => Others(Count - 1)')
      BY <1>0, <2>1, PushPending
  <2> HIDE DEF e
  <2>4. Left(c)'
      BY <1>0, <2>1, <2>2, <2>3 DEF Left, CallerInv
  <2> QED BY <1>1, <2>2, <2>3, <2>4 DEF CallerInv
<1>6. ASSUME NEW c \in Callers, Return(c)
      PROVE  SingleInv'
    BY <1>0, <1>1, <1>2, <1>6 DEF Return, CallerInv, Others, Left, DiagTypeOK
<1>7. ASSUME NEW c \in Callers, FindsError(c) \/ FindsNone(c)
      PROVE  SingleInv'
    BY <1>0, <1>1, <1>2, <1>7, PendingType DEF FindsError, FindsNone, CallerInv, Others, Left, DiagTypeOK
<1>8. ASSUME NEW c \in Callers, PopReads(c)
      PROVE  SingleInv'
  <2>1. CASE IsError
    <3>1. /\ UNCHANGED ring /\ pc[c] = "pop" /\ pc'[c] = "advance"
          /\ popped'[c] = Error[tail] /\ own' = own
        BY <1>0, <1>8, <2>1 DEF PopReads, DiagTypeOK
    <3>2. Count \in Nat /\ Count # 0 /\ Pending[1] = Error[tail]
        BY <1>0, <2>1, PendingType
    <3> QED BY <1>0, <1>1, <1>2, <3>1, <3>2 DEF CallerInv, Left, Others
  <2>2. CASE ~IsError
    <3>1. PopNothing /\ pc[c] = "pop" /\ pc'[c] = "drain" /\ own' = own
        BY <1>0, <1>8, <2>2 DEF PopReads, DiagTypeOK
    <3>2. RingInv' /\ Pending' = Pending /\ Count' = Count
        BY <1>0, <3>1, PopNothingKeeps
    <3> QED BY <1>0, <1>1, <3>1, <3>2 DEF CallerInv, Left, Others
  <2> QED BY <2>1, <2>2
<1>9. ASSUME NEW c \in Callers, PopAdvances(c)
      PROVE  SingleInv'
  <2> DEFINE n == Count
           s == Pending
  <2>1. /\ n \in Nat /\ n > 0 /\ Len(s) = n /\ s \in Seq(Entry) /\ IsError
        /\ popped[c] = s[1] /\ s[1] \in Entry /\ Left(c)
      BY <1>0, <1>9, PendingType DEF PopAdvances, CallerInv
  <2>2. AdvanceTail /\ own' = own /\ popped' = popped
      BY <1>9 DEF PopAdvances
  <2>3. RingInv' /\ Pending' = Tail(s) /\ Count' = n - 1
      BY <1>0, <2>1, <2>2, PopTakesOldest DEF PopError
  <2>4. pc'[c] = IF Mine(c) THEN "report" ELSE "drain"
      BY <1>0, <1>9 DEF PopAdvances, DiagTypeOK
  <2> HIDE DEF n, s
  <2>5. \A k \in 1 .. n - 1 : Pending'[k] = s[k + 1] /\ k + 1 \in 1 .. n
      BY <2>1, <2>3
  <2>6. CASE own[c] = NoEntry \/ n > 1
    <3>1. popped[c].of # c
        BY <2>1, <2>6 DEF Left, Others, n, s
    <3>2. Left(c)'
        BY <2>1, <2>2, <2>3, <2>5, <2>6 DEF Left, Others, n, s
    <3> QED BY <1>1, <2>3, <2>4, <3>1, <3>2 DEF CallerInv, Mine
  <2>7. CASE own[c] # NoEntry /\ n = 1
    <3>1. popped[c] = own[c] /\ Mine(c)
        BY <2>1, <2>7, RingAssumption DEF Left, Mine, n, s
    <3>2. Others(Count)'
        BY <2>3, <2>7 DEF Others
    <3> QED BY <1>1, <2>2, <2>3, <2>4, <3>1, <3>2 DEF CallerInv
  <2> QED BY <2>1, <2>6, <2>7
<1>10. ASSUME NEW c \in Callers, Report(c)
      PROVE  SingleInv'
    BY <1>0, <1>1, <1>2, <1>10 DEF Report, CallerInv, Others, DiagTypeOK
<1>11. CASE GetLog \/ ClearLog \/ UNCHANGED vars
  <2>1. UNCHANGED <<ring, pc, own, popped>>
      BY <1>11 DEF GetLog, ClearLog, vars
  <2> QED BY <1>0, <1>2, <2>1 DEF SingleInv, CallerInv, Left, Others
<1> QED BY <1>3, <1>4, <1>5, <1>6, <1>7, <1>8, <1>9, <1>10, <1>11 DEF Next, Step

(* "Check if an error for the SDO index of the slave exists. return True   *)
(* if an error for the index exists" (EthercatBusBase.cpp:724-728): with   *)
(* one caller a failed transfer reports its own error and no other, also   *)
(* when the ring has overflowed in between.                                *)
THEOREM OwnErrorIsReported == ASSUME Single PROVE Spec => ReportsOwnError
<1>1. ASSUME SingleInv, NEW c \in Callers
      PROVE  /\ FindsNone(c) => own[c] = NoEntry
             /\ Report(c) => popped[c] = own[c]
    BY <1>1, PendingType, RingAssumption
    DEF FindsNone, Report, SingleInv, CallerInv, Left
<1>2. SingleInv =>
        \A c \in Callers : /\ FindsNone(c) => own[c] = NoEntry
                           /\ Report(c) => popped[c] = own[c]
    BY <1>1
<1> QED BY <1>2, SingleInit, SingleNext, PTL DEF Spec, ReportsOwnError

(* With one caller every step of a transfer leaves the ring as it should:  *)
(* the list of the newest errors (ethercatmain.c:152-207).                 *)
THEOREM RingInUseImplementsRecent == ASSUME Single PROVE Spec => ImplementsRecent
<1>1. Init => Recent!Init
    BY RingInvInit DEF Init, Recent!Init
<1>2. SingleInv /\ [Next]_vars => [RingNext]_ring
  <2> SUFFICES ASSUME SingleInv, [Next]_vars
               PROVE  [RingNext]_ring
      OBVIOUS
  <2>1. ASSUME NEW c \in Callers, PushElsewhere(c) \/ PushOwn(c)
        PROVE  RingNext
      BY <2>1, NewError DEF PushElsewhere, PushOwn, SingleInv, DiagTypeOK, RingNext
  <2>2. ASSUME NEW c \in Callers, PopReads(c)
        PROVE  [RingNext]_ring
      BY <2>2 DEF PopReads, RingNext
  <2>3. ASSUME NEW c \in Callers, PopAdvances(c)
        PROVE  RingNext
      BY <2>3, PendingType, RingAssumption
      DEF PopAdvances, SingleInv, CallerInv, RingNext, PopError
  <2>4. ASSUME NEW c \in Callers, Begin(c) \/ Return(c) \/ FindsError(c) \/ FindsNone(c)
                                  \/ Report(c)
        PROVE  UNCHANGED ring
      BY <2>4 DEF Begin, Return, FindsError, FindsNone, Report
  <2>5. CASE GetLog \/ ClearLog \/ UNCHANGED vars
      BY <2>5 DEF GetLog, ClearLog, vars
  <2> QED BY <2>1, <2>2, <2>3, <2>4, <2>5 DEF Next, Step
<1>3. SingleInv => RingInv
    BY DEF SingleInv
<1> QED
    BY <1>1, <1>2, <1>3, SingleInit, SingleNext, RingStepIsRecent, PTL
    DEF Spec, ImplementsRecent, Recent!Spec
=============================================================================
