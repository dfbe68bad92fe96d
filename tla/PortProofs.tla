----------------------------- MODULE PortProofs -----------------------------
(***************************************************************************)
(* What is proved of Port for every number of buffers, clients, requests   *)
(* and transmissions.                                                      *)
(***************************************************************************)
EXTENDS Port, FiniteSetTheorems, FunctionTheorems, TLAPS

USE DEF Slots, BufStat, PC

(* The type invariant is inductive once a call is known to have a request  *)
(* number.                                                                 *)
Numbered == \A c \in Clients : pc[c] # "idle" => req[c] # 0
TypeInv == TypeOK /\ Numbered

LEMMA FrameIndex == \A f \in Frame \cup {NoFrame} : f.idx \in Slots
BY PortAssumption DEF Frame, NoFrame

LEMMA ProbeIsSlot ==
    ASSUME TypeOK, NEW k \in Slots
    PROVE  Probe(k) \in Slots
BY PortAssumption DEF TypeOK, Probe

LEMMA UpTo ==
    ASSUME NEW m \in Nat, NEW n \in 0 .. m
    PROVE  /\ n # 0 => n \in 1 .. m
           /\ n < m => n + 1 \in 1 .. m
OBVIOUS

LEMMA TypeInvInit == Init => TypeInv
BY PortAssumption DEF Init, TypeInv, TypeOK, Numbered

LEMMA TypeInvNext == TypeInv /\ [Next]_vars => TypeInv'
<1> SUFFICES ASSUME TypeInv, [Next]_vars PROVE TypeInv'
    OBVIOUS
<1> USE PortAssumption DEF TypeInv, TypeOK, Numbered, Go, Lock, Unlock, CountTry
<1>1. ASSUME NEW c \in Clients, GetIndex(c) PROVE TypeInv'
  <2> PICK k \in Slots : FirstFree(k) /\ Allocate(c, Probe(k))
      BY <1>1 DEF GetIndex
  <2> DEFINE i == Probe(k)
  <2>1. i \in Slots
      BY ProbeIsSlot
  <2> HIDE DEF i
  <2>2. Allocate(c, i)
      BY DEF i
  <2>3. /\ rxbufstat' \in [Slots -> BufStat] /\ lastidx' \in Slots
        /\ idx' \in [Clients -> Slots]
      BY <2>1, <2>2 DEF Allocate
  <2>4. nreq' \in 0 .. MaxReq /\ req' \in [Clients -> 0 .. MaxReq] /\ Numbered'
      BY <1>1 DEF GetIndex
  <2>5. /\ pc' \in [Clients -> PC] /\ ctx' \in Clients \cup {None}
        /\ tries' \in [Clients -> 0 .. MaxTries]
      BY <1>1 DEF GetIndex
  <2> QED BY <1>1, <2>3, <2>4, <2>5 DEF GetIndex
<1>2. ASSUME NEW c \in Clients, OutFrame(c) PROVE TypeInv'
  <2>0. /\ pc[c] = "alloc" /\ req[c] \in 1 .. MaxReq
        /\ tries[c] + 1 \in 1 .. MaxTries
    <3>1. pc[c] = "alloc" /\ tries[c] < MaxTries
        BY <1>2 DEF OutFrame
    <3>2. tries[c] \in 0 .. MaxTries /\ req[c] \in 0 .. MaxReq
        OBVIOUS
    <3>3. req[c] # 0
        BY <3>1
    <3>4. MaxTries \in Nat /\ MaxReq \in Nat
        OBVIOUS
    <3>5. req[c] \in 1 .. MaxReq
        BY <3>2, <3>3, <3>4, UpTo
    <3>6. tries[c] + 1 \in 1 .. MaxTries
        BY <3>1, <3>2, <3>4, UpTo
    <3> QED BY <3>1, <3>5, <3>6
  <2>1. pc' \in [Clients -> PC] /\ Numbered'
    <3> DEFINE to == IF c \in Cyclic THEN "parked" ELSE "check"
    <3>1. to \in PC /\ pc' = [pc EXCEPT ![c] = to] /\ req' = req
        BY <1>2 DEF OutFrame
    <3> HIDE DEF to
    <3> QED BY <2>0, <3>1
  <2>5. tries' \in [Clients -> 0 .. MaxTries]
    <3>1. tries' = [tries EXCEPT ![c] = tries[c] + 1]
        BY <1>2 DEF OutFrame
    <3> QED BY <2>0, <3>1
  <2>3. ctx' \in Clients \cup {None}
      BY <1>2 DEF OutFrame
  <2>4. rxbufstat' \in [Slots -> BufStat]
      BY <1>2 DEF OutFrame
  <2>2. net' \subseteq Frame
    <3>1. ASSUME NEW wkc \in Wkcs
          PROVE  [idx |-> idx[c], req |-> req[c], try |-> tries[c] + 1,
                  wkc |-> wkc] \in Frame
        BY <2>0 DEF Frame
    <3> QED BY <1>2, <3>1 DEF OutFrame
  <2> QED BY <1>2, <2>1, <2>2, <2>3, <2>4, <2>5 DEF OutFrame
<1>3. ASSUME NEW c \in Clients, Wait(c) PROVE TypeInv'
    BY <1>3 DEF Wait
<1>4. ASSUME NEW c \in Clients, Check(c) PROVE TypeInv'
    BY <1>4, ZenonT(30) DEF Check
<1>5. ASSUME NEW c \in Clients, RecvNothing(c) PROVE TypeInv'
    BY <1>5 DEF RecvNothing
<1>6. ASSUME NEW c \in Clients, RecvOwn(c) PROVE TypeInv'
  <2>1. /\ net' \subseteq Frame /\ rxbuf' \in [Slots -> Frame \cup {NoFrame}]
        /\ got' \in [Clients -> Frame \cup {NoFrame}]
    <3> PICK f \in net : /\ net' = net \ {f}
                         /\ rxbuf' = [rxbuf EXCEPT ![idx[c]] = f]
                         /\ got' = [got EXCEPT ![c] = f]
        BY <1>6 DEF RecvOwn
    <3> QED OBVIOUS
  <2>2. rxbufstat' \in [Slots -> BufStat] /\ pc' \in [Clients -> PC] /\ Numbered'
      BY <1>6 DEF RecvOwn
  <2> QED BY <1>6, <2>1, <2>2 DEF RecvOwn
<1>7. ASSUME NEW c \in Clients, RecvOther(c) PROVE TypeInv'
    BY <1>7, FrameIndex DEF RecvOther
<1>8. ASSUME NEW c \in Clients, Store(c) PROVE TypeInv'
    BY <1>8, FrameIndex DEF Store
<1>9. ASSUME NEW c \in Clients, RecvStray(c) PROVE TypeInv'
    BY <1>9 DEF RecvStray
<1>10. ASSUME NEW c \in Clients, Again(c) PROVE TypeInv'
    BY <1>10 DEF Again
<1>11. ASSUME NEW c \in Clients, Resend(c) PROVE TypeInv'
    BY <1>11 DEF Resend
<1>12. ASSUME NEW c \in Clients, GiveUp(c) PROVE TypeInv'
    BY <1>12 DEF GiveUp
<1>13. ASSUME NEW c \in Clients, Release(c) PROVE TypeInv'
    BY <1>13 DEF Release
<1>14. CASE UNCHANGED vars
    BY <1>14 DEF vars
<1> QED
    BY <1>1, <1>2, <1>3, <1>4, <1>5, <1>6, <1>7, <1>8, <1>9, <1>10, <1>11,
       <1>12, <1>13, <1>14 DEF Next, Step, Finished

(* Every variable keeps its type: an index is always that of a buffer.     *)
THEOREM Typed == Spec => []TypeOK
<1>1. TypeInv => TypeOK
    BY DEF TypeInv
<1> QED BY <1>1, TypeInvInit, TypeInvNext, PTL DEF Spec
-----------------------------------------------------------------------------
(***************************************************************************)
(* Exclusive use of the indices, when every client takes contextMutex_,    *)
(* no send fails and there are at least as many buffers as clients.  The   *)
(* invariant that makes it inductive says that a buffer is in use exactly  *)
(* while one call holds it, that a call which is not parked has the mutex, *)
(* and that a frame about to be stored is one for a buffer still in TX.    *)
(***************************************************************************)
Serial == Exempt = {} /\ ~SendErrors /\ Cardinality(Clients) <= MAXBUF

Locked == \A c \in Clients : pc[c] \notin {"idle", "parked"} => ctx = c
Busy == \A c \in Clients : Holding(c) => rxbufstat[idx[c]] # "EMPTY"
Handed == \A c \in Clients : pc[c] = "store" => rxbufstat[hand[c].idx] = "TX"

SerialInv ==
    /\ TypeInv
    /\ Locked
    /\ IndexExclusive
    /\ Busy
    /\ NoLeak
    /\ Handed

(* With no more clients than buffers, a call that begins finds one EMPTY.  *)
LEMMA FreeSlot ==
    ASSUME Serial, SerialInv, NEW c \in Clients, pc[c] = "idle"
    PROVE  \E i \in Slots : rxbufstat[i] = "EMPTY"
<1> SUFFICES ASSUME \A i \in Slots : rxbufstat[i] # "EMPTY" PROVE FALSE
    OBVIOUS
<1> DEFINE Others == Clients \ {c}
           h == [i \in Slots |-> CHOOSE d \in Others : idx[d] = i]
<1>1. \A i \in Slots : h[i] \in Others /\ idx[h[i]] = i
    BY DEF SerialInv, NoLeak, Holding
<1>2. h \in Injection(Slots, Others)
  <2>1. h \in [Slots -> Others]
      BY <1>1
  <2>2. \A i, j \in Slots : h[i] = h[j] => i = j
      BY <1>1
  <2> HIDE DEF h
  <2> QED BY <2>1, <2>2 DEF Injection, IsInjective
<1>3. IsFiniteSet(Others) /\ Cardinality(Others) = Cardinality(Clients) - 1
    BY FS_RemoveElement, PortAssumption
<1>4. Cardinality(Slots) <= Cardinality(Others)
    BY <1>2, <1>3, FS_Injection
<1>5. Cardinality(Slots) = MAXBUF
    BY FS_Interval, PortAssumption
<1>6. Cardinality(Clients) \in Nat
    BY FS_CardinalityType, PortAssumption
<1> QED BY <1>3, <1>4, <1>5, <1>6, PortAssumption DEF Serial

LEMMA SerialInvInit == Init => SerialInv
BY TypeInvInit DEF Init, SerialInv, Locked, IndexExclusive, Busy, NoLeak,
   Handed, Holding

(* A client that has the mutex moves on within its call and leaves its own *)
(* buffer in use.                                                          *)
LEMMA Moves ==
    ASSUME SerialInv, TypeInv', NEW c \in Clients, NEW to \in PC \ {"idle", "store"},
           pc[c] \notin {"idle", "parked"}, pc' = [pc EXCEPT ![c] = to],
           ctx' = ctx \/ to = "parked", idx' = idx,
           \/ rxbufstat' = rxbufstat
           \/ rxbufstat' = [rxbufstat EXCEPT ![idx[c]] = "TX"]
           \/ rxbufstat' = [rxbufstat EXCEPT ![idx[c]] = "COMPLETE"]
    PROVE  SerialInv'
<1> USE DEF SerialInv, TypeInv, TypeOK, Holding
<1>1. \A d \in Clients : d # c => pc[d] \in {"idle", "parked"}
    BY DEF Locked
<1>2. Locked'
    BY <1>1 DEF Locked
<1>3. IndexExclusive'
    BY DEF IndexExclusive
<1>4. Busy'
    BY DEF Busy
<1>5. NoLeak'
  <2> SUFFICES ASSUME NEW i \in Slots, rxbufstat'[i] # "EMPTY"
               PROVE  \E d \in Clients : pc'[d] # "idle" /\ idx[d] = i
      BY DEF NoLeak
  <2>1. CASE i = idx[c]
      BY <2>1
  <2>2. CASE i # idx[c]
      BY <2>2 DEF NoLeak
  <2> QED BY <2>1, <2>2
<1>6. Handed'
    BY <1>1, ZenonT(30) DEF Handed
<1> QED BY <1>2, <1>3, <1>4, <1>5, <1>6

LEMMA SerialInvNext == Serial /\ SerialInv /\ [Next]_vars => SerialInv'
<1> SUFFICES ASSUME Serial, SerialInv, [Next]_vars PROVE SerialInv'
    OBVIOUS
<1>0. TypeInv'
    BY TypeInvNext DEF SerialInv
<1> USE PortAssumption DEF SerialInv, Holding, Serial, TypeInv, TypeOK, Go, Lock,
        Unlock
<1>1. ASSUME NEW c \in Clients, GetIndex(c) PROVE SerialInv'
  <2> PICK k \in Slots : FirstFree(k) /\ Allocate(c, Probe(k))
      BY <1>1 DEF GetIndex
  <2> DEFINE i == Probe(k)
  <2>1. i \in Slots
      BY ProbeIsSlot
  <2>2. rxbufstat[i] = "EMPTY"
      BY <1>1, FreeSlot DEF FirstFree, GetIndex
  <2> HIDE DEF i
  <2>3. /\ rxbufstat' = [rxbufstat EXCEPT ![i] = "ALLOC"]
        /\ idx' = [idx EXCEPT ![c] = i]
      BY DEF i, Allocate
  <2>4. pc[c] = "idle" /\ pc' = [pc EXCEPT ![c] = "alloc"] /\ ctx = None
        /\ ctx' = c /\ hand' = hand
      BY <1>1 DEF GetIndex
  <2>5. \A d \in Clients : pc[d] # "idle" => idx[d] # i
      BY <2>2 DEF Busy
  <2>6. IndexExclusive'
      BY <2>1, <2>3, <2>4, <2>5, SMTT(20) DEF IndexExclusive
  <2>7. Locked' /\ Handed'
      BY <2>3, <2>4, ZenonT(30) DEF Locked, Handed
  <2>8. Busy'
      BY <2>1, <2>3, <2>4, <2>5 DEF Busy
  <2>9. NoLeak'
    <3> SUFFICES ASSUME NEW j \in Slots, rxbufstat'[j] # "EMPTY"
                 PROVE  \E d \in Clients : pc'[d] # "idle" /\ idx'[d] = j
        BY DEF NoLeak
    <3>1. CASE j = i
        BY <2>3, <2>4, <3>1
    <3>2. CASE j # i
        BY <2>3, <2>4, <3>2 DEF NoLeak
    <3> QED BY <3>1, <3>2
  <2> QED BY <1>0, <2>6, <2>7, <2>8, <2>9
<1>2. ASSUME NEW c \in Clients, OutFrame(c) PROVE SerialInv'
  <2> DEFINE to == IF c \in Cyclic THEN "parked" ELSE "check"
  <2>1. pc[c] = "alloc" /\ pc' = [pc EXCEPT ![c] = to] /\ idx' = idx
      BY <1>2 DEF OutFrame
  <2>2. rxbufstat' = [rxbufstat EXCEPT ![idx[c]] = "TX"]
      BY <1>2 DEF OutFrame
  <2>3. ctx' = ctx \/ to = "parked"
      BY <1>2 DEF OutFrame
  <2>4. to \in PC \ {"idle", "store"}
      OBVIOUS
  <2> HIDE DEF to
  <2> QED BY <1>0, <2>1, <2>2, <2>3, <2>4, Moves
<1>3. ASSUME NEW c \in Clients, Wait(c) PROVE SerialInv'
  <2>1. /\ pc[c] = "parked" /\ pc' = [pc EXCEPT ![c] = "check"]
        /\ ctx = None /\ ctx' = c
        /\ UNCHANGED <<rxbufstat, idx, hand>>
      BY <1>3 DEF Wait
  <2>2. Locked' /\ Handed'
      BY <2>1 DEF Locked, Handed
  <2>3. IndexExclusive' /\ Busy' /\ NoLeak'
      BY <2>1 DEF IndexExclusive, Busy, NoLeak
  <2> QED BY <1>0, <2>2, <2>3
<1>4. ASSUME NEW c \in Clients, Check(c) PROVE SerialInv'
  <2>1. CASE rxbufstat[idx[c]] = "RCVD"
      BY <1>0, <1>4, <2>1, Moves DEF Check
  <2>2. CASE rxbufstat[idx[c]] # "RCVD"
      BY <1>0, <1>4, <2>2, Moves DEF Check
  <2> QED BY <2>1, <2>2
<1>5. ASSUME NEW c \in Clients, RecvNothing(c) PROVE SerialInv'
    BY <1>0, <1>5, Moves DEF RecvNothing
<1>6. ASSUME NEW c \in Clients, RecvOwn(c) PROVE SerialInv'
    BY <1>0, <1>6, Moves DEF RecvOwn
<1>7. ASSUME NEW c \in Clients, RecvOther(c) PROVE SerialInv'
  <2>1. /\ pc[c] = "recv" /\ pc' = [pc EXCEPT ![c] = "store"]
        /\ UNCHANGED <<rxbufstat, idx, ctx>>
      BY <1>7 DEF RecvOther
  <2>2. rxbufstat[hand'[c].idx] = "TX" /\ \A d \in Clients : d # c => hand'[d] = hand[d]
      BY <1>7 DEF RecvOther
  <2>3. IndexExclusive' /\ Busy' /\ NoLeak' /\ Locked'
      BY <2>1, SMTT(20) DEF IndexExclusive, Busy, NoLeak, Locked
  <2>4. Handed'
      BY <2>1, <2>2 DEF Handed
  <2> QED BY <1>0, <2>3, <2>4
<1>8. ASSUME NEW c \in Clients, Store(c) PROVE SerialInv'
  <2> DEFINE i == hand[c].idx
  <2>1. /\ pc[c] = "store" /\ pc' = [pc EXCEPT ![c] = "poll"]
        /\ UNCHANGED <<idx, ctx>>
        /\ rxbufstat' = [rxbufstat EXCEPT ![i] = "RCVD"]
      BY <1>8 DEF Store
  <2>2. i \in Slots /\ rxbufstat[i] = "TX"
      BY <2>1, FrameIndex DEF Handed
  <2> HIDE DEF i
  <2>3. IndexExclusive' /\ Locked'
      BY <2>1 DEF IndexExclusive, Locked
  <2>4. Busy'
      BY <2>1, <2>2 DEF Busy
  <2>5. NoLeak'
      BY <2>1, <2>2 DEF NoLeak
  <2>6. Handed'
      BY <2>1, ZenonT(30) DEF Handed, Locked
  <2> QED BY <1>0, <2>3, <2>4, <2>5, <2>6
<1>9. ASSUME NEW c \in Clients, RecvStray(c) PROVE SerialInv'
    BY <1>0, <1>9, Moves DEF RecvStray
<1>10. ASSUME NEW c \in Clients, Again(c) PROVE SerialInv'
    BY <1>0, <1>10, Moves DEF Again
<1>11. ASSUME NEW c \in Clients, Resend(c) PROVE SerialInv'
    BY <1>0, <1>11, Moves DEF Resend
<1>12. ASSUME NEW c \in Clients, GiveUp(c) PROVE SerialInv'
    BY <1>0, <1>12, Moves DEF GiveUp
<1>13. ASSUME NEW c \in Clients, Release(c) PROVE SerialInv'
  <2>1. /\ pc[c] = "done" /\ pc' = [pc EXCEPT ![c] = "idle"]
        /\ idx' = idx /\ hand' = hand
        /\ rxbufstat' = [rxbufstat EXCEPT ![idx[c]] = "EMPTY"]
      BY <1>13 DEF Release
  <2>2. \A d \in Clients : d # c => pc[d] \in {"idle", "parked"}
      BY <2>1 DEF Locked
  <2>3. Locked' /\ Handed'
      BY <2>1, <2>2 DEF Locked, Handed
  <2>4. IndexExclusive'
      BY <2>1 DEF IndexExclusive
  <2>5. Busy'
      BY <2>1 DEF Busy, IndexExclusive
  <2>6. NoLeak'
      BY <2>1 DEF NoLeak
  <2> QED BY <1>0, <2>3, <2>4, <2>5, <2>6
<1>14. CASE UNCHANGED vars
    BY <1>0, <1>14 DEF vars, Locked, IndexExclusive, Busy, NoLeak, Handed
<1> QED
    BY <1>1, <1>2, <1>3, <1>4, <1>5, <1>6, <1>7, <1>8, <1>9, <1>10, <1>11,
       <1>12, <1>13, <1>14 DEF Next, Step, Finished

(* No two calls hold the same index.                                       *)
THEOREM Exclusive == ASSUME Serial PROVE Spec => []IndexExclusive
<1>1. SerialInv => IndexExclusive
    BY DEF SerialInv
<1>2. SerialInv /\ [Next]_vars => SerialInv'
    BY SerialInvNext
<1> QED BY <1>1, <1>2, SerialInvInit, PTL DEF Spec

(* A buffer in use is some call's.                                         *)
THEOREM PoolDoesNotLeak == ASSUME Serial PROVE Spec => []NoLeak
<1>1. SerialInv => NoLeak
    BY DEF SerialInv
<1>2. SerialInv /\ [Next]_vars => SerialInv'
    BY SerialInvNext
<1> QED BY <1>1, <1>2, SerialInvInit, PTL DEF Spec
-----------------------------------------------------------------------------
(***************************************************************************)
(* An answer that another call has stored: a call that holds the mutex and *)
(* has looked at its own buffer finds it unchanged until it looks again.   *)
(* Only a parked call's buffer is filled by somebody else.                 *)
(***************************************************************************)
Looked == {"recv", "store", "poll"}
NothingMissed ==
    \A c \in Clients : pc[c] \in Looked =>
        /\ rxbufstat[idx[c]] # "RCVD"
        /\ pc[c] = "store" => hand[c].idx # idx[c]
UsedInv == SerialInv /\ NothingMissed

LEMMA UsedInvInit == Init => UsedInv
BY SerialInvInit DEF Init, UsedInv, NothingMissed, Looked

(* The calls without the mutex have not looked.                            *)
LEMMA OthersHaveNot ==
    ASSUME SerialInv, NEW c \in Clients, pc[c] \notin {"idle", "parked"} \/ ctx = None
    PROVE  \A d \in Clients \ {c} : pc[d] \in {"idle", "parked"}
BY PortAssumption DEF SerialInv, Locked

LEMMA UsedInvNext == Serial /\ UsedInv /\ [Next]_vars => UsedInv'
<1> SUFFICES ASSUME Serial, UsedInv, [Next]_vars PROVE UsedInv'
    OBVIOUS
<1>0. SerialInv /\ SerialInv'
    BY SerialInvNext DEF UsedInv
<1> SUFFICES NothingMissed'
    BY <1>0 DEF UsedInv
<1>a. TypeOK /\ TypeOK'
    BY <1>0 DEF SerialInv, TypeInv
<1>1. CASE UNCHANGED vars
    BY <1>1 DEF vars, UsedInv, NothingMissed
<1>2. CASE Finished
    BY <1>2 DEF Finished, vars, UsedInv, NothingMissed
<1>3. ASSUME NEW c \in Clients, Step(c) PROVE NothingMissed'
  <2>1. \A d \in Clients \ {c} : pc[d] \in {"idle", "parked"}
    <3>1. pc[c] \notin {"idle", "parked"} \/ ctx = None
        BY <1>3 DEF Step, GetIndex, OutFrame, Wait, Check, RecvNothing, RecvOwn,
           RecvOther, Store, RecvStray, Again, Resend, GiveUp, Release, Go,
           Lock, Serial
    <3> QED BY <1>0, <3>1, OthersHaveNot
  <2>2. /\ \A d \in Clients \ {c} : pc'[d] = pc[d]
        /\ pc'[c] \in Looked =>
              /\ rxbufstat'[idx'[c]] # "RCVD"
              /\ pc'[c] = "store" => hand'[c].idx # idx'[c]
    <3> USE <1>a DEF TypeOK, UsedInv, NothingMissed, Looked, Go
    <3>1. CASE GetIndex(c) \/ OutFrame(c) \/ Wait(c) \/ Again(c) \/ Resend(c)
               \/ GiveUp(c) \/ Release(c)
      <4>1. \E to \in {"alloc", "parked", "check", "done", "idle"} :
                pc' = [pc EXCEPT ![c] = to]
          BY <3>1 DEF GetIndex, OutFrame, Wait, Again, Resend, GiveUp, Release
      <4> QED BY <4>1
    <3>2. CASE Check(c)
        BY <3>2 DEF Check
    <3>3. CASE RecvNothing(c) \/ RecvStray(c)
        BY <3>3 DEF RecvNothing, RecvStray
    <3>4. CASE RecvOwn(c)
        BY <3>4 DEF RecvOwn
    <3>5. CASE RecvOther(c)
        BY <3>5 DEF RecvOther
    <3>6. CASE Store(c)
        BY <3>6 DEF Store
    <3> QED BY <1>3, <3>1, <3>2, <3>3, <3>4, <3>5, <3>6 DEF Step
  <2> QED BY <2>1, <2>2 DEF NothingMissed, Looked
<1> QED BY <1>1, <1>2, <1>3 DEF Next

(* No call gives up while its answer lies in its buffer, stored there by   *)
(* another call.                                                           *)
THEOREM AnswerIsUsed == ASSUME Serial PROVE Spec => StoredAnswerIsUsed
<1>1. UsedInv /\ [Next]_vars =>
          [\A c \in Clients : GiveUp(c) => rxbufstat[idx[c]] # "RCVD"]_vars
    BY DEF UsedInv, NothingMissed, Looked, GiveUp, Go
<1>2. UsedInv /\ [Next]_vars => UsedInv'
    BY UsedInvNext
<1> QED BY <1>1, <1>2, UsedInvInit, PTL DEF Spec, StoredAnswerIsUsed
-----------------------------------------------------------------------------
(***************************************************************************)
(* How stale an answer that the port accepts can be (StaleGap).            *)
(***************************************************************************)
Lap == MAXBUF - Cardinality(Clients) + 1

(* The looks ecx_getindex has taken since it looked at buffer i last.      *)
Dist(i) == IF i <= lastidx THEN lastidx - i ELSE lastidx - i + MAXBUF

(* The calls older than request r, whose buffers have not been looked at   *)
(* since i was: the only ones that can make ecx_getindex skip a buffer     *)
(* before it comes to i again, and each can do so once.                    *)
Older(i, r) ==
    {d \in Clients : Holding(d) /\ req[d] < r /\ Dist(idx[d]) > Dist(i)}

(* What is known of request r, made with buffer i, while r is not a lap    *)
(* old: the looks that were not allocations, and those that can still be   *)
(* none, are fewer than the clients.                                       *)
Recent(i, r) ==
    /\ Dist(i) - (nreq - r) + Cardinality(Older(i, r)) <= Cardinality(Clients) - 1
    /\ \A d \in Clients : Holding(d) /\ req[d] > r => Dist(idx[d]) < Dist(i)

Dated(i, r) ==
    /\ r \in 1 .. nreq
    /\ nreq - r >= Lap \/ Recent(i, r)
    /\ \A d \in Clients : Holding(d) /\ req[d] = r => idx[d] = i
    /\ \A d \in Clients : Holding(d) /\ idx[d] = i => req[d] = r \/ req[d] - r >= Lap

IsAnswer(f) ==
    /\ f # NoFrame
    /\ \/ f \in net
       \/ \E c \in Clients : f \in {hand[c], got[c]}
       \/ \E i \in Slots : f = rxbuf[i]

HoldersDated == \A c \in Clients : Holding(c) => Dated(idx[c], req[c])
AnswersDated == \A f \in Frame : IsAnswer(f) => Dated(f.idx, f.req)
Placed ==
    /\ \A i \in Slots : rxbuf[i] # NoFrame => rxbuf[i].idx = i
    /\ \A c \in Clients :
          got[c] # NoFrame => pc[c] = "done" /\ got[c].idx = idx[c]

AgeInv == SerialInv /\ HoldersDated /\ AnswersDated /\ Placed

-----------------------------------------------------------------------------
USE DEF Slots, BufStat, PC

(* Arithmetic of the ring.                                                 *)
LEMMA Wraps ==
    ASSUME NEW x \in 0 .. 2 * MAXBUF - 1
    PROVE  x % MAXBUF = IF x < MAXBUF THEN x ELSE x - MAXBUF
BY PortAssumption

LEMMA ProbeValue ==
    ASSUME TypeOK, NEW k \in Slots
    PROVE  Probe(k) = IF lastidx + 1 + k < MAXBUF THEN lastidx + 1 + k
                      ELSE lastidx + 1 + k - MAXBUF
<1> DEFINE x == lastidx + 1 + k
<1>1. x \in 0 .. 2 * MAXBUF - 1
    BY PortAssumption DEF TypeOK
<1> HIDE DEF x
<1>2. x % MAXBUF = IF x < MAXBUF THEN x ELSE x - MAXBUF
    BY <1>1, Wraps
<1>3. Probe(k) = x % MAXBUF
    BY DEF x, Probe
<1>4. Probe(k) = IF x < MAXBUF THEN x ELSE x - MAXBUF
    BY <1>2, <1>3
<1> QED BY <1>4, PortAssumption DEF x, TypeOK

LEMMA DistType ==
    ASSUME TypeOK, NEW i \in Slots
    PROVE  Dist(i) \in 0 .. MAXBUF - 1
BY PortAssumption DEF Dist, TypeOK

LEMMA DistInjective ==
    ASSUME TypeOK, NEW i \in Slots, NEW j \in Slots, Dist(i) = Dist(j)
    PROVE  i = j
BY PortAssumption DEF Dist, TypeOK

LEMMA ProbeDist ==
    ASSUME TypeOK, NEW k \in Slots
    PROVE  Probe(k) \in Slots /\ Dist(Probe(k)) = MAXBUF - 1 - k
<1>2. Probe(k) = IF lastidx + 1 + k < MAXBUF THEN lastidx + 1 + k
                 ELSE lastidx + 1 + k - MAXBUF
    BY ProbeValue
<1> QED BY <1>2, PortAssumption DEF Dist, TypeOK

(* The distances after an allocation at the k-th look.                     *)
LEMMA DistMoves ==
    ASSUME TypeOK, NEW k \in Slots, lastidx' = Probe(k), NEW i \in Slots
    PROVE  Dist(i)' = IF Dist(i) + k + 1 < MAXBUF THEN Dist(i) + k + 1
                      ELSE Dist(i) + k + 1 - MAXBUF
<1>2. lastidx' = IF lastidx + 1 + k < MAXBUF THEN lastidx + 1 + k
                 ELSE lastidx + 1 + k - MAXBUF
    BY ProbeValue
<1> QED BY <1>2, PortAssumption DEF Dist, TypeOK

-----------------------------------------------------------------------------
LEMMA ClientsCount == IsFiniteSet(Clients) /\ Cardinality(Clients) \in Nat
BY PortAssumption, FS_CardinalityType

LEMMA OlderCount ==
    ASSUME NEW i, NEW r
    PROVE  IsFiniteSet(Older(i, r)) /\ Cardinality(Older(i, r)) \in Nat
BY ClientsCount, FS_Subset, FS_CardinalityType DEF Older

(* The older calls whose buffers are among the first m looked at.          *)
Skipped(i, r, m) == {d \in Older(i, r) : Dist(idx[d]) >= MAXBUF - m}

LEMMA SkippedCount ==
    ASSUME SerialInv, NEW i \in Slots, NEW r, Dated(i, r), Recent(i, r),
           NEW m \in 0 .. MAXBUF - 1, Dist(i) < MAXBUF - m,
           \A n \in 0 .. m - 1 : rxbufstat[Probe(n)] # "EMPTY"
    PROVE  /\ IsFiniteSet(Skipped(i, r, m))
           /\ Cardinality(Skipped(i, r, m)) \in Nat
           /\ m <= Cardinality(Skipped(i, r, m))
<1> DEFINE S == Skipped(i, r, m)
           h == [n \in 0 .. m - 1 |->
                    CHOOSE d \in Clients : Holding(d) /\ idx[d] = Probe(n)]
<1>0. TypeOK
    BY DEF SerialInv, TypeInv
<1>1. IsFiniteSet(S) /\ Cardinality(S) \in Nat
    BY OlderCount, FS_Subset, FS_CardinalityType DEF Skipped
<1>2. \A n \in 0 .. m - 1 : /\ n \in Slots
                            /\ h[n] \in Clients /\ Holding(h[n])
                            /\ idx[h[n]] = Probe(n)
  <2> SUFFICES ASSUME NEW n \in 0 .. m - 1
               PROVE  n \in Slots /\ \E d \in Clients : Holding(d) /\ idx[d] = Probe(n)
      OBVIOUS
  <2>1. n \in Slots
      BY PortAssumption
  <2>2. Probe(n) \in Slots
      BY <1>0, <2>1, ProbeDist
  <2> QED BY <2>1, <2>2 DEF SerialInv, NoLeak
<1> HIDE DEF h
<1>3. ASSUME NEW n \in 0 .. m - 1
      PROVE  h[n] \in S
  <2> DEFINE d == h[n]
  <2>1. Dist(idx[d]) = MAXBUF - 1 - n /\ MAXBUF - 1 - n >= MAXBUF - m
      BY <1>0, <1>2, ProbeDist, PortAssumption
  <2>2. Dist(idx[d]) > Dist(i)
      BY <2>1, <1>0, DistType, PortAssumption
  <2>6. idx[d] \in Slots /\ Dist(idx[d]) \in Int /\ Dist(i) \in Int
    <3>1. idx[d] \in Slots
        BY <1>0, <1>2 DEF TypeOK
    <3> QED BY <3>1, <1>0, DistType
  <2>3. ~(req[d] > r)
      BY <1>2, <2>2, <2>6 DEF Recent
  <2>4. req[d] # r
      BY <1>2, <2>2, <2>6 DEF Dated
  <2>5. req[d] < r
      BY <1>0, <1>2, <2>3, <2>4, PortAssumption, SMTT(20) DEF Dated, TypeOK
  <2> QED BY <1>2, <2>1, <2>2, <2>5 DEF Skipped, Older
<1>4. h \in Injection(0 .. m - 1, S)
  <2>1. h \in [0 .. m - 1 -> S]
      BY <1>3 DEF h
  <2>2. \A n, q \in 0 .. m - 1 : h[n] = h[q] => n = q
    <3> SUFFICES ASSUME NEW n \in 0 .. m - 1, NEW q \in 0 .. m - 1, h[n] = h[q]
                 PROVE  n = q
        OBVIOUS
    <3>1. MAXBUF - 1 - n = MAXBUF - 1 - q
        BY <1>0, <1>2, ProbeDist
    <3> QED BY <3>1, PortAssumption
  <2> QED BY <2>1, <2>2 DEF Injection, IsInjective
<1>5. Cardinality(0 .. m - 1) <= Cardinality(S)
    BY <1>1, <1>4, FS_Injection
<1>6. Cardinality(0 .. m - 1) = m
    BY FS_Interval, PortAssumption
<1> QED BY <1>1, <1>5, <1>6
-----------------------------------------------------------------------------
(* A step that allocates nothing: no new call, no new distance.            *)
LEMMA DatedKeeps ==
    ASSUME SerialInv, NEW i \in Slots, NEW r, Dated(i, r),
           idx' = idx, req' = req, nreq' = nreq, lastidx' = lastidx,
           \A d \in Clients : Holding(d)' => Holding(d)
    PROVE  Dated(i, r)'
<1>1. \A j : Dist(j)' = Dist(j)
    BY DEF Dist
<1>2. Recent(i, r) => Recent(i, r)'
  <2>1. Older(i, r)' \subseteq Older(i, r)
      BY <1>1 DEF Older
  <2>2. /\ Cardinality(Older(i, r)') <= Cardinality(Older(i, r))
        /\ Cardinality(Older(i, r)') \in Nat /\ Cardinality(Older(i, r)) \in Nat
      BY <2>1, OlderCount, FS_Subset, FS_CardinalityType
  <2>3. r \in Nat /\ nreq \in Nat /\ Dist(i) \in Int
      BY DistType, PortAssumption DEF Dated, SerialInv, TypeInv, TypeOK
  <2>4. Cardinality(Older(i, r))' = Cardinality(Older(i, r)')
      OBVIOUS
  <2>5. Cardinality(Clients) \in Nat
      BY ClientsCount
  <2>6. ASSUME Recent(i, r)
        PROVE  Dist(i)' - (nreq' - r) + Cardinality(Older(i, r)')
                   <= Cardinality(Clients) - 1
      BY <1>1, <2>2, <2>3, <2>5, <2>6 DEF Recent
  <2> QED BY <1>1, <2>6 DEF Recent
<1> QED BY <1>2 DEF Dated

(* A step that begins a call: every earlier request grows older by one.    *)
LEMMA DatedAges ==
    ASSUME SerialInv, SerialInv', NEW i \in Slots, NEW r, Dated(i, r),
           NEW c \in Clients, ~Holding(c), NEW k \in Slots,
           \A n \in 0 .. k - 1 : rxbufstat[Probe(n)] # "EMPTY",
           lastidx' = Probe(k), idx' = [idx EXCEPT ![c] = Probe(k)],
           nreq' = nreq + 1, req' = [req EXCEPT ![c] = nreq + 1],
           Holding(c)', \A d \in Clients \ {c} : Holding(d)' = Holding(d)
    PROVE  Dated(i, r)'
<1>0. TypeOK /\ TypeOK'
    BY DEF SerialInv, TypeInv
<1>1. /\ r \in 1 .. nreq /\ nreq \in Nat /\ nreq' = nreq + 1
      /\ r \in 1 .. nreq' /\ MAXBUF \in Nat \ {0} /\ k \in Nat /\ k < MAXBUF
  <2>1. r \in 1 .. nreq /\ nreq \in 0 .. MaxReq
      BY <1>0 DEF Dated, TypeOK
  <2> QED BY <2>1, PortAssumption
<1>2. /\ idx'[c] = Probe(k) /\ req'[c] = nreq + 1
      /\ \A d \in Clients \ {c} : idx'[d] = idx[d] /\ req'[d] = req[d]
    BY <1>0 DEF TypeOK
<1>3. Dist(i) \in 0 .. MAXBUF - 1 /\ Lap \in Int
    BY <1>0, <1>1, DistType, ClientsCount DEF Lap
<1>4. \A d \in Clients : idx[d] \in Slots /\ idx'[d] \in Slots /\ req[d] \in Nat
  <2>1. \A d \in Clients : idx[d] \in Slots /\ idx'[d] \in Slots
      BY <1>0 DEF TypeOK
  <2>2. \A d \in Clients : req[d] \in 0 .. MaxReq
      BY <1>0 DEF TypeOK
  <2> QED BY <2>1, <2>2, PortAssumption
<1>5. \A d \in Clients : Holding(d)' /\ req'[d] = r => idx'[d] = i
    BY <1>1, <1>2 DEF Dated
<1>6. nreq - r >= Lap => nreq' - r >= Lap
    BY <1>1, <1>3
<1>7. ASSUME Recent(i, r), Dist(i) + k + 1 >= MAXBUF
      PROVE  nreq' - r >= Lap
  <2> DEFINE m == MAXBUF - 1 - Dist(i)
  <2>1. m \in 0 .. MAXBUF - 1 /\ m <= k /\ Dist(i) < MAXBUF - m
      BY <1>1, <1>3, <1>7
  <2>2. \A n \in 0 .. m - 1 : rxbufstat[Probe(n)] # "EMPTY"
      BY <1>1, <2>1
  <2> HIDE DEF m
  <2>3. /\ IsFiniteSet(Skipped(i, r, m))
        /\ Cardinality(Skipped(i, r, m)) \in Nat
        /\ m <= Cardinality(Skipped(i, r, m))
      BY <1>7, <2>1, <2>2, SkippedCount
  <2>4. /\ Cardinality(Skipped(i, r, m)) <= Cardinality(Older(i, r))
        /\ Cardinality(Older(i, r)) \in Nat
      BY OlderCount, FS_Subset DEF Skipped
  <2>5. Dist(i) - (nreq - r) + Cardinality(Older(i, r)) <= Cardinality(Clients) - 1
      BY <1>7 DEF Recent
  <2>6. m = MAXBUF - 1 - Dist(i)
      BY DEF m
  <2> QED BY <1>1, <1>3, <2>1, <2>3, <2>4, <2>5, <2>6, ClientsCount DEF Lap
<1>8. ASSUME Recent(i, r), Dist(i) + k + 1 < MAXBUF
      PROVE  Recent(i, r)'
  <2> DEFINE S == Skipped(i, r, k)
  <2>1. Dist(i)' = Dist(i) + k + 1
      BY <1>0, <1>8, DistMoves
  <2>2. \A d \in Clients \ {c} :
            /\ Dist(idx[d]) \in 0 .. MAXBUF - 1
            /\ Dist(idx[d])' = IF Dist(idx[d]) + k + 1 < MAXBUF
                                THEN Dist(idx[d]) + k + 1
                                ELSE Dist(idx[d]) + k + 1 - MAXBUF
    <3> SUFFICES ASSUME NEW d \in Clients \ {c}
                 PROVE  /\ Dist(idx[d]) \in 0 .. MAXBUF - 1
                        /\ Dist(idx[d])' = IF Dist(idx[d]) + k + 1 < MAXBUF
                                            THEN Dist(idx[d]) + k + 1
                                            ELSE Dist(idx[d]) + k + 1 - MAXBUF
        OBVIOUS
    <3> PICK j \in Slots : j = idx[d] /\ j = idx'[d]
        BY <1>2, <1>4
    <3>1. Dist(idx[d])' = Dist(j)' /\ Dist(idx[d]) = Dist(j)
        BY DEF Dist
    <3> QED BY <3>1, <1>0, DistMoves, DistType
  <2>3. Dist(idx[c])' = 0
    <3>1. idx'[c] = lastidx'
        BY <1>2
    <3> QED BY <3>1, <1>0 DEF Dist, TypeOK
  <2>4. \A d \in Clients : Holding(d)' /\ req'[d] > r => Dist(idx[d])' < Dist(i)'
      BY <1>1, <1>2, <1>3, <1>8, <2>1, <2>2, <2>3 DEF Recent
  <2>5. Older(i, r)' \subseteq Older(i, r) \ S
    <3> SUFFICES ASSUME NEW d \in Clients, Holding(d)', req'[d] < r,
                        Dist(idx[d])' > Dist(i)'
                 PROVE  d \in Older(i, r) \ S
        BY DEF Older
    <3>1. d # c
        BY <1>1, <1>2, <1>4
    <3>2. Dist(idx[d]) + k + 1 < MAXBUF
        BY <3>1, <1>1, <1>3, <2>1, <2>2
    <3>3. Dist(idx[d]) > Dist(i) /\ ~(Dist(idx[d]) >= MAXBUF - k)
        BY <3>1, <3>2, <1>1, <1>3, <2>1, <2>2
    <3> QED BY <3>1, <3>3, <1>2 DEF Older, Skipped
  <2>6. Dist(i) < MAXBUF - k
      BY <1>1, <1>3, <1>8
  <2>7. IsFiniteSet(S) /\ Cardinality(S) \in Nat /\ k <= Cardinality(S)
      BY <1>1, <1>8, <2>6, SkippedCount
  <2>8. /\ Cardinality(Older(i, r)') <= Cardinality(Older(i, r)) - k
        /\ Cardinality(Older(i, r)') \in Nat /\ Cardinality(Older(i, r)) \in Nat
    <3>1. S \subseteq Older(i, r)
        BY DEF Skipped
    <3> HIDE DEF S
    <3>2. /\ IsFiniteSet(Older(i, r)) /\ Cardinality(Older(i, r)) \in Nat
          /\ IsFiniteSet(Older(i, r) \ S)
        BY OlderCount, FS_Subset
    <3>3. Cardinality(Older(i, r) \ S) = Cardinality(Older(i, r)) - Cardinality(S)
      <4>1. Older(i, r) \cap S = S
          BY <3>1
      <4> QED BY <3>2, <4>1, FS_Difference, <2>7
    <3>4. /\ Cardinality(Older(i, r)') <= Cardinality(Older(i, r) \ S)
          /\ Cardinality(Older(i, r)') \in Nat
        BY <2>5, <3>2, FS_Subset, FS_CardinalityType
    <3> QED BY <2>7, <3>2, <3>3, <3>4, FS_CardinalityType
  <2>9. Dist(i)' - (nreq' - r) + Cardinality(Older(i, r)') <= Cardinality(Clients) - 1
    <3>1. Dist(i) - (nreq - r) + Cardinality(Older(i, r)) <= Cardinality(Clients) - 1
        BY <1>8 DEF Recent
    <3> QED BY <1>1, <1>3, <2>1, <2>8, <3>1, ClientsCount
  <2> QED BY <2>4, <2>9 DEF Recent
<1>9. \A d \in Clients : Holding(d)' /\ idx'[d] = i => req'[d] = r \/ req'[d] - r >= Lap
  <2> SUFFICES ASSUME NEW d \in Clients, Holding(d)', idx'[d] = i
               PROVE  req'[d] = r \/ req'[d] - r >= Lap
      OBVIOUS
  <2>1. CASE d # c
      BY <2>1, <1>2 DEF Dated
  <2>2. CASE d = c
    <3>1. Dist(i) + k + 1 = MAXBUF
      <4>1. i = Probe(k)
          BY <1>2, <2>2
      <4> QED BY <4>1, <1>0, <1>1, ProbeDist
    <3>2. nreq' - r >= Lap
        BY <3>1, <1>6, <1>7, <1>1 DEF Dated
    <3> QED BY <3>2, <2>2, <1>1, <1>2
  <2> QED BY <2>1, <2>2
<1>10. nreq' - r >= Lap \/ Recent(i, r)'
  <2>1. CASE nreq - r >= Lap
      BY <2>1, <1>6
  <2>2. CASE Recent(i, r) /\ Dist(i) + k + 1 >= MAXBUF
      BY <2>2, <1>7
  <2>3. CASE Recent(i, r) /\ Dist(i) + k + 1 < MAXBUF
      BY <2>3, <1>8
  <2> QED BY <2>1, <2>2, <2>3, <1>1, <1>3 DEF Dated
<1> QED BY <1>1, <1>5, <1>9, <1>10 DEF Dated, Lap

(* The new request itself: no look since, and every other call is older.   *)
LEMMA DatedBegins ==
    ASSUME SerialInv, SerialInv', HoldersDated, NEW c \in Clients,
           NEW k \in Slots, NEW i \in Slots, i = Probe(k), NEW r, r = nreq + 1,
           lastidx' = Probe(k), idx' = [idx EXCEPT ![c] = Probe(k)],
           nreq' = nreq + 1, req' = [req EXCEPT ![c] = nreq + 1],
           Holding(c)', \A d \in Clients \ {c} : Holding(d)' = Holding(d)
    PROVE  Dated(i, r)'
<1>0. TypeOK /\ TypeOK'
    BY DEF SerialInv, TypeInv
<1>1. nreq \in Nat /\ r \in 1 .. nreq'
    BY <1>0, PortAssumption DEF TypeOK
<1>2. /\ idx'[c] = i /\ req'[c] = r
      /\ \A d \in Clients \ {c} : idx'[d] = idx[d] /\ req'[d] = req[d]
    BY <1>0 DEF TypeOK
<1>3. \A d \in Clients \ {c} : Holding(d)' => req'[d] \in Nat /\ req'[d] < r
    BY <1>1, <1>2 DEF HoldersDated, Dated
<1>4. Dist(i)' = 0
    BY <1>0 DEF Dist, TypeOK
<1>5. /\ Cardinality(Older(i, r)') <= Cardinality(Clients) - 1
      /\ Cardinality(Older(i, r)') \in Nat
  <2>1. Older(i, r)' \subseteq Clients \ {c}
    <3>1. \A d \in Older(i, r)' : d \in Clients /\ req'[d] < r
        BY DEF Older
    <3> QED BY <3>1, <1>1, <1>2
  <2>2. /\ IsFiniteSet(Clients \ {c})
        /\ Cardinality(Clients \ {c}) = Cardinality(Clients) - 1
      BY FS_RemoveElement, ClientsCount
  <2> QED BY <2>1, <2>2, FS_Subset, FS_CardinalityType
<1>6. Recent(i, r)'
  <2>1. Dist(i)' - (nreq' - r) + Cardinality(Older(i, r)') <= Cardinality(Clients) - 1
      BY <1>1, <1>4, <1>5, ClientsCount
  <2>2. \A d \in Clients : Holding(d)' => ~(req'[d] > r)
      BY <1>1, <1>2, <1>3
  <2> QED BY <2>1, <2>2 DEF Recent
<1>7. \A d \in Clients : Holding(d)' /\ req'[d] = r => idx'[d] = i
    BY <1>1, <1>2, <1>3
<1>8. \A d \in Clients : Holding(d)' /\ idx'[d] = i => req'[d] = r
    BY <1>2 DEF SerialInv, IndexExclusive
<1> QED BY <1>1, <1>6, <1>7, <1>8 DEF Dated
-----------------------------------------------------------------------------
LEMMA AgeInvInit == Init => AgeInv
BY SerialInvInit, PortAssumption DEF Init, AgeInv, HoldersDated, AnswersDated,
   Placed, IsAnswer, Holding

(* Answers keep the date of their request, whoever holds them.             *)
LEMMA AgeKeeps ==
    ASSUME AgeInv, SerialInv', idx' = idx, req' = req, nreq' = nreq,
           lastidx' = lastidx, \A d \in Clients : Holding(d)' => Holding(d),
           Placed',
           \A f \in Frame : IsAnswer(f)' =>
               \/ IsAnswer(f)
               \/ \E d \in Clients : Holding(d) /\ f.idx = idx[d] /\ f.req = req[d]
    PROVE  AgeInv'
<1>0. SerialInv /\ TypeOK
    BY DEF AgeInv, SerialInv, TypeInv
<1>1. HoldersDated'
  <2> SUFFICES ASSUME NEW d \in Clients, Holding(d)'
               PROVE  Dated(idx[d], req[d])'
      BY DEF HoldersDated
  <2> PICK i \in Slots, r \in 0 .. MaxReq : i = idx[d] /\ r = req[d]
      BY <1>0 DEF TypeOK
  <2>1. Dated(i, r)
      BY DEF AgeInv, HoldersDated
  <2>2. Dated(i, r)'
      BY <1>0, <2>1, DatedKeeps
  <2> QED BY <2>2 DEF Dated, Recent, Older, Dist
<1>2. AnswersDated'
  <2> SUFFICES ASSUME NEW f \in Frame, IsAnswer(f)'
               PROVE  Dated(f.idx, f.req)'
      BY DEF AnswersDated
  <2>1. Dated(f.idx, f.req)
      BY DEF AgeInv, HoldersDated, AnswersDated
  <2>2. f.idx \in Slots
      BY DEF Frame
  <2> QED BY <1>0, <2>1, <2>2, DatedKeeps
<1> QED BY <1>1, <1>2 DEF AgeInv

LEMMA AgeBegins ==
    ASSUME Serial, AgeInv, SerialInv', NEW c \in Clients, GetIndex(c)
    PROVE  AgeInv'
<1>0. SerialInv /\ TypeOK /\ TypeOK'
    BY DEF AgeInv, SerialInv, TypeInv
<1> PICK k \in Slots : FirstFree(k) /\ Allocate(c, Probe(k))
    BY DEF GetIndex
<1>1. \A n \in 0 .. k - 1 : rxbufstat[Probe(n)] # "EMPTY"
    BY DEF FirstFree
<1>2. /\ lastidx' = Probe(k) /\ idx' = [idx EXCEPT ![c] = Probe(k)]
      /\ nreq' = nreq + 1 /\ req' = [req EXCEPT ![c] = nreq + 1]
      /\ UNCHANGED <<net, hand, got, rxbuf>>
    BY DEF GetIndex, Allocate
<1>3. /\ ~Holding(c) /\ Holding(c)'
      /\ \A d \in Clients \ {c} : Holding(d)' = Holding(d)
      /\ pc' = [pc EXCEPT ![c] = "alloc"]
    BY <1>0 DEF GetIndex, Go, Holding, TypeOK
<1>4. HoldersDated'
  <2> SUFFICES ASSUME NEW d \in Clients, Holding(d)'
               PROVE  Dated(idx[d], req[d])'
      BY DEF HoldersDated
  <2> PICK i \in Slots, r \in 0 .. MaxReq : i = idx'[d] /\ r = req'[d]
      BY <1>0 DEF TypeOK
  <2>1. Dated(i, r)'
    <3>1. CASE d = c
      <4>1. i = Probe(k) /\ r = nreq + 1
          BY <1>0, <1>2, <3>1 DEF TypeOK
      <4> QED BY <1>0, <1>2, <1>3, <4>1, DatedBegins DEF AgeInv
    <3>2. CASE d # c
      <4>1. Dated(i, r)
          BY <1>0, <1>2, <1>3, <3>2 DEF AgeInv, HoldersDated, TypeOK
      <4> QED BY <1>0, <1>1, <1>2, <1>3, <4>1, DatedAges
    <3> QED BY <3>1, <3>2
  <2> QED BY <2>1 DEF Dated, Recent, Older, Dist
<1>5. AnswersDated'
  <2> SUFFICES ASSUME NEW f \in Frame, IsAnswer(f)'
               PROVE  Dated(f.idx, f.req)'
      BY DEF AnswersDated
  <2>1. IsAnswer(f)
      BY <1>2 DEF IsAnswer
  <2>2. Dated(f.idx, f.req) /\ f.idx \in Slots
      BY <2>1 DEF AgeInv, AnswersDated, Frame
  <2> QED BY <1>0, <1>1, <1>2, <1>3, <2>2, DatedAges
<1>6. Placed'
    BY <1>0, <1>2, <1>3 DEF AgeInv, Placed, TypeOK, Holding
<1> QED BY <1>4, <1>5, <1>6 DEF AgeInv

LEMMA AgeInvNext == Serial /\ AgeInv /\ [Next]_vars => AgeInv'
<1> SUFFICES ASSUME Serial, AgeInv, [Next]_vars PROVE AgeInv'
    OBVIOUS
<1>0. SerialInv /\ SerialInv' /\ TypeOK /\ TypeOK'
    BY SerialInvNext DEF AgeInv, SerialInv, TypeInv
<1>1. ASSUME NEW c \in Clients, GetIndex(c) PROVE AgeInv'
    BY <1>0, <1>1, AgeBegins
<1>2. ASSUME NEW c \in Clients, OutFrame(c) PROVE AgeInv'
  <2>1. /\ pc[c] = "alloc" /\ pc'[c] # "idle"
        /\ \A d \in Clients \ {c} : pc'[d] = pc[d]
        /\ UNCHANGED <<rxbuf, lastidx, idx, req, hand, got, nreq>>
      BY <1>0, <1>2 DEF OutFrame, Go, TypeOK
  <2>2. Placed'
      BY <2>1 DEF AgeInv, Placed
  <2>3. \A f \in Frame : IsAnswer(f)' =>
            \/ IsAnswer(f)
            \/ f.idx = idx[c] /\ f.req = req[c]
    <3>1. \A f \in net' :
              \/ f \in net
              \/ f.idx = idx[c] /\ f.req = req[c]
        BY <1>2 DEF OutFrame
    <3> QED BY <2>1, <3>1 DEF IsAnswer
  <2> QED BY <1>0, <2>1, <2>2, <2>3, AgeKeeps DEF Holding
<1>3. ASSUME NEW c \in Clients, Check(c) PROVE AgeInv'
  <2>1. /\ pc[c] = "check" /\ pc'[c] # "idle"
        /\ \A d \in Clients \ {c} : pc'[d] = pc[d]
        /\ UNCHANGED <<rxbuf, lastidx, idx, req, hand, net, nreq>>
        /\ \/ got' = got
           \/ /\ pc'[c] = "done"
              /\ got' = [got EXCEPT ![c] = rxbuf[idx[c]]]
    <3>1. /\ pc[c] = "check"
          /\ \/ pc' = [pc EXCEPT ![c] = "recv"] /\ got' = got
             \/ /\ pc' = [pc EXCEPT ![c] = "done"]
                /\ got' = [got EXCEPT ![c] = rxbuf[idx[c]]]
        BY <1>3 DEF Check, Go
    <3>2. UNCHANGED <<rxbuf, lastidx, idx, req, hand, net, nreq>>
        BY <1>3 DEF Check
    <3> QED BY <1>0, <3>1, <3>2 DEF TypeOK
  <2>2. Placed'
    <3>1. rxbuf[idx[c]] # NoFrame => rxbuf[idx[c]].idx = idx[c]
        BY <1>0 DEF AgeInv, Placed, TypeOK
    <3>2. CASE got' = got
        BY <2>1, <3>2 DEF AgeInv, Placed
    <3>3. CASE pc'[c] = "done" /\ got' = [got EXCEPT ![c] = rxbuf[idx[c]]]
        BY <1>0, <2>1, <3>1, <3>3 DEF AgeInv, Placed, TypeOK
    <3> QED BY <2>1, <3>2, <3>3
  <2>3. \A f \in Frame : IsAnswer(f)' => IsAnswer(f)
      BY <1>0, <2>1 DEF IsAnswer, TypeOK
  <2> QED BY <1>0, <2>1, <2>2, <2>3, AgeKeeps DEF Holding
<1>4. ASSUME NEW c \in Clients, RecvOwn(c) PROVE AgeInv'
  <2> PICK f \in net : /\ f.idx = idx[c] /\ net' = net \ {f}
                       /\ rxbuf' = [rxbuf EXCEPT ![idx[c]] = f]
                       /\ got' = [got EXCEPT ![c] = f]
      BY <1>4 DEF RecvOwn
  <2>1. /\ pc[c] = "recv" /\ pc'[c] = "done"
        /\ \A d \in Clients \ {c} : pc'[d] = pc[d]
        /\ UNCHANGED <<lastidx, idx, req, hand, nreq>>
      BY <1>0, <1>4 DEF RecvOwn, Go, TypeOK
  <2>2. Placed'
      BY <1>0, <2>1 DEF AgeInv, Placed, TypeOK
  <2>3. \A g \in Frame : IsAnswer(g)' => IsAnswer(g)
      BY <1>0, <2>1 DEF IsAnswer, TypeOK
  <2> QED BY <1>0, <2>1, <2>2, <2>3, AgeKeeps DEF Holding
<1>5. ASSUME NEW c \in Clients, RecvOther(c) \/ RecvStray(c) PROVE AgeInv'
  <2> PICK f \in net : /\ net' = net \ {f}
                       /\ hand' = hand \/ hand' = [hand EXCEPT ![c] = f]
      BY <1>5 DEF RecvOther, RecvStray
  <2>1. /\ pc[c] = "recv" /\ pc'[c] # "idle"
        /\ \A d \in Clients \ {c} : pc'[d] = pc[d]
        /\ UNCHANGED <<rxbuf, got, lastidx, idx, req, nreq>>
      BY <1>0, <1>5 DEF RecvOther, RecvStray, Go, TypeOK
  <2>2. Placed'
      BY <2>1 DEF AgeInv, Placed
  <2>3. \A g \in Frame : IsAnswer(g)' => IsAnswer(g)
      BY <1>0, <2>1, ZenonT(30) DEF IsAnswer, TypeOK
  <2> QED BY <1>0, <2>1, <2>2, <2>3, AgeKeeps DEF Holding
<1>6. ASSUME NEW c \in Clients, Store(c) PROVE AgeInv'
  <2>1. /\ pc[c] = "store" /\ pc'[c] = "poll"
        /\ \A d \in Clients \ {c} : pc'[d] = pc[d]
        /\ UNCHANGED <<net, got, lastidx, idx, req, nreq>>
        /\ rxbuf' = [rxbuf EXCEPT ![hand[c].idx] = hand[c]]
        /\ hand' = [hand EXCEPT ![c] = NoFrame]
      BY <1>0, <1>6 DEF Store, Go, TypeOK
  <2>2. hand[c].idx \in Slots
      BY <1>0, FrameIndex DEF TypeOK
  <2>3. Placed'
      BY <1>0, <2>1, <2>2 DEF AgeInv, Placed, TypeOK
  <2>4. \A g \in Frame : IsAnswer(g)' => IsAnswer(g)
      BY <1>0, <2>1, <2>2 DEF IsAnswer, TypeOK
  <2> QED BY <1>0, <2>1, <2>3, <2>4, AgeKeeps DEF Holding
<1>7. ASSUME NEW c \in Clients,
             Wait(c) \/ RecvNothing(c) \/ Again(c) \/ Resend(c) \/ GiveUp(c)
      PROVE  AgeInv'
  <2>1. /\ pc[c] # "idle" /\ pc[c] # "done"
        /\ \A d \in Clients \ {c} : pc'[d] = pc[d]
        /\ UNCHANGED <<net, rxbuf, hand, got, lastidx, idx, req, nreq>>
      BY <1>0, <1>7 DEF Wait, RecvNothing, Again, Resend, GiveUp, Go, TypeOK
  <2>2. Placed'
      BY <2>1 DEF AgeInv, Placed
  <2>3. \A g \in Frame : IsAnswer(g)' => IsAnswer(g)
      BY <2>1 DEF IsAnswer
  <2> QED BY <1>0, <2>1, <2>2, <2>3, AgeKeeps DEF Holding
<1>8. ASSUME NEW c \in Clients, Release(c) PROVE AgeInv'
  <2>1. /\ pc[c] = "done"
        /\ \A d \in Clients \ {c} : pc'[d] = pc[d]
        /\ UNCHANGED <<net, hand, lastidx, idx, req, nreq>>
        /\ rxbuf' = [rxbuf EXCEPT ![idx[c]] = NoFrame]
        /\ got' = [got EXCEPT ![c] = NoFrame]
      BY <1>0, <1>8 DEF Release, Go, TypeOK
  <2>2. Placed'
      BY <1>0, <2>1 DEF AgeInv, Placed, TypeOK
  <2>3. \A g \in Frame : IsAnswer(g)' => IsAnswer(g)
      BY <1>0, <2>1 DEF IsAnswer, TypeOK
  <2> QED BY <1>0, <2>1, <2>2, <2>3, AgeKeeps DEF Holding
<1>9. CASE UNCHANGED vars
  <2>1. Placed' /\ \A g \in Frame : IsAnswer(g)' => IsAnswer(g)
      BY <1>9 DEF vars, AgeInv, Placed, IsAnswer
  <2> QED BY <1>0, <1>9, <2>1, AgeKeeps DEF vars, Holding
<1> QED
    BY <1>1, <1>2, <1>3, <1>4, <1>5, <1>6, <1>7, <1>8, <1>9
    DEF Next, Step, Finished

(* An accepted answer is the one to the call's own request or a lap old.   *)
THEOREM AnswersAge == ASSUME Serial PROVE Spec => []StaleGap
<1>1. AgeInv => StaleGap
  <2> SUFFICES ASSUME AgeInv, NEW c \in Clients, pc[c] = "done", got[c] # NoFrame
               PROVE  got[c].req = req[c] \/ req[c] - got[c].req >= Lap
      BY DEF StaleGap, Lap
  <2>1. got[c] \in Frame /\ IsAnswer(got[c])
      BY DEF AgeInv, SerialInv, TypeInv, TypeOK, IsAnswer
  <2>2. Dated(got[c].idx, got[c].req) /\ got[c].idx = idx[c]
      BY <2>1 DEF AgeInv, AnswersDated, Placed
  <2> QED BY <2>2 DEF Dated, Holding
<1>2. AgeInv /\ [Next]_vars => AgeInv'
    BY AgeInvNext
<1> QED BY <1>1, <1>2, AgeInvInit, PTL DEF Spec
=============================================================================
