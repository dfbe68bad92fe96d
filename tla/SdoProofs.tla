----------------------------- MODULE SdoProofs -----------------------------
(***************************************************************************)
(* Proofs about Sdo: a read that succeeds returns one whole value of the   *)
(* object, and a write that succeeds undisturbed has stored its value.     *)
(*                                                                         *)
(* The invariant IInv says, for every message under way, what it still     *)
(* means. What the slave has left to send is the tail of the stored value  *)
(* (UploadInv). The chunks a read has collected and those still to come    *)
(* never make more than the object, and make exactly the object only when  *)
(* none is missing (ReadInv): the comparison of sizes at the end finds     *)
(* every gap. What the slave has collected of a write that is as long as   *)
(* it should be is the beginning of the value written (DownloadInv,        *)
(* WriteInv). While nothing is lost, the call and the slave take turns     *)
(* (LockInv).                                                              *)
(***************************************************************************)
EXTENDS Sdo, SequenceTheorems, TLAPS

At(v, i) == [ver |-> v, pos |-> i]

Sessions ==
    {NoSession} \cup [type : {"up"}, rest : Seq(Chunk), toggle : BOOLEAN]
                \cup [type : {"down"}, got : Seq(Chunk), toggle : BOOLEAN]
Requests ==
    {Empty} \cup [type : {"up"}] \cup [type : {"upseg"}, toggle : BOOLEAN]
            \cup [type : {"down"}, len : Nat, data : Seq(Chunk)]
            \cup [type : {"downseg"}, toggle : BOOLEAN, data : Seq(Chunk), last : BOOLEAN]
Answers ==
    {Empty} \cup [type : {"down", "downseg", "abort", "emergency"}]
            \cup [type : {"up"}, len : Nat, data : Seq(Chunk)]
            \cup [type : {"upseg"}, data : Seq(Chunk), last : BOOLEAN]

Types ==
    /\ length \in Lengths
    /\ stored \in Seq(Chunk) /\ buf \in Seq(Chunk)
    /\ inbox \in Requests /\ outbox \in Answers /\ session \in Sessions
    /\ alive \in BOOLEAN
    /\ call \in {"none", "read", "write"}
    /\ pc \in {"idle", "drain", "send", "receive"}
    /\ phase \in {"init", "segments"}
    /\ phase = "segments" => pc \in {"send", "receive"}
    /\ pc # "idle" => call # "none"
    /\ toggle \in BOOLEAN /\ result \in BOOLEAN
    /\ calls \in 0 .. MaxCalls /\ losses \in 0 .. MaxLosses
    /\ emergencies \in 0 .. MaxEmergencies

StoredInv == \E v \in 0 .. calls : stored = Value(v, length)

UploadInv ==
    /\ outbox.type = "up" => outbox.len = length /\ outbox.data = First(stored)
    /\ session.type = "up" =>
          /\ Len(session.rest) \in 1 .. length - 1
          /\ \A i \in 1 .. Len(session.rest) :
                session.rest[i] = stored[length - Len(session.rest) + i]
    /\ outbox.type = "upseg" =>
          /\ Len(outbox.data) = 1
          /\ outbox.last => session = NoSession /\ outbox.data[1] = stored[length]
          /\ ~outbox.last => /\ session.type = "up"
                             /\ outbox.data[1] = stored[length - Len(session.rest)]

Left == IF session.type = "up" THEN Len(session.rest) ELSE 0
Seen == Len(buf) + IF outbox.type = "upseg" THEN Left + 1 ELSE Left
PrefixOfStored(b) == \A i \in 1 .. Len(b) : b[i] = stored[i]

ReadInv ==
    call = "read" =>
    /\ phase = "init" /\ pc = "receive" =>
          /\ inbox.type \in {"up", "empty"}
          /\ inbox.type = "empty" /\ length > FIRST =>
                session.type = "up" /\ Len(session.rest) = length - FIRST
    /\ phase = "segments" =>
          /\ length > FIRST
          /\ inbox.type \in {"empty", "up", "upseg"}
          /\ inbox.type = "up" => pc = "send" /\ buf = First(stored)
          /\ inbox.type # "up" =>
                Seen <= length /\ (Seen = length => PrefixOfStored(buf))

Good(got, v, n) ==
    /\ Len(got) <= n
    /\ Len(got) = n => \A i \in 1 .. n : got[i] = At(v, i)

DownloadInv ==
    /\ inbox.type = "down" =>
          inbox.len = length /\ \E v \in 0 .. calls : inbox.data = First(Value(v, length))
    /\ inbox.type = "downseg" =>
          /\ Len(inbox.data) = 1
          /\ inbox.data[1].ver \in 0 .. calls
          /\ inbox.data[1].pos <= length
          /\ inbox.last = (inbox.data[1].pos = length)
          /\ session.type = "down" /\ session.toggle = inbox.toggle =>
                Good(session.got, inbox.data[1].ver, inbox.data[1].pos - 1)

Sent == length - Len(buf)

WriteInv ==
    call = "write" =>
    /\ phase = "init" /\ pc \in {"drain", "send"} => buf = Value(calls, length)
    /\ phase = "init" /\ pc = "receive" =>
          /\ buf = Rest(Value(calls, length))
          /\ inbox.type \in {"down", "empty"}
          /\ inbox.type = "down" => inbox.data = First(Value(calls, length))
          /\ inbox.type = "empty" /\ length > FIRST =>
                session.type = "down" /\ session.got = First(Value(calls, length))
    /\ phase = "segments" =>
          /\ Len(buf) <= length - FIRST
          /\ \A i \in 1 .. Len(buf) : buf[i] = At(calls, Sent + i)
          /\ pc = "send" => buf # <<>>
          /\ inbox.type \in {"empty", "down", "downseg"}
          /\ inbox.type = "down" => inbox.data = First(Value(calls, length)) /\ pc = "send"
          /\ inbox.type = "downseg" =>
                /\ inbox.data[1].ver = calls
                /\ pc = "receive" => inbox.data[1].pos = Sent
                /\ pc = "send" => \/ inbox.data[1].pos <= Sent
                                  \/ inbox.data[1].pos = Sent + 1 /\ inbox.toggle = toggle
          /\ inbox.type # "down" /\ session.type = "down" =>
                Good(session.got, calls, IF pc = "send" /\ session.toggle # toggle
                                         THEN Sent + 1 ELSE Sent)

Quiet == outbox.type \in {"empty", "emergency"}
LockInv ==
    losses = 0 /\ alive =>
    /\ pc # "receive" => inbox = Empty /\ Quiet
    /\ pc = "receive" /\ inbox # Empty => Quiet
    /\ pc = "receive" /\ inbox = Empty /\ call = "write" /\ buf = <<>> =>
          /\ phase = "init" /\ outbox.type \in {"up", "down"} => stored = Value(calls, length)
          /\ phase = "segments" /\ outbox.type = "downseg" => stored = Value(calls, length)

BufInv == Len(buf) <= length

LEMMA ValueFacts ==
    ASSUME NEW v \in 0 .. MaxCalls, NEW len \in Nat
    PROVE  /\ Value(v, len) \in Seq(Chunk) /\ Len(Value(v, len)) = len
           /\ \A i \in 1 .. len : Value(v, len)[i] = At(v, i)
<1>1. \A i \in 1 .. len : [ver |-> v, pos |-> i] \in Chunk
    BY DEF Chunk
<1> QED BY <1>1 DEF Value, At

LEMMA IsValue ==
    ASSUME NEW v \in 0 .. MaxCalls, NEW len \in Nat, NEW s \in Seq(Chunk), Len(s) = len,
           \A i \in 1 .. len : s[i] = At(v, i)
    PROVE  s = Value(v, len)
BY ValueFacts, SeqEqual

LEMMA FirstFacts ==
    ASSUME NEW s \in Seq(Chunk)
    PROVE  /\ First(s) \in Seq(Chunk) /\ Rest(s) \in Seq(Chunk)
           /\ Len(First(s)) = IF Len(s) < FIRST THEN Len(s) ELSE FIRST
           /\ \A i \in 1 .. Len(First(s)) : First(s)[i] = s[i]
           /\ Len(Rest(s)) = Len(s) - Len(First(s))
           /\ \A i \in 1 .. Len(Rest(s)) : Rest(s)[i] = s[Len(First(s)) + i]
           /\ Len(s) <= FIRST => First(s) = s /\ Rest(s) = <<>>
           /\ Len(s) > FIRST => Len(Rest(s)) > 0 /\ Rest(s) # <<>>
<1>1. Len(s) \in Nat /\ FIRST \in Nat \ {0}
    BY LenProperties, SdoAssumption
<1> DEFINE n == IF Len(s) < FIRST THEN Len(s) ELSE FIRST
<1>2. n \in Nat /\ n <= Len(s)
    BY <1>1
<1>3. \A i \in 1 .. n : s[i] \in Chunk
    BY <1>1, <1>2, ElementOfSeq
<1>4. /\ First(s) \in Seq(Chunk) /\ Len(First(s)) = n
      /\ \A i \in 1 .. n : First(s)[i] = s[i]
  <2>1. /\ SubSeq(s, 1, n) \in Seq(Chunk)
        /\ Len(SubSeq(s, 1, n)) = IF 1 <= n THEN n - 1 + 1 ELSE 0
        /\ \A i \in 1 .. n - 1 + 1 : SubSeq(s, 1, n)[i] = s[1 + i - 1]
      <3>1. 1 \in Int /\ n \in Int BY <1>2
      <3> HIDE DEF n
      <3> QED BY <3>1, <1>3, SubSeqProperties
  <2> HIDE DEF n
  <2>2. First(s) = SubSeq(s, 1, n)
      BY DEF First, n
  <2> QED BY <2>1, <2>2, <1>2
<1>5. /\ Rest(s) \in Seq(Chunk) /\ Len(Rest(s)) = Len(s) - n
      /\ \A i \in 1 .. Len(s) - n : Rest(s)[i] = s[n + i]
  <2> HIDE DEF n
  <2>1. \A i \in n + 1 .. Len(s) : s[i] \in Chunk
      BY <1>1, <1>2, ElementOfSeq
  <2>2. n + 1 \in Int /\ Len(s) \in Int
      BY <1>1, <1>2
  <2>3. /\ SubSeq(s, n + 1, Len(s)) \in Seq(Chunk)
        /\ Len(SubSeq(s, n + 1, Len(s)))
              = IF n + 1 <= Len(s) THEN Len(s) - (n + 1) + 1 ELSE 0
        /\ \A i \in 1 .. Len(s) - (n + 1) + 1 :
              SubSeq(s, n + 1, Len(s))[i] = s[n + 1 + i - 1]
      BY <2>1, <2>2, SubSeqProperties
  <2>4. Rest(s) = SubSeq(s, n + 1, Len(s))
      BY <1>4 DEF Rest
  <2>5. (IF n + 1 <= Len(s) THEN Len(s) - (n + 1) + 1 ELSE 0) = Len(s) - n
      BY <1>1, <1>2
  <2>6. ASSUME NEW i \in 1 .. Len(s) - n PROVE Rest(s)[i] = s[n + i]
      <3>1. i \in 1 .. Len(s) - (n + 1) + 1 /\ n + 1 + i - 1 = n + i
          BY <1>1, <1>2
      <3> QED BY <3>1, <2>3, <2>4
  <2> QED BY <2>3, <2>4, <2>5, <2>6
<1>6. Len(s) <= FIRST => First(s) = s /\ Rest(s) = <<>>
  <2> HAVE Len(s) <= FIRST
  <2>1. n = Len(s)
      BY <1>1
  <2>2. First(s) = s
      BY <2>1, <1>4, SeqEqual
  <2>3. Len(Rest(s)) = 0
      BY <2>1, <1>5, <1>1
  <2>4. Rest(s) # <<>> => Len(Rest(s)) \in Nat \ {0}
      BY <1>5, EmptySeq
  <2> QED BY <2>2, <2>3, <2>4
<1>7. Len(s) > FIRST => Len(Rest(s)) > 0 /\ Rest(s) # <<>>
  <2> HAVE Len(s) > FIRST
  <2>1. Len(Rest(s)) > 0
      BY <1>1, <1>5
  <2> QED BY <2>1, EmptySeq
<1> QED BY <1>4, <1>5, <1>6, <1>7

(***************************************************************************)
(* Types                                                                   *)
(***************************************************************************)
LEMMA TypeFacts ==
    ASSUME Types
    PROVE  /\ length \in Nat \ {0} /\ FIRST \in Nat \ {0}
           /\ calls \in Nat /\ MaxCalls \in Nat /\ calls <= MaxCalls
           /\ calls \in 0 .. calls /\ calls \in 0 .. MaxCalls
           /\ Len(stored) \in Nat /\ Len(buf) \in Nat
           /\ session.type = "up" =>
                 session.rest \in Seq(Chunk) /\ session.toggle \in BOOLEAN
           /\ session.type = "down" =>
                 session.got \in Seq(Chunk) /\ session.toggle \in BOOLEAN
           /\ session.type \in {"none", "up", "down"}
           /\ session.type = "none" => session = NoSession
           /\ inbox.type \in {"empty", "up", "upseg", "down", "downseg"}
           /\ inbox.type = "empty" <=> inbox = Empty
           /\ inbox.type \in {"upseg", "downseg"} => inbox.toggle \in BOOLEAN
           /\ inbox.type = "downseg" => inbox.last \in BOOLEAN
           /\ inbox.type \in {"down", "downseg"} => inbox.data \in Seq(Chunk)
           /\ outbox.type \in {"empty", "up", "upseg", "down", "downseg", "abort", "emergency"}
           /\ outbox.type = "empty" <=> outbox = Empty
           /\ outbox.type \in {"up", "upseg"} => outbox.data \in Seq(Chunk)
           /\ outbox.type = "upseg" => outbox.last \in BOOLEAN
<1>1. /\ length \in Nat \ {0} /\ FIRST \in Nat \ {0}
      /\ calls \in Nat /\ MaxCalls \in Nat /\ calls <= MaxCalls
      /\ calls \in 0 .. calls /\ calls \in 0 .. MaxCalls
      /\ Len(stored) \in Nat /\ Len(buf) \in Nat
    BY SdoAssumption, LenProperties DEF Types
<1>2. /\ session.type = "up" =>
             session.rest \in Seq(Chunk) /\ session.toggle \in BOOLEAN
      /\ session.type = "down" =>
             session.got \in Seq(Chunk) /\ session.toggle \in BOOLEAN
      /\ session.type \in {"none", "up", "down"}
      /\ session.type = "none" => session = NoSession
    BY DEF Types, Sessions, NoSession
<1>3. /\ inbox.type \in {"empty", "up", "upseg", "down", "downseg"}
      /\ inbox.type = "empty" <=> inbox = Empty
      /\ inbox.type \in {"upseg", "downseg"} => inbox.toggle \in BOOLEAN
      /\ inbox.type = "downseg" => inbox.last \in BOOLEAN
      /\ inbox.type \in {"down", "downseg"} => inbox.data \in Seq(Chunk)
    BY DEF Types, Requests, Empty
<1>4. /\ outbox.type \in {"empty", "up", "upseg", "down", "downseg", "abort", "emergency"}
      /\ outbox.type = "empty" <=> outbox = Empty
      /\ outbox.type \in {"up", "upseg"} => outbox.data \in Seq(Chunk)
      /\ outbox.type = "upseg" => outbox.last \in BOOLEAN
    BY DEF Types, Answers, Empty
<1> QED BY <1>1, <1>2, <1>3, <1>4

IInv ==
    /\ Types /\ StoredInv /\ UploadInv /\ ReadInv /\ DownloadInv /\ WriteInv
    /\ LockInv /\ BufInv

LEMMA One == \A x \in Chunk : <<x>> \in Seq(Chunk) /\ Len(<<x>>) = 1 /\ <<x>>[1] = x
OBVIOUS

LEMMA StoredFacts ==
    ASSUME Types, StoredInv
    PROVE  /\ Len(stored) = length
           /\ \E v \in 0 .. calls : \A i \in 1 .. length : stored[i] = At(v, i)
<1>1. PICK v \in 0 .. calls : stored = Value(v, length)
    BY DEF StoredInv
<1>2. v \in 0 .. MaxCalls /\ length \in Nat
    BY TypeFacts
<1>3. Len(Value(v, length)) = length /\ \A i \in 1 .. length : Value(v, length)[i] = At(v, i)
    BY <1>2, ValueFacts
<1> QED BY <1>1, <1>3

(***************************************************************************)
(* What a step of the slave does, case by case.                            *)
(***************************************************************************)
LEMMA SessionUp ==
    ASSUME Types, session.type = "up", UploadInv
    PROVE  /\ session = [type |-> "up", rest |-> session.rest, toggle |-> session.toggle]
           /\ session.rest \in Seq(Chunk) /\ session.toggle \in BOOLEAN
           /\ Len(session.rest) \in 1 .. length - 1 /\ session.rest # <<>>
           /\ Head(session.rest) \in Chunk
           /\ Head(session.rest) = stored[length - Len(session.rest) + 1]
           /\ Tail(session.rest) \in Seq(Chunk)
           /\ Len(Tail(session.rest)) = Len(session.rest) - 1
           /\ \A i \in 1 .. Len(session.rest) - 1 :
                 Tail(session.rest)[i] = stored[length - Len(session.rest) + 1 + i]
<1>1. session \in [type : {"up"}, rest : Seq(Chunk), toggle : BOOLEAN]
    BY DEF Types, Sessions, NoSession
<1>2. session = [type |-> "up", rest |-> session.rest, toggle |-> session.toggle]
    BY <1>1
<1>3. /\ session.rest \in Seq(Chunk) /\ session.toggle \in BOOLEAN
      /\ Len(session.rest) \in 1 .. length - 1 /\ length \in Nat
    BY TypeFacts DEF UploadInv
<1> DEFINE r == session.rest
<1>4. r # <<>>
    BY <1>3, EmptySeq
<1>5. /\ Head(r) \in Chunk /\ Tail(r) \in Seq(Chunk) /\ Len(Tail(r)) = Len(r) - 1
      /\ \A i \in 1 .. Len(Tail(r)) : Tail(r)[i] = r[i + 1]
    BY <1>3, <1>4, HeadTailProperties
<1>6. \A i \in 1 .. Len(r) : r[i] = stored[length - Len(r) + i]
    BY DEF UploadInv
<1>7. Head(r) = r[1]
    BY <1>3, <1>4
<1>8. Head(r) = stored[length - Len(r) + 1]
  <2>1. 1 \in 1 .. Len(r)
      BY <1>3
  <2>2. r[1] = stored[length - Len(r) + 1]
      BY <1>6, <2>1
  <2> QED BY <1>7, <2>2
<1>9. ASSUME NEW i \in 1 .. Len(r) - 1
      PROVE  Tail(r)[i] = stored[length - Len(r) + 1 + i]
  <2>1. i + 1 \in 1 .. Len(r) /\ length - Len(r) + (i + 1) = length - Len(r) + 1 + i
      BY <1>3
  <2>2. Tail(r)[i] = r[i + 1] /\ r[i + 1] = stored[length - Len(r) + (i + 1)]
      BY <1>3, <1>5, <1>6, <2>1
  <2> QED BY <2>1, <2>2
<1> QED BY <1>2, <1>3, <1>4, <1>5, <1>8, <1>9

Resting == session' = NoSession /\ session'.type = "none"

LEMMA AfterUpload ==
    ASSUME Types, StoredInv, Upload
    PROVE  /\ outbox' \in Answers /\ session' \in Sessions /\ stored' = stored
           /\ outbox'.type = "up" /\ outbox'.len = length /\ outbox'.data = First(stored)
           /\ length <= FIRST => Resting
           /\ length > FIRST =>
                 /\ session'.type = "up" /\ session'.rest = Rest(stored)
                 /\ session'.rest \in Seq(Chunk) /\ Len(session'.rest) = length - FIRST
                 /\ \A i \in 1 .. length - FIRST : session'.rest[i] = stored[FIRST + i]
<1>1. /\ length \in Nat \ {0} /\ FIRST \in Nat \ {0} /\ stored \in Seq(Chunk)
      /\ Len(stored) = length
    BY TypeFacts, StoredFacts DEF Types
<1>2. First(stored) \in Seq(Chunk) /\ Rest(stored) \in Seq(Chunk)
    BY <1>1, FirstFacts
<1>3. /\ outbox' \in Answers /\ outbox'.type = "up" /\ outbox'.len = length
      /\ outbox'.data = First(stored) /\ stored' = stored
    BY <1>1, <1>2 DEF Upload, Answers
<1>4. CASE length <= FIRST
    BY <1>1, <1>3, <1>4 DEF Upload, Sessions, NoSession, Resting
<1>5. CASE length > FIRST
  <2>1. session' = [type |-> "up", rest |-> Rest(stored), toggle |-> FALSE]
      BY <1>1, <1>5 DEF Upload
  <2>2. session' \in Sessions /\ session'.type = "up" /\ session'.rest = Rest(stored)
      BY <1>2, <2>1 DEF Sessions
  <2>3. Len(First(stored)) = FIRST
      BY <1>1, <1>5, FirstFacts
  <2>4. /\ Len(Rest(stored)) = length - FIRST
        /\ \A i \in 1 .. length - FIRST : Rest(stored)[i] = stored[FIRST + i]
      BY <1>1, <2>3, FirstFacts
  <2> QED BY <1>1, <1>2, <1>3, <1>5, <2>2, <2>4
<1> QED BY <1>1, <1>4, <1>5

LEMMA AfterUploadSegment ==
    ASSUME Types, UploadInv, UploadSegment
    PROVE  /\ outbox' \in Answers /\ session' \in Sessions /\ stored' = stored
           /\ \/ outbox'.type = "abort" /\ Resting
              \/ /\ session.type = "up"
                 /\ outbox'.type = "upseg" /\ Len(outbox'.data) = 1
                 /\ outbox'.data[1] = stored[length - Len(session.rest) + 1]
                 /\ \/ outbox'.last /\ Len(session.rest) = 1 /\ Resting
                    \/ /\ ~outbox'.last /\ Len(session.rest) # 1
                       /\ session'.type = "up"
                       /\ session'.rest \in Seq(Chunk)
                       /\ Len(session'.rest) = Len(session.rest) - 1
                       /\ \A i \in 1 .. Len(session.rest) - 1 :
                             session'.rest[i] = stored[length - Len(session.rest) + 1 + i]
<1>1. CASE session.type = "up" /\ session.toggle = inbox.toggle
  <2> DEFINE r == session.rest
             answer == [type |-> "upseg", data |-> <<Head(r)>>, last |-> Len(r) = 1]
  <2>1. /\ session = [type |-> "up", rest |-> r, toggle |-> session.toggle]
        /\ session.toggle \in BOOLEAN /\ Head(r) \in Chunk /\ Tail(r) \in Seq(Chunk)
        /\ Len(Tail(r)) = Len(r) - 1
      BY <1>1, SessionUp
  <2>2. /\ Head(r) = stored[length - Len(r) + 1]
        /\ \A i \in 1 .. Len(r) - 1 : Tail(r)[i] = stored[length - Len(r) + 1 + i]
      BY <1>1, SessionUp
  <2>3. /\ outbox' = answer /\ stored' = stored
        /\ session' = IF Len(r) = 1 THEN NoSession
                      ELSE [type |-> "up", rest |-> Tail(r), toggle |-> ~session.toggle]
      BY <1>1 DEF UploadSegment
  <2>4. <<Head(r)>> \in Seq(Chunk) /\ Len(<<Head(r)>>) = 1 /\ <<Head(r)>>[1] = Head(r)
      BY <2>1, One
  <2>5. /\ outbox' \in Answers /\ outbox'.type = "upseg" /\ outbox'.data = <<Head(r)>>
        /\ outbox'.last = (Len(r) = 1)
      BY <2>3, <2>4 DEF Answers
  <2>6. CASE Len(r) = 1
      BY <1>1, <2>2, <2>3, <2>4, <2>5, <2>6 DEF Sessions, NoSession, Resting
  <2>7. CASE Len(r) # 1
    <3>1. session' = [type |-> "up", rest |-> Tail(r), toggle |-> ~session.toggle]
        BY <2>1, <2>3, <2>7
    <3>2. /\ session' \in Sessions /\ session'.type = "up" /\ session'.rest = Tail(r)
        BY <2>1, <3>1 DEF Sessions
    <3> QED BY <1>1, <2>1, <2>2, <2>3, <2>4, <2>5, <2>7, <3>2
  <2> QED BY <2>6, <2>7
<1>2. CASE ~(session.type = "up" /\ session.toggle = inbox.toggle)
    BY <1>2 DEF UploadSegment, Abort, Answers, Sessions, NoSession, Resting
<1> QED BY <1>1, <1>2

LEMMA AfterDownload ==
    ASSUME Types, DownloadInv, Download
    PROVE  \E v \in 0 .. calls :
           /\ inbox.data = First(Value(v, length))
           /\ outbox' \in Answers /\ session' \in Sessions
           /\ \/ /\ length <= FIRST /\ Resting
                 /\ \/ stored' = Value(v, length) /\ outbox'.type = "down"
                    \/ stored' = stored /\ outbox'.type = "abort"
              \/ /\ length > FIRST /\ stored' = stored /\ outbox'.type = "down"
                 /\ session'.type = "down" /\ session'.got = First(Value(v, length))
<1>1. PICK v \in 0 .. calls : inbox.data = First(Value(v, length)) /\ inbox.len = length
    BY DEF Download, DownloadInv
<1>2. /\ length \in Nat /\ v \in 0 .. MaxCalls /\ FIRST \in Nat
    BY TypeFacts
<1>3. Value(v, length) \in Seq(Chunk) /\ Len(Value(v, length)) = length
    BY <1>2, ValueFacts
<1>4. /\ inbox.data \in Seq(Chunk)
      /\ Len(inbox.data) = IF length < FIRST THEN length ELSE FIRST
      /\ length <= FIRST => inbox.data = Value(v, length)
    BY <1>1, <1>3, FirstFacts
<1>5. CASE length <= FIRST
  <2>1. Len(inbox.data) = length
      BY <1>2, <1>4, <1>5
  <2>2. Store(inbox.data, "down")
      BY <1>1, <2>1, <1>2 DEF Download
  <2>3. /\ Resting /\ session' \in Sessions /\ outbox' \in Answers
        /\ \/ stored' = inbox.data /\ outbox'.type = "down"
           \/ stored' = stored /\ outbox'.type = "abort"
      BY <2>2 DEF Store, Resting, Sessions, Answers, NoSession
  <2> QED BY <1>1, <1>4, <1>5, <2>3
<1>6. CASE length > FIRST
  <2>1. Len(inbox.data) # length
      BY <1>2, <1>4, <1>6
  <2>2. /\ outbox' = [type |-> "down"] /\ stored' = stored
        /\ session' = [type |-> "down", got |-> inbox.data, toggle |-> FALSE]
      BY <1>1, <2>1 DEF Download
  <2>3. outbox' \in Answers /\ outbox'.type = "down"
      BY <2>2 DEF Answers
  <2>4. session' \in Sessions /\ session'.type = "down" /\ session'.got = inbox.data
      BY <1>4, <2>2 DEF Sessions
  <2> QED BY <1>1, <1>6, <2>2, <2>3, <2>4
<1> QED BY <1>2, <1>5, <1>6

LEMMA SegmentData ==
    ASSUME Types, DownloadInv, inbox.type = "downseg"
    PROVE  /\ inbox.data \in Seq(Chunk) /\ Len(inbox.data) = 1
           /\ inbox.data[1].ver \in 0 .. calls /\ inbox.data[1].pos \in 1 .. length
           /\ inbox.data[1] = At(inbox.data[1].ver, inbox.data[1].pos)
           /\ inbox.last = (inbox.data[1].pos = length)
<1>1. /\ inbox.data \in Seq(Chunk) /\ Len(inbox.data) = 1 /\ length \in Nat
      /\ inbox.data[1].ver \in 0 .. calls /\ inbox.data[1].pos <= length
      /\ inbox.last = (inbox.data[1].pos = length)
    BY TypeFacts DEF DownloadInv
<1>2. inbox.data[1] \in Chunk
    BY <1>1, ElementOfSeq
<1>3. /\ inbox.data[1].pos \in Nat \ {0}
      /\ inbox.data[1] = At(inbox.data[1].ver, inbox.data[1].pos)
    BY <1>2 DEF Chunk, At
<1> QED BY <1>1, <1>3

(* A segment that is accepted continues what has been received.            *)
LEMMA Appended ==
    ASSUME NEW got \in Seq(Chunk), NEW d \in Seq(Chunk), Len(d) = 1
    PROVE  /\ got \o d \in Seq(Chunk) /\ Len(got \o d) = Len(got) + 1 /\ Len(got) \in Nat
           /\ \A i \in 1 .. Len(got) + 1 :
                 (got \o d)[i] = IF i <= Len(got) THEN got[i] ELSE d[i - Len(got)]
<1>1. /\ got \o d \in Seq(Chunk) /\ Len(got \o d) = Len(got) + Len(d)
      /\ \A i \in 1 .. Len(got) + Len(d) :
            (got \o d)[i] = IF i <= Len(got) THEN got[i] ELSE d[i - Len(got)]
    BY ConcatProperties
<1>2. Len(got) \in Nat
    BY LenProperties
<1>3. Len(got \o d) = Len(got) + 1
    BY <1>1
<1>4. \A i \in 1 .. Len(got) + 1 :
          (got \o d)[i] = IF i <= Len(got) THEN got[i] ELSE d[i - Len(got)]
    BY <1>1
<1> QED BY <1>1, <1>2, <1>3, <1>4

LEMMA Continued ==
    ASSUME NEW got \in Seq(Chunk), NEW d \in Seq(Chunk), Len(d) = 1,
           NEW v, NEW p \in Nat \ {0}, d[1] = At(v, p), Good(got, v, p - 1)
    PROVE  got \o d \in Seq(Chunk) /\ Good(got \o d, v, p)
<1>1. /\ got \o d \in Seq(Chunk) /\ Len(got \o d) = Len(got) + 1 /\ Len(got) \in Nat
      /\ \A i \in 1 .. Len(got) + 1 :
            (got \o d)[i] = IF i <= Len(got) THEN got[i] ELSE d[i - Len(got)]
    BY Appended
<1>2. Len(got) <= p - 1
    BY DEF Good
<1>3. ASSUME Len(got \o d) = p, NEW i \in 1 .. p
      PROVE  (got \o d)[i] = At(v, i)
  <2>1. Len(got) = p - 1
      BY <1>1, <1>3
  <2>2. CASE i <= p - 1
    <3>1. got[i] = At(v, i)
        BY <2>1, <2>2 DEF Good
    <3> QED BY <1>1, <2>1, <2>2, <3>1
  <2>3. CASE i = p
    <3>1. i \in 1 .. Len(got) + 1 /\ ~(i <= Len(got)) /\ i - Len(got) = 1
        BY <2>1, <2>3
    <3> QED BY <1>1, <2>3, <3>1
  <2>4. i <= p - 1 \/ i = p
      BY <1>3
  <2> QED BY <2>2, <2>3, <2>4
<1> QED BY <1>1, <1>2, <1>3 DEF Good

LEMMA AfterDownloadSegment ==
    ASSUME Types, DownloadInv, DownloadSegment
    PROVE  /\ outbox' \in Answers /\ session' \in Sessions
           /\ \/ stored' = stored /\ outbox'.type = "abort" /\ Resting
              \/ /\ inbox.last /\ Resting /\ outbox'.type = "downseg"
                 /\ stored' = Value(inbox.data[1].ver, length)
              \/ /\ ~inbox.last /\ stored' = stored /\ outbox'.type = "downseg"
                 /\ session.type = "down" /\ session.toggle = inbox.toggle
                 /\ session'.type = "down" /\ session'.toggle = ~session.toggle
                 /\ Good(session'.got, inbox.data[1].ver, inbox.data[1].pos)
<1> DEFINE d == inbox.data
           fits == session.type = "down" /\ session.toggle = inbox.toggle
<1>1. inbox.type = "downseg"
    BY DEF DownloadSegment
<1>2. /\ d \in Seq(Chunk) /\ Len(d) = 1 /\ d[1].ver \in 0 .. calls
      /\ d[1].pos \in 1 .. length /\ d[1] = At(d[1].ver, d[1].pos)
      /\ inbox.last = (d[1].pos = length)
    BY <1>1, SegmentData
<1>3. /\ length \in Nat /\ calls \in Nat /\ calls <= MaxCalls /\ MaxCalls \in Nat
      /\ d[1].ver \in 0 .. MaxCalls
    BY <1>2, TypeFacts
<1>4. ASSUME fits
      PROVE  /\ session.got \in Seq(Chunk) /\ session.toggle \in BOOLEAN
             /\ session.got \o d \in Seq(Chunk)
             /\ Good(session.got \o d, d[1].ver, d[1].pos)
  <2>1. session.got \in Seq(Chunk) /\ session.toggle \in BOOLEAN
      BY <1>4, TypeFacts
  <2>2. Good(session.got, d[1].ver, d[1].pos - 1)
      BY <1>1, <1>4 DEF DownloadInv
  <2>3. d[1].pos \in Nat \ {0}
      BY <1>2, <1>3
  <2> HIDE DEF d
  <2> QED BY <1>2, <2>1, <2>2, <2>3, Continued
<1>5. CASE fits /\ inbox.last
  <2>1. Store(session.got \o d, "downseg")
      BY <1>5 DEF DownloadSegment
  <2>2. /\ session' = NoSession
        /\ \/ /\ stored' = session.got \o d /\ Len(session.got \o d) = length
              /\ outbox' = [type |-> "downseg"]
           \/ stored' = stored /\ outbox' = [type |-> "abort"]
      BY <2>1 DEF Store
  <2>4. Resting /\ session' \in Sessions
      BY <2>2 DEF Resting, Sessions, NoSession
  <2>5. /\ outbox' \in Answers
        /\ \/ /\ stored' = session.got \o d /\ Len(session.got \o d) = length
              /\ outbox'.type = "downseg"
           \/ stored' = stored /\ outbox'.type = "abort"
    <3> DEFINE whole == session.got \o d
    <3>1. \/ stored' = whole /\ Len(whole) = length /\ outbox' = [type |-> "downseg"]
          \/ stored' = stored /\ outbox' = [type |-> "abort"]
        BY <2>2
    <3> HIDE DEF whole
    <3>2. /\ outbox' \in Answers
          /\ \/ stored' = whole /\ Len(whole) = length /\ outbox'.type = "downseg"
             \/ stored' = stored /\ outbox'.type = "abort"
        BY <3>1 DEF Answers
    <3> QED BY <3>2 DEF whole
  <2>3. ASSUME Len(session.got \o d) = length
        PROVE  session.got \o d = Value(d[1].ver, length)
    <3>1. d[1].pos = length
        BY <1>2, <1>5
    <3>2. \A i \in 1 .. length : (session.got \o d)[i] = At(d[1].ver, i)
        BY <1>4, <1>5, <2>3, <3>1 DEF Good
    <3>3. session.got \o d \in Seq(Chunk)
        BY <1>4, <1>5
    <3> HIDE DEF d
    <3> QED BY <1>3, <2>3, <3>2, <3>3, IsValue
  <2> QED BY <1>5, <2>3, <2>4, <2>5
<1>6. CASE fits /\ ~inbox.last
  <2>1. /\ outbox' = [type |-> "downseg"] /\ stored' = stored
        /\ session' = [type |-> "down", got |-> session.got \o d, toggle |-> ~session.toggle]
      BY <1>6 DEF DownloadSegment
  <2>2. outbox' \in Answers /\ outbox'.type = "downseg"
      BY <2>1 DEF Answers
  <2>3. /\ session' \in Sessions /\ session'.type = "down"
        /\ session'.got = session.got \o d /\ session'.toggle = ~session.toggle
      BY <1>4, <1>6, <2>1 DEF Sessions
  <2> QED BY <1>4, <1>6, <2>1, <2>2, <2>3
<1>7. CASE ~fits
  <2>1. stored' = stored /\ outbox' = [type |-> "abort"] /\ session' = NoSession
      BY <1>7 DEF DownloadSegment, Abort
  <2>2. outbox' \in Answers /\ outbox'.type = "abort"
      BY <2>1 DEF Answers
  <2>3. session' \in Sessions /\ Resting
      BY <2>1 DEF Sessions, NoSession, Resting
  <2> QED BY <2>1, <2>2, <2>3
<1> QED BY <1>5, <1>6, <1>7

(***************************************************************************)
(* The slave keeps the invariant.                                          *)
(***************************************************************************)
LEMMA AnswerTyped ==
    ASSUME IInv, Answer
    PROVE  Types' /\ StoredInv'
<1>1. /\ Types /\ StoredInv /\ UploadInv /\ DownloadInv
      /\ UNCHANGED <<length, alive, call, pc, phase, toggle, buf, result, calls,
                     losses, emergencies>>
      /\ inbox' = Empty
    BY DEF IInv, Answer, master
<1>2. \E v \in 0 .. calls : stored = Value(v, length)
    BY <1>1 DEF StoredInv
<1>3. /\ outbox' \in Answers /\ session' \in Sessions
      /\ stored' = stored \/ \E v \in 0 .. calls : stored' = Value(v, length)
  <2>1. CASE Upload
      BY <1>1, <2>1, AfterUpload
  <2>2. CASE UploadSegment
      BY <1>1, <2>2, AfterUploadSegment
  <2>3. CASE Download
      BY <1>1, <2>3, AfterDownload
  <2>4. CASE DownloadSegment
    <3>1. inbox.data[1].ver \in 0 .. calls
        BY <1>1, <2>4 DEF DownloadInv, DownloadSegment
    <3> QED BY <1>1, <2>4, <3>1, AfterDownloadSegment
  <2> QED BY <2>1, <2>2, <2>3, <2>4 DEF Answer
<1>4. PICK v \in 0 .. calls : stored' = Value(v, length)
    BY <1>2, <1>3
<1>5. stored' \in Seq(Chunk)
  <2>1. v \in 0 .. MaxCalls /\ length \in Nat
      BY <1>1, TypeFacts
  <2> QED BY <1>4, <2>1, ValueFacts
<1>6. inbox' \in Requests
    BY <1>1 DEF Requests
<1>7. Types'
    BY <1>1, <1>3, <1>5, <1>6 DEF Types
<1>8. StoredInv'
    BY <1>1, <1>4 DEF StoredInv
<1> QED BY <1>7, <1>8

LEMMA AnswerUpload ==
    ASSUME IInv, Answer
    PROVE  UploadInv'
<1>1. /\ Types /\ StoredInv /\ UploadInv /\ DownloadInv /\ length' = length
    BY DEF IInv, Answer
<1>2. length \in Nat \ {0} /\ FIRST \in Nat \ {0}
    BY <1>1, TypeFacts
<1>3. CASE Upload
  <2>1. /\ stored' = stored
        /\ outbox'.type = "up" /\ outbox'.len = length /\ outbox'.data = First(stored)
        /\ length <= FIRST => Resting
        /\ length > FIRST =>
              /\ session'.type = "up" /\ Len(session'.rest) = length - FIRST
              /\ \A i \in 1 .. length - FIRST : session'.rest[i] = stored[FIRST + i]
      BY <1>1, <1>3, AfterUpload
  <2>2. CASE length <= FIRST
      BY <1>1, <2>1, <2>2 DEF UploadInv, Resting
  <2>3. CASE length > FIRST
    <3>1. Len(session'.rest) \in 1 .. length - 1
        BY <1>2, <2>1, <2>3
    <3>2. length - (length - FIRST) = FIRST
        BY <1>2
    <3> QED BY <1>1, <2>1, <2>3, <3>1, <3>2 DEF UploadInv
  <2> QED BY <1>2, <2>2, <2>3
<1>4. CASE UploadSegment
  <2>1. CASE outbox'.type = "abort" /\ Resting
      BY <2>1 DEF UploadInv, Resting
  <2>2. CASE ~(outbox'.type = "abort" /\ Resting)
    <3> DEFINE n == Len(session.rest)
    <3>1. /\ session.type = "up" /\ stored' = stored
          /\ outbox'.type = "upseg" /\ Len(outbox'.data) = 1
          /\ outbox'.data[1] = stored[length - n + 1]
          /\ \/ outbox'.last /\ n = 1 /\ Resting
             \/ /\ ~outbox'.last /\ n # 1 /\ session'.type = "up"
                /\ Len(session'.rest) = n - 1
                /\ \A i \in 1 .. n - 1 :
                      session'.rest[i] = stored[length - n + 1 + i]
        BY <1>1, <1>4, <2>2, AfterUploadSegment
    <3>2. n \in 1 .. length - 1
        BY <1>1, <3>1 DEF UploadInv
    <3> HIDE DEF n
    <3>3. CASE outbox'.last
      <4>1. n = 1 /\ Resting
          BY <3>1, <3>3
      <4>2. length - n + 1 = length
          BY <1>2, <4>1
      <4> QED BY <1>1, <3>1, <3>3, <4>1, <4>2 DEF UploadInv, Resting
    <3>4. CASE ~outbox'.last
      <4>1. /\ n # 1 /\ session'.type = "up" /\ Len(session'.rest) = n - 1
            /\ \A i \in 1 .. n - 1 : session'.rest[i] = stored[length - n + 1 + i]
          BY <3>1, <3>4
      <4>2. n - 1 \in 1 .. length - 1 /\ length - (n - 1) = length - n + 1
          BY <1>2, <3>2, <4>1
      <4> QED BY <1>1, <3>1, <3>4, <4>1, <4>2 DEF UploadInv
    <3> QED BY <3>3, <3>4
  <2> QED BY <2>1, <2>2
<1>5. CASE Download
  <2>1. session'.type # "up" /\ outbox'.type \notin {"up", "upseg"}
      BY <1>1, <1>5, AfterDownload DEF Resting
  <2> QED BY <2>1 DEF UploadInv
<1>6. CASE DownloadSegment
  <2>1. session'.type # "up" /\ outbox'.type \notin {"up", "upseg"}
      BY <1>1, <1>6, AfterDownloadSegment DEF Resting
  <2> QED BY <2>1 DEF UploadInv
<1> QED BY <1>3, <1>4, <1>5, <1>6 DEF Answer

(* A read in progress loses nothing but what the slave has sent in vain.   *)
LEMMA AnswerRead ==
    ASSUME IInv, Answer
    PROVE  ReadInv'
<1>1. /\ Types /\ StoredInv /\ UploadInv /\ DownloadInv /\ ReadInv
      /\ UNCHANGED <<length, call, pc, phase, buf>>
      /\ inbox' = Empty /\ outbox = Empty
    BY DEF IInv, Answer, master
<1>2. /\ length \in Nat \ {0} /\ FIRST \in Nat \ {0} /\ Len(buf) \in Nat
      /\ inbox'.type = "empty" /\ outbox.type = "empty" /\ inbox.type # "empty"
    BY <1>1, TypeFacts DEF Empty, Answer, Upload, UploadSegment, Download, DownloadSegment
<1> SUFFICES ASSUME call = "read" PROVE ReadInv'
    BY <1>1 DEF ReadInv
<1>3. CASE phase = "init" /\ pc = "receive"
  <2>1. Upload
      BY <1>1, <1>2, <1>3 DEF ReadInv, Answer, UploadSegment, Download, DownloadSegment
  <2>2. length > FIRST => session'.type = "up" /\ Len(session'.rest) = length - FIRST
      BY <1>1, <2>1, AfterUpload
  <2> QED BY <1>1, <1>2, <1>3, <2>2 DEF ReadInv
<1>4. CASE phase = "segments"
  <2>1. length > FIRST /\ inbox.type \in {"up", "upseg"}
      BY <1>1, <1>2, <1>4 DEF ReadInv
  <2>2. (Seen <= length /\ (Seen = length => PrefixOfStored(buf)))'
    <3>1. CASE inbox.type = "up"
      <4>1. Upload
          BY <1>1, <3>1 DEF Answer, UploadSegment, Download, DownloadSegment
      <4>2. /\ session'.type = "up" /\ Len(session'.rest) = length - FIRST
            /\ outbox'.type = "up" /\ stored' = stored
          BY <1>1, <2>1, <4>1, AfterUpload
      <4>3. buf = First(stored)
          BY <1>1, <1>4, <3>1 DEF ReadInv
      <4>4. stored \in Seq(Chunk) /\ Len(stored) = length
          BY <1>1, StoredFacts DEF Types
      <4>5. Len(buf) = FIRST /\ \A i \in 1 .. FIRST : buf[i] = stored[i]
        <5>1. /\ Len(First(stored)) = IF Len(stored) < FIRST THEN Len(stored) ELSE FIRST
              /\ \A i \in 1 .. Len(First(stored)) : First(stored)[i] = stored[i]
            BY <4>4, FirstFacts
        <5>2. Len(First(stored)) = FIRST
            BY <1>2, <2>1, <4>4, <5>1
        <5> QED BY <4>3, <5>1, <5>2
      <4>6. Seen' = FIRST + (length - FIRST)
          BY <1>1, <4>2, <4>5 DEF Seen, Left
      <4>7. PrefixOfStored(buf)'
          BY <1>1, <4>2, <4>5 DEF PrefixOfStored
      <4> QED BY <1>1, <1>2, <4>6, <4>7
    <3>2. CASE inbox.type = "upseg"
      <4>1. UploadSegment
          BY <1>1, <3>2 DEF Answer, Upload, Download, DownloadSegment
      <4>2. Seen <= length /\ (Seen = length => PrefixOfStored(buf))
          BY <1>1, <1>4, <3>2 DEF ReadInv
      <4>3. stored' = stored /\ PrefixOfStored(buf)' = PrefixOfStored(buf)
          BY <1>1, <4>1, AfterUploadSegment DEF PrefixOfStored
      <4>4. session.type = "up" => Len(session.rest) \in Nat \ {0}
          BY <1>1, <1>2 DEF UploadInv
      <4>5. Seen = Len(buf) + Left
          BY <1>2 DEF Seen
      <4>6. CASE outbox'.type = "abort" /\ Resting
        <5>1. Seen' = Len(buf)
            BY <1>1, <1>2, <4>6 DEF Seen, Left, Resting
        <5>2. Seen' <= length
            BY <1>2, <4>2, <4>4, <4>5, <5>1 DEF Left
        <5>3. Seen' = length => Seen = length
            BY <1>2, <4>2, <4>4, <4>5, <5>1 DEF Left
        <5> QED BY <1>1, <4>2, <4>3, <5>2, <5>3
      <4>7. CASE ~(outbox'.type = "abort" /\ Resting)
        <5>1. /\ session.type = "up" /\ outbox'.type = "upseg"
              /\ \/ Len(session.rest) = 1 /\ session'.type = "none"
                 \/ session'.type = "up" /\ Len(session'.rest) = Len(session.rest) - 1
            BY <1>1, <4>1, <4>7, AfterUploadSegment DEF Resting
        <5>2. Left' = Len(session.rest) - 1 /\ Left = Len(session.rest)
          <6>1. Left = Len(session.rest) /\ Len(session.rest) \in Nat
              BY <4>4, <5>1 DEF Left
          <6>2. CASE Len(session.rest) = 1 /\ session'.type = "none"
              BY <6>1, <6>2 DEF Left
          <6>3. CASE session'.type = "up" /\ Len(session'.rest) = Len(session.rest) - 1
              BY <6>1, <6>3 DEF Left
          <6> QED BY <5>1, <6>1, <6>2, <6>3
        <5>3. Seen' = Len(buf) + ((Len(session.rest) - 1) + 1)
            BY <1>1, <5>1, <5>2 DEF Seen
        <5>4. Seen' = Seen
            BY <1>2, <4>4, <4>5, <5>1, <5>2, <5>3
        <5> QED BY <1>1, <4>2, <4>3, <5>4
      <4> QED BY <4>6, <4>7
    <3> QED BY <2>1, <3>1, <3>2
  <2> QED BY <1>1, <1>2, <1>4, <2>1, <2>2 DEF ReadInv
<1>5. CASE phase = "init" /\ pc # "receive"
    BY <1>1, <1>5 DEF ReadInv
<1>6. phase \in {"init", "segments"}
    BY <1>1 DEF Types
<1> QED BY <1>3, <1>4, <1>5, <1>6

LEMMA GoodGrows ==
    ASSUME NEW got \in Seq(Chunk), NEW v, NEW n \in Int, NEW m \in Int, n <= m, Good(got, v, n)
    PROVE  Good(got, v, m)
<1>1. Len(got) \in Nat
    BY LenProperties
<1>2. CASE n = m
    BY <1>2
<1>3. CASE n < m
    BY <1>1, <1>3 DEF Good
<1> QED BY <1>2, <1>3

LEMMA Asked ==
    ASSUME Types, Answer
    PROVE  inbox.type # "empty" /\ inbox # Empty /\ inbox'.type = "empty"
<1>1. inbox.type # "empty"
    BY DEF Answer, Upload, UploadSegment, Download, DownloadSegment
<1>2. inbox' = Empty
    BY DEF Answer
<1> QED BY <1>1, <1>2, TypeFacts DEF Empty

LEMMA FirstIsGood ==
    ASSUME Types, length > FIRST, NEW v \in 0 .. calls
    PROVE  /\ First(Value(v, length)) \in Seq(Chunk)
           /\ Len(First(Value(v, length))) = FIRST
           /\ Good(First(Value(v, length)), v, FIRST)
<1>1. /\ length \in Nat /\ FIRST \in Nat \ {0} /\ v \in 0 .. MaxCalls
    BY TypeFacts
<1>2. /\ Value(v, length) \in Seq(Chunk) /\ Len(Value(v, length)) = length
      /\ \A i \in 1 .. length : Value(v, length)[i] = At(v, i)
    BY <1>1, ValueFacts
<1>3. /\ First(Value(v, length)) \in Seq(Chunk)
      /\ Len(First(Value(v, length))) = FIRST
      /\ \A i \in 1 .. FIRST : First(Value(v, length))[i] = Value(v, length)[i]
  <2> DEFINE s == Value(v, length)
  <2>1. s \in Seq(Chunk) /\ Len(s) = length
      BY <1>2
  <2> HIDE DEF s
  <2>2. /\ First(s) \in Seq(Chunk)
        /\ Len(First(s)) = IF Len(s) < FIRST THEN Len(s) ELSE FIRST
        /\ \A i \in 1 .. Len(First(s)) : First(s)[i] = s[i]
      BY <2>1, FirstFacts
  <2>3. Len(First(s)) = FIRST
      BY <1>1, <2>1, <2>2
  <2> QED BY <2>2, <2>3 DEF s
<1> QED BY <1>1, <1>2, <1>3 DEF Good

LEMMA AnswerDownload ==
    ASSUME IInv, Answer
    PROVE  DownloadInv'
BY DEF Answer, DownloadInv, Empty

LEMMA AnswerWrite ==
    ASSUME IInv, Answer
    PROVE  WriteInv'
<1>1. /\ Types /\ DownloadInv /\ WriteInv
      /\ UNCHANGED <<length, call, pc, phase, buf, toggle, calls>>
      /\ inbox' = Empty
    BY DEF IInv, Answer, master
<1>2. /\ length \in Nat \ {0} /\ FIRST \in Nat \ {0} /\ Len(buf) \in Nat
      /\ inbox'.type = "empty" /\ inbox.type # "empty" /\ calls \in 0 .. calls
      /\ calls \in Nat
    BY <1>1, TypeFacts, Asked
<1> SUFFICES ASSUME call = "write" PROVE WriteInv'
    BY <1>1 DEF WriteInv
<1>3. CASE phase = "init" /\ pc = "receive"
  <2>1. /\ buf = Rest(Value(calls, length)) /\ inbox.type = "down"
        /\ inbox.data = First(Value(calls, length))
      BY <1>1, <1>2, <1>3 DEF WriteInv
  <2>2. Download
      BY <2>1 DEF Answer, Upload, UploadSegment, DownloadSegment
  <2>3. length > FIRST => session'.type = "down" /\ session'.got = inbox.data
      BY <1>1, <1>2, <2>2, AfterDownload
  <2> QED BY <1>1, <1>2, <1>3, <2>1, <2>3 DEF WriteInv
<1>4. CASE phase = "segments"
  <2>1. /\ Len(buf) <= length - FIRST /\ inbox.type \in {"down", "downseg"}
        /\ \A i \in 1 .. Len(buf) : buf[i] = At(calls, Sent + i)
        /\ pc = "send" => buf # <<>>
      BY <1>1, <1>2, <1>4 DEF WriteInv
  <2>2. Sent' = Sent /\ Sent \in Int /\ FIRST <= Sent
      BY <1>1, <1>2, <2>1 DEF Sent
  <2> DEFINE bound == IF pc = "send" /\ session'.toggle # toggle THEN Sent + 1 ELSE Sent
  <2>3. bound \in Int /\ Sent <= bound
      BY <2>2
  <2>4. ASSUME session'.type = "down" PROVE Good(session'.got, calls, bound)
    <3>1. session'.got \in Seq(Chunk)
      <4>1. Types'
          BY AnswerTyped
      <4> QED BY <2>4, <4>1 DEF Types, Sessions, NoSession
    <3>2. CASE inbox.type = "down"
      <4>1. inbox.data = First(Value(calls, length)) /\ pc = "send"
          BY <1>1, <1>4, <3>2 DEF WriteInv
      <4>2. buf # <<>> /\ length > FIRST
        <5>1. buf # <<>> /\ buf \in Seq(Chunk)
            BY <1>1, <2>1, <4>1 DEF Types
        <5>2. Len(buf) > 0
            BY <5>1, EmptySeq
        <5> QED BY <1>2, <2>1, <5>1, <5>2
      <4>3. Download
          BY <3>2 DEF Answer, Upload, UploadSegment, DownloadSegment
      <4>4. session'.got = inbox.data
          BY <1>1, <1>2, <4>2, <4>3, AfterDownload
      <4>5. Good(session'.got, calls, FIRST)
          BY <1>1, <1>2, <4>1, <4>2, <4>4, FirstIsGood
      <4>6. FIRST \in Int /\ FIRST <= bound
          BY <1>2, <2>2, <2>3
      <4> HIDE DEF bound
      <4> QED BY <2>3, <3>1, <4>5, <4>6, GoodGrows
    <3>3. CASE inbox.type = "downseg"
      <4>1. DownloadSegment
          BY <3>3 DEF Answer, Upload, UploadSegment, Download
      <4>2. /\ session.toggle = inbox.toggle /\ session'.toggle = ~session.toggle
            /\ Good(session'.got, inbox.data[1].ver, inbox.data[1].pos)
          BY <1>1, <2>4, <4>1, AfterDownloadSegment DEF Resting
      <4>3. inbox.data[1].ver = calls /\ inbox.data[1].pos \in Int
          BY <1>1, <1>2, <1>4, <3>3, SegmentData DEF WriteInv
      <4>4. CASE inbox.data[1].pos <= Sent
        <5>1. inbox.data[1].pos <= bound
            BY <2>2, <2>3, <4>3, <4>4
        <5> HIDE DEF bound
        <5> QED BY <2>3, <3>1, <4>2, <4>3, <5>1, GoodGrows
      <4>5. CASE pc = "send" /\ inbox.data[1].pos = Sent + 1 /\ inbox.toggle = toggle
        <5>1. session'.toggle # toggle
          <6>1. toggle \in BOOLEAN
              BY <1>1 DEF Types
          <6> QED BY <4>2, <4>5, <6>1
        <5>2. bound = Sent + 1
            BY <4>5, <5>1
        <5> HIDE DEF bound
        <5> QED BY <4>2, <4>3, <4>5, <5>2
      <4>6. pc \in {"send", "receive"}
          BY <1>1, <1>4 DEF Types
      <4>7. inbox.data[1].pos <= Sent \/ (/\ pc = "send" /\ inbox.data[1].pos = Sent + 1
                                          /\ inbox.toggle = toggle)
          BY <1>1, <1>4, <2>2, <3>3, <4>6 DEF WriteInv
      <4> QED BY <4>4, <4>5, <4>7
    <3> QED BY <2>1, <3>2, <3>3
  <2>5. (session.type = "down" =>
            Good(session.got, calls, IF pc = "send" /\ session.toggle # toggle
                                     THEN Sent + 1 ELSE Sent))'
      BY <1>1, <2>2, <2>4
  <2> QED BY <1>1, <1>2, <1>4, <2>1, <2>2, <2>5 DEF WriteInv
<1>5. CASE phase = "init" /\ pc # "receive"
    BY <1>1, <1>5 DEF WriteInv
<1>6. phase \in {"init", "segments"}
    BY <1>1 DEF Types
<1> QED BY <1>3, <1>4, <1>5, <1>6

LEMMA AnswerLock ==
    ASSUME IInv, Answer
    PROVE  LockInv'
<1>1. /\ Types /\ DownloadInv /\ WriteInv /\ LockInv
      /\ UNCHANGED <<length, call, pc, phase, buf, calls, losses, alive>>
      /\ inbox' = Empty
    BY DEF IInv, Answer, master
<1>2. /\ length \in Nat \ {0} /\ FIRST \in Nat \ {0}
      /\ inbox.type # "empty" /\ calls \in 0 .. calls /\ calls \in 0 .. MaxCalls
      /\ inbox # Empty
    BY <1>1, TypeFacts, Asked
<1> SUFFICES ASSUME losses = 0, alive PROVE LockInv'
    BY <1>1 DEF LockInv
<1>3. pc = "receive"
    BY <1>1, <1>2 DEF LockInv
<1>4. ASSUME call = "write", buf = <<>>, phase = "init", outbox'.type \in {"up", "down"}
      PROVE  stored' = Value(calls, length)
  <2>1. /\ buf = Rest(Value(calls, length)) /\ inbox.type = "down"
        /\ inbox.data = First(Value(calls, length))
      BY <1>1, <1>2, <1>3, <1>4 DEF WriteInv
  <2>2. Download
      BY <2>1 DEF Answer, Upload, UploadSegment, DownloadSegment
  <2>3. \A v \in 0 .. MaxCalls : Value(v, length) \in Seq(Chunk) /\ Len(Value(v, length)) = length
      BY <1>2, ValueFacts
  <2>4. length <= FIRST
      BY <1>2, <1>4, <2>1, <2>3, FirstFacts
  <2>5. \A v \in 0 .. MaxCalls : First(Value(v, length)) = Value(v, length)
      BY <2>3, <2>4, FirstFacts
  <2>6. PICK v \in 0 .. calls : /\ inbox.data = First(Value(v, length))
                                /\ stored' = Value(v, length)
      BY <1>1, <1>2, <1>4, <2>2, <2>4, AfterDownload
  <2>7. v \in 0 .. MaxCalls
      BY <1>1, TypeFacts
  <2> QED BY <1>2, <2>1, <2>5, <2>6, <2>7
<1>5. ASSUME call = "write", buf = <<>>, phase = "segments", outbox'.type = "downseg"
      PROVE  stored' = Value(calls, length)
  <2>1. /\ inbox.type = "downseg" /\ inbox.data[1].ver = calls /\ inbox.data[1].pos = Sent
      BY <1>1, <1>2, <1>3, <1>5 DEF WriteInv
  <2>2. Sent = length
      BY <1>2, <1>5, EmptySeq DEF Sent
  <2>3. inbox.last = (inbox.data[1].pos = length)
      BY <1>1, <2>1, SegmentData
  <2>4. DownloadSegment
      BY <2>1 DEF Answer, Upload, UploadSegment, Download
  <2> QED BY <1>1, <1>5, <2>1, <2>2, <2>3, <2>4, AfterDownloadSegment
<1> QED BY <1>1, <1>2, <1>3, <1>4, <1>5 DEF LockInv

LEMMA AnswerKeeps ==
    ASSUME IInv, Answer
    PROVE  IInv'
<1>1. BufInv'
    BY DEF IInv, BufInv, Answer, master
<1> QED BY <1>1, AnswerTyped, AnswerUpload, AnswerRead, AnswerDownload, AnswerWrite,
        AnswerLock DEF IInv

(***************************************************************************)
(* So do emergencies, the unplugging of the slave and the start of a call. *)
(***************************************************************************)
LEMMA EmergencyKeeps ==
    ASSUME IInv, Emergency
    PROVE  IInv'
<1>1. /\ UNCHANGED <<length, stored, session, alive, inbox, call, pc, phase, toggle, buf,
                     result, calls, losses>>
      /\ outbox = Empty /\ outbox' = [type |-> "emergency"]
      /\ emergencies' \in 0 .. MaxEmergencies
    BY SdoAssumption DEF Emergency, slave, master, IInv, Types
<1>2. /\ outbox' \in Answers /\ outbox'.type = "emergency" /\ outbox.type = "empty"
    BY <1>1 DEF Answers, Empty
<1>3. Types'
    BY <1>1, <1>2 DEF IInv, Types
<1>4. StoredInv' /\ DownloadInv' /\ WriteInv' /\ BufInv'
    BY <1>1 DEF IInv, StoredInv, DownloadInv, WriteInv, BufInv, Sent
<1>5. UploadInv'
    BY <1>1, <1>2 DEF IInv, UploadInv
<1>6. ReadInv'
  <2>1. Seen' = Seen /\ PrefixOfStored(buf)' = PrefixOfStored(buf)
      BY <1>1, <1>2 DEF Seen, Left, PrefixOfStored
  <2> QED BY <1>1, <2>1 DEF IInv, ReadInv
<1>7. LockInv'
    BY <1>1, <1>2 DEF IInv, LockInv, Quiet
<1> QED BY <1>3, <1>4, <1>5, <1>6, <1>7 DEF IInv

LEMMA VanishKeeps ==
    ASSUME IInv, Vanish
    PROVE  IInv'
<1>1. /\ UNCHANGED <<length, stored, session, inbox, outbox, call, pc, phase, toggle, buf,
                     result, calls, losses, emergencies>>
      /\ alive' = FALSE
    BY DEF Vanish, boxes, master
<1>2. Types'
    BY <1>1 DEF IInv, Types
<1>3. StoredInv' /\ UploadInv' /\ DownloadInv' /\ WriteInv' /\ BufInv' /\ LockInv'
    BY <1>1 DEF IInv, StoredInv, UploadInv, DownloadInv, WriteInv, BufInv, LockInv, Sent
<1>4. ReadInv'
    BY <1>1 DEF IInv, ReadInv, Seen, Left, PrefixOfStored
<1> QED BY <1>2, <1>3, <1>4 DEF IInv

LEMMA BeginKeeps ==
    ASSUME IInv, NEW c \in {"read", "write"}, Begin(c)
    PROVE  IInv'
<1>1. /\ UNCHANGED <<length, stored, session, alive, inbox, outbox, losses, emergencies>>
      /\ pc = "idle" /\ calls < MaxCalls /\ calls' = calls + 1
      /\ call' = c /\ pc' = "drain" /\ phase' = "init" /\ toggle' = FALSE
      /\ buf' = IF c = "read" THEN <<>> ELSE Value(calls', length)
      /\ result' = FALSE
    BY DEF Begin, slave, boxes
<1>2. /\ length \in Nat /\ calls \in Nat /\ MaxCalls \in Nat /\ Types
      /\ calls' \in 0 .. MaxCalls /\ 0 .. calls \subseteq 0 .. calls'
    BY <1>1, TypeFacts DEF IInv
<1>3. buf' \in Seq(Chunk) /\ Len(buf') <= length
  <2>1. CASE c = "read"
      BY <1>1, <1>2, <2>1, EmptySeq
  <2>2. CASE c = "write"
    <3>1. Value(calls', length) \in Seq(Chunk) /\ Len(Value(calls', length)) = length
        BY <1>2, ValueFacts
    <3> QED BY <1>1, <1>2, <2>2, <3>1
  <2> QED BY <2>1, <2>2
<1>4. Types'
    BY <1>1, <1>2, <1>3 DEF Types
<1>5. StoredInv'
    BY <1>1, <1>2 DEF IInv, StoredInv
<1>6. UploadInv' /\ ReadInv' /\ BufInv'
    BY <1>1, <1>3 DEF IInv, UploadInv, ReadInv, BufInv
<1>7. DownloadInv'
    BY <1>1, <1>2 DEF IInv, DownloadInv
<1>8. WriteInv'
    BY <1>1 DEF WriteInv
<1>9. LockInv'
    BY <1>1 DEF IInv, LockInv, Quiet
<1> QED BY <1>4, <1>5, <1>6, <1>7, <1>8, <1>9 DEF IInv

LEMMA LoseFacts ==
    ASSUME Types, Lose
    PROVE  losses' \in 0 .. MaxLosses /\ (alive => losses' # 0)
BY SdoAssumption DEF Lose, Types

LEMMA DrainKeeps ==
    ASSUME IInv, Drain
    PROVE  IInv'
<1>1. /\ UNCHANGED <<length, stored, session, alive, inbox, call, phase, toggle, buf,
                     result, calls, emergencies>>
      /\ pc = "drain" /\ pc' = "send" /\ Types
    BY DEF Drain, slave, IInv
<1>2. /\ losses' \in 0 .. MaxLosses /\ outbox' \in {Empty, outbox}
      /\ alive => \/ outbox' = Empty /\ losses' = losses
                  \/ losses' # 0
    BY <1>1, LoseFacts DEF Drain, Types
<1>3. outbox' \in Answers
    BY <1>1, <1>2 DEF Types, Answers
<1>4. Types'
    BY <1>1, <1>2, <1>3 DEF Types
<1>5. outbox'.type = "empty" \/ outbox' = outbox
    BY <1>2 DEF Empty
<1>6. StoredInv' /\ DownloadInv' /\ BufInv'
    BY <1>1 DEF IInv, StoredInv, DownloadInv, BufInv
<1>7. UploadInv'
    BY <1>1, <1>5 DEF IInv, UploadInv
<1>8. phase = "init"
    BY <1>1 DEF Types
<1>9. ReadInv' /\ WriteInv'
    BY <1>1, <1>8 DEF IInv, ReadInv, WriteInv
<1>10. LockInv'
    BY <1>1, <1>2 DEF IInv, LockInv, Quiet, Empty
<1> QED BY <1>4, <1>6, <1>7, <1>9, <1>10 DEF IInv

LEMMA ReceiveEmergencyKeeps ==
    ASSUME IInv, ReceiveEmergency
    PROVE  IInv'
<1>1. /\ UNCHANGED <<length, stored, session, alive, inbox, call, pc, phase, toggle, buf,
                     result, calls, losses, emergencies>>
      /\ outbox.type = "emergency" /\ outbox' = Empty /\ outbox'.type = "empty"
    BY DEF ReceiveEmergency, slave, master, Empty
<1>2. outbox' \in Answers
    BY <1>1 DEF Answers
<1>3. Types'
    BY <1>1, <1>2 DEF IInv, Types
<1>4. StoredInv' /\ DownloadInv' /\ WriteInv' /\ BufInv'
    BY <1>1 DEF IInv, StoredInv, DownloadInv, WriteInv, BufInv, Sent
<1>5. UploadInv'
    BY <1>1 DEF IInv, UploadInv
<1>6. ReadInv'
  <2>1. Seen' = Seen /\ PrefixOfStored(buf)' = PrefixOfStored(buf)
      BY <1>1 DEF Seen, Left, PrefixOfStored
  <2> QED BY <1>1, <2>1 DEF IInv, ReadInv
<1>7. LockInv'
    BY <1>1 DEF IInv, LockInv, Quiet
<1> QED BY <1>3, <1>4, <1>5, <1>6, <1>7 DEF IInv

(***************************************************************************)
(* So does the sending of requests.                                        *)
(***************************************************************************)
LEMMA Due ==
    ASSUME IInv, pc = "send"
    PROVE  /\ Request \in Requests /\ Request.type # "empty" /\ Request # Empty
           /\ Remaining \in Seq(Chunk) /\ Len(Remaining) <= length
           /\ call = "read" =>
                 /\ Remaining = buf
                 /\ Request.type = IF phase = "init" THEN "up" ELSE "upseg"
           /\ call = "write" /\ phase = "init" =>
                 /\ Request.type = "down" /\ Request.len = length
                 /\ Request.data = First(Value(calls, length))
                 /\ Remaining = Rest(Value(calls, length))
           /\ call = "write" /\ phase = "segments" =>
                 /\ Request.type = "downseg" /\ Request.toggle = toggle
                 /\ Len(Request.data) = 1
                 /\ Request.data[1].ver = calls /\ Request.data[1].pos = Sent + 1
                 /\ Request.last = (Sent + 1 = length)
                 /\ Len(buf) > 0 /\ Sent \in Int /\ Sent + 1 <= length
                 /\ Len(Remaining) = Len(buf) - 1
                 /\ \A i \in 1 .. Len(buf) - 1 : Remaining[i] = At(calls, Sent + 1 + i)
<1>1. /\ Types /\ length \in Nat \ {0} /\ FIRST \in Nat \ {0} /\ Len(buf) \in Nat
      /\ buf \in Seq(Chunk) /\ Len(buf) <= length /\ calls \in 0 .. MaxCalls
      /\ toggle \in BOOLEAN
    BY TypeFacts DEF IInv, BufInv, Types
<1>2. CASE call = "read"
  <2>1. Remaining = buf
      BY <1>2 DEF Remaining
  <2>2. CASE phase = "init"
    <3>1. Request = [type |-> "up"]
        BY <1>2, <2>2 DEF Request
    <3>2. Request \in Requests /\ Request.type = "up" /\ Request # Empty
        BY <3>1 DEF Requests, Empty
    <3> QED BY <1>1, <1>2, <2>1, <2>2, <3>2
  <2>3. CASE phase = "segments"
    <3>1. Request = [type |-> "upseg", toggle |-> toggle]
        BY <1>2, <2>3 DEF Request
    <3>2. Request \in Requests /\ Request.type = "upseg" /\ Request # Empty
        BY <1>1, <3>1 DEF Requests, Empty
    <3> QED BY <1>1, <1>2, <2>1, <2>3, <3>2
  <2> QED BY <1>1, <2>2, <2>3 DEF Types
<1>3. CASE call = "write" /\ phase = "init"
  <2>1. buf = Value(calls, length)
      BY <1>3 DEF IInv, WriteInv
  <2>2. /\ Request = [type |-> "down", len |-> length, data |-> First(buf)]
        /\ Remaining = Rest(buf)
      BY <1>3 DEF Request, Remaining
  <2>3. /\ First(buf) \in Seq(Chunk) /\ Rest(buf) \in Seq(Chunk)
        /\ Len(First(buf)) \in Nat /\ Len(Rest(buf)) = Len(buf) - Len(First(buf))
      BY <1>1, FirstFacts, LenProperties
  <2>4. /\ Request \in Requests /\ Request.type = "down" /\ Request # Empty
        /\ Request.len = length /\ Request.data = First(buf)
      BY <1>1, <2>2, <2>3 DEF Requests, Empty
  <2>5. Len(Rest(buf)) <= length
      BY <1>1, <2>3
  <2> QED BY <1>3, <2>1, <2>2, <2>3, <2>4, <2>5
<1>4. CASE call = "write" /\ phase = "segments"
  <2>1. /\ buf # <<>>
        /\ \A i \in 1 .. Len(buf) : buf[i] = At(calls, Sent + i)
      BY <1>4 DEF IInv, WriteInv
  <2>2. Len(buf) > 0
      BY <1>1, <2>1, EmptySeq
  <2>3. /\ Head(buf) \in Chunk /\ Tail(buf) \in Seq(Chunk) /\ Len(Tail(buf)) = Len(buf) - 1
        /\ \A i \in 1 .. Len(Tail(buf)) : Tail(buf)[i] = buf[i + 1]
      BY <1>1, <2>1, HeadTailProperties
  <2>4. Head(buf) = At(calls, Sent + 1)
    <3>1. Head(buf) = buf[1] /\ 1 \in 1 .. Len(buf)
        BY <1>1, <2>1, <2>2
    <3> QED BY <2>1, <3>1
  <2>5. Sent \in Int /\ Sent + 1 <= length /\ (Len(buf) = 1) = (Sent + 1 = length)
    <3>1. Sent = length - Len(buf)
        BY DEF Sent
    <3>2. Sent \in Int /\ Sent + 1 <= length
        BY <1>1, <2>2, <3>1
    <3>3. Len(buf) = 1 <=> Sent + 1 = length
      <4>1. length \in Int /\ Len(buf) \in Int
          BY <1>1
      <4> DEFINE n == Len(buf)
      <4>2. Sent = length - n /\ n \in Int
          BY <3>1, <4>1
      <4> HIDE DEF n
      <4>3. n = 1 <=> Sent + 1 = length
          BY <4>1, <4>2
      <4> QED BY <4>3 DEF n
    <3>4. (Len(buf) = 1) = (Sent + 1 = length)
        BY <3>3, Zenon
    <3> QED BY <3>2, <3>4
  <2>6. /\ Request = [type |-> "downseg", toggle |-> toggle,
                      data |-> <<Head(buf)>>, last |-> Len(buf) = 1]
        /\ Remaining = Tail(buf)
      BY <1>4 DEF Request, Remaining
  <2>7. <<Head(buf)>> \in Seq(Chunk) /\ Len(<<Head(buf)>>) = 1 /\ <<Head(buf)>>[1] = Head(buf)
      BY <2>3, One
  <2>8. /\ Request \in Requests /\ Request.type = "downseg" /\ Request # Empty
        /\ Request.toggle = toggle /\ Request.data = <<Head(buf)>>
        /\ Request.last = (Len(buf) = 1)
      BY <1>1, <2>6, <2>7 DEF Requests, Empty
  <2>9. Head(buf).ver = calls /\ Head(buf).pos = Sent + 1
      BY <2>4 DEF At
  <2>10. \A i \in 1 .. Len(buf) - 1 : Tail(buf)[i] = At(calls, Sent + 1 + i)
    <3> TAKE i \in 1 .. Len(buf) - 1
    <3>1. i + 1 \in 1 .. Len(buf) /\ Sent + (i + 1) = Sent + 1 + i
        BY <1>1, <2>5
    <3>2. Tail(buf)[i] = buf[i + 1] /\ buf[i + 1] = At(calls, Sent + (i + 1))
        BY <1>1, <2>1, <2>3, <3>1
    <3> QED BY <3>1, <3>2
  <2>11. Len(Tail(buf)) <= length
      BY <1>1, <2>3
  <2> QED BY <1>4, <2>2, <2>3, <2>5, <2>6, <2>7, <2>8, <2>9, <2>10, <2>11
<1> QED BY <1>1, <1>2, <1>3, <1>4 DEF Types

(* A request that reaches an empty mailbox.                                *)
LEMMA RequestArrives ==
    ASSUME IInv, pc = "send", inbox = Empty, inbox' = Request,
           UNCHANGED <<length, stored, session, outbox, calls>>
    PROVE  inbox' \in Requests /\ StoredInv' /\ UploadInv' /\ DownloadInv'
<1>1. StoredInv' /\ UploadInv' /\ inbox' \in Requests
    BY Due DEF IInv, StoredInv, UploadInv
<1>2. /\ Types /\ calls \in 0 .. calls /\ length \in Nat
      /\ inbox.type = "empty" /\ phase \in {"init", "segments"} /\ call \in {"read", "write"}
    BY TypeFacts DEF IInv, Types
<1>3. CASE call = "read"
    BY <1>1, <1>3, Due DEF DownloadInv
<1>4. CASE call = "write" /\ phase = "init"
  <2>1. /\ inbox'.type = "down" /\ inbox'.len = length
        /\ inbox'.data = First(Value(calls, length))
      BY <1>4, Due
  <2> QED BY <1>1, <1>2, <2>1 DEF DownloadInv
<1>5. CASE call = "write" /\ phase = "segments"
  <2>1. /\ inbox'.type = "downseg" /\ inbox'.toggle = toggle
        /\ Len(inbox'.data) = 1
        /\ inbox'.data[1].ver = calls /\ inbox'.data[1].pos = Sent + 1
        /\ inbox'.last = (Sent + 1 = length)
        /\ Sent \in Int /\ Sent + 1 <= length
      BY <1>5, Due
  <2>2. session.type = "down" /\ session.toggle = toggle => Good(session.got, calls, Sent)
      BY <1>2, <1>5 DEF IInv, WriteInv
  <2>3. Sent + 1 - 1 = Sent
      BY <2>1
  <2> QED BY <1>1, <1>2, <2>1, <2>2, <2>3 DEF DownloadInv
<1> QED BY <1>2, <1>3, <1>4, <1>5

LEMMA SendKeeps ==
    ASSUME IInv, Send
    PROVE  IInv'
<1>1. /\ UNCHANGED <<length, stored, session, alive, outbox, call, phase, toggle, result,
                     calls, losses, emergencies>>
      /\ pc = "send" /\ pc' = "receive" /\ inbox = Empty /\ inbox' = Request
      /\ buf' = Remaining
    BY DEF Send, slave
<1>2. /\ Types /\ length \in Nat \ {0} /\ FIRST \in Nat \ {0} /\ Len(buf) \in Nat
      /\ phase \in {"init", "segments"} /\ call \in {"read", "write"}
      /\ inbox.type = "empty"
    BY <1>1, TypeFacts DEF IInv, Types
<1>3. StoredInv' /\ UploadInv' /\ DownloadInv' /\ inbox' \in Requests
    BY <1>1, RequestArrives
<1>4. Types'
    BY <1>1, <1>2, <1>3, Due DEF Types
<1>5. BufInv'
    BY <1>1, Due DEF BufInv
<1>6. LockInv'
    BY <1>1, Due DEF IInv, LockInv, Quiet
<1>7. ReadInv'
  <2> SUFFICES ASSUME call = "read" PROVE ReadInv'
      BY <1>1 DEF ReadInv
  <2>1. inbox'.type = (IF phase = "init" THEN "up" ELSE "upseg") /\ buf' = buf
      BY <1>1, Due
  <2>2. Seen' = Seen /\ PrefixOfStored(buf)' = PrefixOfStored(buf)
      BY <1>1, <2>1 DEF Seen, Left, PrefixOfStored
  <2>3. CASE phase = "init"
      BY <1>1, <2>1, <2>3 DEF ReadInv
  <2>4. CASE phase = "segments"
    <3>1. length > FIRST /\ Seen <= length /\ (Seen = length => PrefixOfStored(buf))
        BY <1>2, <2>4 DEF IInv, ReadInv
    <3> QED BY <1>1, <2>1, <2>2, <2>4, <3>1 DEF ReadInv
  <2> QED BY <1>2, <2>3, <2>4
<1>8. WriteInv'
  <2> SUFFICES ASSUME call = "write" PROVE WriteInv'
      BY <1>1 DEF WriteInv
  <2>1. CASE phase = "init"
    <3>1. /\ inbox'.type = "down" /\ inbox'.data = First(Value(calls, length))
          /\ buf' = Rest(Value(calls, length))
        BY <1>1, <2>1, Due
    <3> QED BY <1>1, <2>1, <3>1 DEF WriteInv
  <2>2. CASE phase = "segments"
    <3>1. /\ inbox'.type = "downseg" /\ inbox'.data[1].ver = calls
          /\ inbox'.data[1].pos = Sent + 1
          /\ Len(buf) > 0 /\ Sent \in Int
          /\ Len(buf') = Len(buf) - 1
          /\ \A i \in 1 .. Len(buf) - 1 : buf'[i] = At(calls, Sent + 1 + i)
        BY <1>1, <2>2, Due
    <3>2. Sent' = Sent + 1
        BY <1>1, <1>2, <3>1 DEF Sent
    <3>3. ASSUME session.type = "down" PROVE Good(session.got, calls, Sent + 1)
      <4> DEFINE bound == IF pc = "send" /\ session.toggle # toggle THEN Sent + 1 ELSE Sent
      <4>1. Good(session.got, calls, bound)
          BY <1>2, <2>2, <3>3 DEF IInv, WriteInv
      <4>2. bound \in Int /\ Sent + 1 \in Int /\ bound <= Sent + 1
          BY <3>1
      <4>3. session.got \in Seq(Chunk)
          BY <1>2, <3>3, TypeFacts
      <4> HIDE DEF bound
      <4> QED BY <4>1, <4>2, <4>3, GoodGrows
    <3>4. Len(buf) <= length - FIRST
        BY <2>2 DEF IInv, WriteInv
    <3>5. Len(buf') <= length - FIRST
        BY <1>2, <3>1, <3>4
    <3> QED BY <1>1, <2>2, <3>1, <3>2, <3>3, <3>5 DEF WriteInv
  <2> QED BY <1>2, <2>1, <2>2
<1> QED BY <1>3, <1>4, <1>5, <1>6, <1>7, <1>8 DEF IInv

LEMMA SendUnconfirmedKeeps ==
    ASSUME IInv, SendUnconfirmed
    PROVE  IInv'
<1>1. /\ UNCHANGED <<length, stored, session, alive, outbox, call, pc, phase, toggle, buf,
                     result, calls, emergencies>>
      /\ pc = "send" /\ inbox = Empty /\ inbox' = Request /\ alive
      /\ losses' \in 0 .. MaxLosses /\ losses' # 0
    BY LoseFacts DEF SendUnconfirmed, slave, master, IInv
<1>2. /\ Types /\ phase \in {"init", "segments"} /\ call \in {"read", "write"}
      /\ inbox.type = "empty"
    BY <1>1, TypeFacts DEF IInv, Types
<1>3. StoredInv' /\ UploadInv' /\ DownloadInv' /\ inbox' \in Requests
    BY <1>1, RequestArrives
<1>4. Types'
    BY <1>1, <1>2, <1>3 DEF Types
<1>5. BufInv' /\ LockInv'
    BY <1>1 DEF IInv, BufInv, LockInv
<1>6. ReadInv'
  <2> SUFFICES ASSUME call = "read", phase = "segments" PROVE ReadInv'
      BY <1>1, <1>2 DEF ReadInv
  <2>1. inbox'.type = "upseg"
      BY <1>1, Due
  <2>2. Seen' = Seen /\ PrefixOfStored(buf)' = PrefixOfStored(buf)
      BY <1>1 DEF Seen, Left, PrefixOfStored
  <2> QED BY <1>1, <1>2, <2>1, <2>2 DEF IInv, ReadInv
<1>7. WriteInv'
  <2> SUFFICES ASSUME call = "write" PROVE WriteInv'
      BY <1>1 DEF WriteInv
  <2>1. CASE phase = "init"
      BY <1>1, <2>1 DEF IInv, WriteInv
  <2>2. CASE phase = "segments"
    <3>1. /\ inbox'.type = "downseg" /\ inbox'.data[1].ver = calls
          /\ inbox'.data[1].pos = Sent + 1 /\ inbox'.toggle = toggle
        BY <1>1, <2>2, Due
    <3>2. Sent' = Sent
        BY <1>1 DEF Sent
    <3> QED BY <1>1, <1>2, <2>2, <3>1, <3>2 DEF IInv, WriteInv
  <2> QED BY <1>2, <2>1, <2>2
<1> QED BY <1>3, <1>4, <1>5, <1>6, <1>7 DEF IInv

(***************************************************************************)
(* So does a request or an answer that is missing.                         *)
(***************************************************************************)
LEMMA SendFailsKeeps ==
    ASSUME IInv, SendFails
    PROVE  IInv'
<1>1. /\ UNCHANGED <<length, stored, session, alive, inbox, outbox, call, calls, emergencies>>
      /\ pc = "send" /\ Missing(Remaining)
      /\ \/ inbox # Empty /\ losses' = losses
         \/ inbox = Empty /\ Lose
    BY DEF SendFails, slave, boxes
<1>2. /\ Types /\ length \in Nat \ {0} /\ FIRST \in Nat \ {0} /\ Len(buf) \in Nat
      /\ phase \in {"init", "segments"} /\ call \in {"read", "write"} /\ toggle \in BOOLEAN
    BY <1>1, TypeFacts DEF IInv, Types
<1>3. losses' \in 0 .. MaxLosses /\ ~(losses' = 0 /\ alive)
  <2>1. losses = 0 /\ alive => inbox = Empty
      BY <1>1 DEF IInv, LockInv
  <2>2. losses \in 0 .. MaxLosses
      BY <1>2 DEF Types
  <2>3. CASE inbox # Empty
      BY <1>1, <2>1, <2>2, <2>3
  <2>4. CASE inbox = Empty
      BY <1>1, <1>2, <2>4, LoseFacts
  <2> QED BY <2>3, <2>4
<1>4. /\ buf' = Remaining
      /\ \/ pc' = "idle" /\ phase' = "init" /\ toggle' = FALSE /\ result' = FALSE
         \/ /\ phase = "segments" /\ phase' = "segments" /\ pc' = "send"
            /\ toggle' = ~toggle /\ result' = result /\ (call = "read" \/ buf' # <<>>)
    BY <1>1 DEF Missing, End
<1>5. buf' \in Seq(Chunk) /\ BufInv'
    BY <1>1, <1>4, Due DEF BufInv
<1>6. Types'
    BY <1>1, <1>2, <1>3, <1>4, <1>5 DEF Types
<1>7. StoredInv' /\ UploadInv' /\ DownloadInv' /\ LockInv'
    BY <1>1, <1>3 DEF IInv, StoredInv, UploadInv, DownloadInv, LockInv
<1>8. CASE phase' = "init"
  <2>1. ReadInv' /\ WriteInv'
      BY <1>4, <1>8 DEF ReadInv, WriteInv
  <2> QED BY <1>5, <1>6, <1>7, <2>1 DEF IInv
<1>9. CASE phase' = "segments"
  <2>1. phase = "segments" /\ pc' = "send" /\ toggle' = ~toggle
      BY <1>4, <1>9
  <2>2. ReadInv'
    <3> SUFFICES ASSUME call = "read" PROVE ReadInv'
        BY <1>1 DEF ReadInv
    <3>1. buf' = buf
        BY <1>1, <1>4, Due
    <3>2. Seen' = Seen /\ PrefixOfStored(buf)' = PrefixOfStored(buf)
        BY <1>1, <3>1 DEF Seen, Left, PrefixOfStored
    <3> QED BY <1>1, <1>9, <2>1, <3>1, <3>2 DEF IInv, ReadInv
  <2>3. WriteInv'
    <3> SUFFICES ASSUME call = "write" PROVE WriteInv'
        BY <1>1 DEF WriteInv
    <3>1. /\ Len(buf) > 0 /\ Sent \in Int /\ Len(buf') = Len(buf) - 1
          /\ \A i \in 1 .. Len(buf) - 1 : buf'[i] = At(calls, Sent + 1 + i)
        BY <1>1, <1>4, <2>1, Due
    <3>2. Sent' = Sent + 1
        BY <1>1, <1>2, <3>1 DEF Sent
    <3>3. Len(buf') <= length - FIRST
      <4>1. Len(buf) <= length - FIRST
          BY <2>1 DEF IInv, WriteInv
      <4> QED BY <1>2, <3>1, <4>1
    <3>4. buf' # <<>>
        BY <1>1, <1>4, <1>9
    <3>5. /\ inbox.type \in {"empty", "down", "downseg"}
          /\ inbox.type = "down" => inbox.data = First(Value(calls, length))
        BY <2>1 DEF IInv, WriteInv
    <3>6. inbox.type = "downseg" =>
              inbox.data[1].ver = calls /\ inbox.data[1].pos <= Sent + 1
      <4> HAVE inbox.type = "downseg"
      <4>1. /\ inbox.data[1].ver = calls
            /\ (inbox.data[1].pos <= Sent \/ inbox.data[1].pos = Sent + 1)
          BY <1>1, <2>1 DEF IInv, WriteInv
      <4>2. inbox.data[1].pos \in Int
          BY <1>2, SegmentData DEF IInv
      <4> QED BY <3>1, <4>1, <4>2
    <3>7. ASSUME inbox.type # "down", session.type = "down",
                 NEW m \in Int, Sent + 1 <= m
          PROVE  Good(session.got, calls, m)
      <4> DEFINE bound == IF pc = "send" /\ session.toggle # toggle THEN Sent + 1 ELSE Sent
      <4>1. Good(session.got, calls, bound)
          BY <1>2, <2>1, <3>7 DEF IInv, WriteInv
      <4>2. bound \in Int /\ bound <= m
          BY <3>1, <3>7
      <4>3. session.got \in Seq(Chunk)
          BY <1>2, <3>7, TypeFacts
      <4> HIDE DEF bound
      <4> QED BY <3>7, <4>1, <4>2, <4>3, GoodGrows
    <3>8. inbox.type # "down" /\ session.type = "down" =>
              Good(session.got, calls, IF session.toggle # toggle' THEN Sent + 1 + 1 ELSE Sent + 1)
      <4> HAVE inbox.type # "down" /\ session.type = "down"
      <4> DEFINE m == IF session.toggle # toggle' THEN Sent + 1 + 1 ELSE Sent + 1
      <4>1. m \in Int /\ Sent + 1 <= m
          BY <3>1
      <4> HIDE DEF m
      <4>2. Good(session.got, calls, m)
          BY <3>7, <4>1
      <4> QED BY <4>2 DEF m
    <3> QED BY <1>1, <1>9, <2>1, <3>1, <3>2, <3>3, <3>4, <3>5, <3>6, <3>8 DEF WriteInv
  <2> QED BY <1>5, <1>6, <1>7, <2>2, <2>3 DEF IInv
<1> QED BY <1>4, <1>8, <1>9

LEMMA ReceiveTimeoutKeeps ==
    ASSUME IInv, ReceiveTimeout
    PROVE  IInv'
<1>1. /\ UNCHANGED <<length, stored, session, alive, inbox, call, calls, emergencies>>
      /\ pc = "receive" /\ Missing(buf) /\ Lose /\ outbox' \in {outbox, Empty}
    BY DEF ReceiveTimeout, slave
<1>2. /\ Types /\ length \in Nat \ {0} /\ FIRST \in Nat \ {0} /\ Len(buf) \in Nat
      /\ phase \in {"init", "segments"} /\ call \in {"read", "write"} /\ toggle \in BOOLEAN
    BY <1>1, TypeFacts DEF IInv, Types
<1>3. losses' \in 0 .. MaxLosses /\ ~(losses' = 0 /\ alive)
    BY <1>1, <1>2, LoseFacts
<1>4. /\ buf' = buf
      /\ \/ pc' = "idle" /\ phase' = "init" /\ toggle' = FALSE /\ result' = FALSE
         \/ /\ phase = "segments" /\ phase' = "segments" /\ pc' = "send"
            /\ toggle' = ~toggle /\ result' = result /\ (call = "read" \/ buf' # <<>>)
    BY <1>1 DEF Missing, End
<1>5. outbox' \in Answers /\ (outbox' = outbox \/ outbox'.type = "empty")
    BY <1>1, <1>2 DEF Types, Answers, Empty
<1>6. Types'
    BY <1>1, <1>2, <1>3, <1>4, <1>5 DEF Types
<1>7. StoredInv' /\ DownloadInv' /\ LockInv' /\ BufInv'
    BY <1>1, <1>3, <1>4 DEF IInv, StoredInv, DownloadInv, LockInv, BufInv
<1>8. UploadInv'
    BY <1>1, <1>5 DEF IInv, UploadInv
<1>9. CASE phase' = "init"
  <2>1. ReadInv' /\ WriteInv'
      BY <1>4, <1>9 DEF ReadInv, WriteInv
  <2> QED BY <1>6, <1>7, <1>8, <2>1 DEF IInv
<1>10. CASE phase' = "segments"
  <2>1. phase = "segments" /\ pc' = "send" /\ toggle' = ~toggle
      BY <1>4, <1>10
  <2>2. ReadInv'
    <3> SUFFICES ASSUME call = "read" PROVE ReadInv'
        BY <1>1 DEF ReadInv
    <3>1. length > FIRST /\ inbox.type \in {"empty", "upseg"}
        BY <1>1, <2>1 DEF IInv, ReadInv
    <3>2. Seen <= length /\ (Seen = length => PrefixOfStored(buf))
        BY <1>1, <2>1 DEF IInv, ReadInv
    <3>3. Left \in Nat /\ Left' = Left
        BY <1>1, <1>2 DEF IInv, UploadInv, Left
    <3>4. Seen \in Nat /\ Seen' \in Nat /\ Seen' <= Seen
      <4>1. CASE outbox' = outbox
          BY <1>2, <1>4, <3>3, <4>1 DEF Seen
      <4>2. CASE outbox'.type = "empty"
          BY <1>2, <1>4, <3>3, <4>2 DEF Seen
      <4> QED BY <1>5, <4>1, <4>2
    <3>5. Seen' <= length /\ (Seen' = length => Seen = length)
        BY <1>2, <3>2, <3>4
    <3>6. PrefixOfStored(buf)' = PrefixOfStored(buf)
        BY <1>1, <1>4 DEF PrefixOfStored
    <3> QED BY <1>1, <1>10, <3>1, <3>2, <3>5, <3>6 DEF ReadInv
  <2>3. WriteInv'
    <3> SUFFICES ASSUME call = "write" PROVE WriteInv'
        BY <1>1 DEF WriteInv
    <3>1. /\ Len(buf) <= length - FIRST /\ buf # <<>>
          /\ \A i \in 1 .. Len(buf) : buf[i] = At(calls, Sent + i)
          /\ inbox.type \in {"empty", "downseg"}
          /\ inbox.type = "downseg" => inbox.data[1].ver = calls /\ inbox.data[1].pos = Sent
          /\ session.type = "down" => Good(session.got, calls, Sent)
        BY <1>1, <1>4, <1>10, <2>1 DEF IInv, WriteInv
    <3>2. Sent' = Sent /\ Sent \in Int
        BY <1>1, <1>2, <1>4 DEF Sent
    <3>3. ASSUME session.type = "down"
          PROVE  Good(session.got, calls, IF session.toggle # toggle' THEN Sent + 1 ELSE Sent)
      <4> DEFINE m == IF session.toggle # toggle' THEN Sent + 1 ELSE Sent
      <4>1. m \in Int /\ Sent <= m
          BY <3>2
      <4>2. session.got \in Seq(Chunk)
          BY <1>2, <3>3, TypeFacts
      <4> HIDE DEF m
      <4>3. Good(session.got, calls, m)
          BY <3>1, <3>2, <3>3, <4>1, <4>2, GoodGrows
      <4> QED BY <4>3 DEF m
    <3> QED BY <1>1, <1>4, <1>10, <2>1, <3>1, <3>2, <3>3 DEF WriteInv
  <2> QED BY <1>6, <1>7, <1>8, <2>2, <2>3 DEF IInv
<1> QED BY <1>4, <1>9, <1>10

(***************************************************************************)
(* So does an answer that is received.                                     *)
(***************************************************************************)
LEMMA ReceiveBasics ==
    ASSUME IInv, Receive
    PROVE  /\ UNCHANGED <<length, stored, session, alive, inbox, call, calls, losses,
                          emergencies>>
           /\ pc = "receive" /\ alive /\ outbox' = Empty /\ outbox'.type = "empty"
           /\ outbox' \in Answers
           /\ StoredInv' /\ UploadInv' /\ DownloadInv'
           /\ losses = 0 => inbox = Empty
<1>1. /\ UNCHANGED <<length, stored, session, alive, inbox, call, calls, losses,
                     emergencies>>
      /\ pc = "receive" /\ alive /\ outbox' = Empty
      /\ outbox.type \notin {"empty", "emergency"}
    BY DEF Receive, slave
<1>2. outbox' \in Answers /\ outbox'.type = "empty"
    BY <1>1 DEF Answers, Empty
<1>3. StoredInv' /\ UploadInv' /\ DownloadInv'
    BY <1>1, <1>2 DEF IInv, StoredInv, UploadInv, DownloadInv
<1>4. losses = 0 => inbox = Empty
    BY <1>1 DEF IInv, LockInv, Quiet
<1> QED BY <1>1, <1>2, <1>3, <1>4

(* Where a received answer leads: the call ends or goes on with segments.  *)
Ends == pc' = "idle" /\ phase' = "init" /\ toggle' = FALSE /\ result' \in BOOLEAN
GoesOn == pc' = "send" /\ phase' = "segments" /\ toggle' \in BOOLEAN /\ result' = result

LEMMA FirstReadKeeps ==
    ASSUME IInv, Receive, call = "read", phase = "init"
    PROVE  /\ buf' \in Seq(Chunk) /\ Len(buf') <= length /\ (Ends \/ (GoesOn /\ ReadInv'))
           /\ Ends /\ result' => buf' = stored
<1>1. /\ UNCHANGED <<length, stored, session, inbox, call>>
      /\ pc = "receive" /\ outbox'.type = "empty" /\ FirstRead
    BY ReceiveBasics DEF Receive
<1>2. /\ Types /\ length \in Nat \ {0} /\ FIRST \in Nat \ {0} /\ Len(buf) \in Nat
      /\ stored \in Seq(Chunk) /\ Len(stored) = length /\ buf \in Seq(Chunk)
      /\ toggle \in BOOLEAN /\ Len(buf) <= length
    BY TypeFacts, StoredFacts DEF IInv, Types, BufInv
<1>3. /\ First(stored) \in Seq(Chunk)
      /\ Len(First(stored)) = IF length < FIRST THEN length ELSE FIRST
      /\ \A i \in 1 .. Len(First(stored)) : First(stored)[i] = stored[i]
      /\ length <= FIRST => First(stored) = stored
    BY <1>2, FirstFacts
<1>4. Len(First(stored)) <= length
    BY <1>2, <1>3
<1>5. CASE outbox.type = "up"
  <2>1. outbox.data = First(stored) /\ outbox.len = length
      BY <1>5 DEF IInv, UploadInv
  <2>2. CASE Len(outbox.data) = outbox.len /\ End(Len(outbox.data) = length)
    <3>1. length <= FIRST
        BY <1>2, <1>3, <2>1, <2>2
    <3>2. buf' = First(stored)
        BY <1>1, <1>5, <2>1 DEF FirstRead
    <3>3. Ends
        BY <2>2 DEF End, Ends
    <3> QED BY <1>3, <1>4, <3>1, <3>2, <3>3 DEF GoesOn, Ends
  <2>3. CASE /\ Len(outbox.data) < outbox.len
             /\ pc' = "send" /\ phase' = "segments" /\ UNCHANGED <<toggle, result>>
    <3>1. length > FIRST /\ Len(First(stored)) = FIRST
        BY <1>2, <1>3, <2>1, <2>3
    <3>2. buf' = First(stored)
        BY <1>1, <1>5, <2>1 DEF FirstRead
    <3>3. GoesOn
        BY <1>2, <2>3 DEF GoesOn
    <3>4. /\ inbox.type \in {"up", "empty"}
          /\ inbox.type = "empty" => session.type = "up" /\ Len(session.rest) = length - FIRST
        BY <1>1, <3>1 DEF IInv, ReadInv
    <3>5. ASSUME inbox.type = "empty" PROVE (Seen <= length /\ (Seen = length => PrefixOfStored(buf)))'
      <4>1. Seen' = FIRST + (length - FIRST)
          BY <1>1, <3>1, <3>2, <3>4, <3>5 DEF Seen, Left
      <4>2. PrefixOfStored(buf)'
          BY <1>1, <1>3, <3>2 DEF PrefixOfStored
      <4> QED BY <1>1, <1>2, <4>1, <4>2
    <3>6. ReadInv'
        BY <1>1, <3>1, <3>2, <3>4, <3>5, <2>3 DEF ReadInv
    <3>7. ~Ends
        BY <2>3 DEF Ends
    <3> QED BY <1>3, <1>4, <3>2, <3>3, <3>6, <3>7
  <2> QED BY <1>1, <1>5, <2>2, <2>3 DEF FirstRead
<1>6. CASE outbox.type # "up"
  <2>1. End(FALSE) /\ buf' = buf
      BY <1>1, <1>6 DEF FirstRead
  <2> QED BY <1>2, <2>1 DEF End, Ends
<1> QED BY <1>5, <1>6

LEMMA SegmentReadKeeps ==
    ASSUME IInv, Receive, call = "read", phase = "segments"
    PROVE  /\ buf' \in Seq(Chunk) /\ Len(buf') <= length /\ (Ends \/ (GoesOn /\ ReadInv'))
           /\ Ends /\ result' => buf' = stored
<1>1. /\ UNCHANGED <<length, stored, session, inbox, call>>
      /\ pc = "receive" /\ outbox'.type = "empty" /\ SegmentRead
    BY ReceiveBasics DEF Receive
<1>2. /\ Types /\ length \in Nat \ {0} /\ FIRST \in Nat \ {0} /\ Len(buf) \in Nat
      /\ stored \in Seq(Chunk) /\ Len(stored) = length /\ buf \in Seq(Chunk)
      /\ toggle \in BOOLEAN /\ Len(buf) <= length
    BY TypeFacts, StoredFacts DEF IInv, Types, BufInv
<1>3. /\ length > FIRST /\ inbox.type \in {"empty", "upseg"}
      /\ Seen <= length /\ (Seen = length => PrefixOfStored(buf))
    BY <1>1 DEF IInv, ReadInv
<1>4. CASE outbox.type = "upseg"
  <2> DEFINE new == buf \o outbox.data
  <2>1. /\ buf' = new /\ outbox.last \in BOOLEAN
        /\ \/ outbox.last /\ End(Len(buf') = length)
           \/ /\ ~outbox.last /\ pc' = "send" /\ toggle' = ~toggle
              /\ UNCHANGED <<phase, result>>
      BY <1>1, <1>2, <1>4, TypeFacts DEF SegmentRead
  <2>2. /\ outbox.data \in Seq(Chunk) /\ Len(outbox.data) = 1
        /\ outbox.last => session = NoSession /\ outbox.data[1] = stored[length]
        /\ ~outbox.last => /\ session.type = "up"
                           /\ outbox.data[1] = stored[length - Len(session.rest)]
      BY <1>2, <1>4, TypeFacts DEF IInv, UploadInv
  <2>3. /\ new \in Seq(Chunk) /\ Len(new) = Len(buf) + 1
        /\ \A i \in 1 .. Len(buf) + 1 :
              new[i] = IF i <= Len(buf) THEN buf[i] ELSE outbox.data[i - Len(buf)]
    <3> DEFINE d == outbox.data
    <3>1. d \in Seq(Chunk) /\ Len(d) = 1 /\ buf \in Seq(Chunk)
        BY <1>2, <2>2
    <3> HIDE DEF d
    <3>2. /\ buf \o d \in Seq(Chunk) /\ Len(buf \o d) = Len(buf) + 1
          /\ \A i \in 1 .. Len(buf) + 1 :
                (buf \o d)[i] = IF i <= Len(buf) THEN buf[i] ELSE d[i - Len(buf)]
        BY <3>1, Appended
    <3> QED BY <3>2 DEF d
  <2> HIDE DEF new
  <2>4. Left \in Nat /\ Seen = Len(buf) + (Left + 1)
      BY <1>2, <1>4 DEF IInv, UploadInv, Seen, Left
  <2>5. Len(new) <= length
      BY <1>2, <1>3, <2>3, <2>4
  <2>6. ASSUME Len(buf) + (Left + 1) = length
        PROVE  \A i \in 1 .. Len(buf) + 1 : new[i] = stored[i]
    <3>1. outbox.data[1] = stored[Len(buf) + 1]
      <4>1. CASE outbox.last
        <5>1. Left = 0
            BY <2>2, <4>1 DEF Left, NoSession
        <5>2. Len(buf) + 1 = length
            BY <1>2, <2>6, <5>1
        <5> QED BY <2>2, <4>1, <5>2
      <4>2. CASE ~outbox.last
        <5>1. Left = Len(session.rest)
            BY <2>2, <4>2 DEF Left
        <5>2. length - Left = Len(buf) + 1
            BY <1>2, <2>4, <2>6
        <5> QED BY <2>2, <4>2, <5>1, <5>2
      <4> QED BY <4>1, <4>2
    <3>2. PrefixOfStored(buf)
        BY <1>3, <2>4, <2>6
    <3> TAKE i \in 1 .. Len(buf) + 1
    <3>3. CASE i <= Len(buf)
      <4>1. i \in 1 .. Len(buf)
          BY <1>2, <3>3
      <4> QED BY <2>3, <3>2, <3>3, <4>1 DEF PrefixOfStored
    <3>4. CASE i = Len(buf) + 1
      <4>1. ~(i <= Len(buf)) /\ i - Len(buf) = 1
          BY <1>2, <3>4
      <4> QED BY <2>3, <3>1, <3>4, <4>1
    <3> QED BY <1>2, <3>3, <3>4
  <2>7. CASE outbox.last
    <3>1. End(Len(buf') = length)
        BY <2>1, <2>7
    <3>2. Ends /\ result' = (Len(buf') = length)
        BY <3>1 DEF End, Ends
    <3>3. ASSUME Len(new) = length PROVE new = stored
      <4>1. Left = 0
          BY <2>2, <2>7 DEF Left, NoSession
      <4>2. Len(buf) + (Left + 1) = length
          BY <1>2, <2>3, <3>3, <4>1
      <4>3. \A i \in 1 .. Len(new) : new[i] = stored[i]
          BY <2>3, <2>6, <4>2
      <4> QED BY <1>2, <2>3, <3>3, <4>3, SeqEqual
    <3> QED BY <2>1, <2>3, <2>5, <3>2, <3>3
  <2>8. CASE ~outbox.last
    <3>1. pc' = "send" /\ toggle' = ~toggle /\ phase' = "segments" /\ result' = result
        BY <2>1, <2>8
    <3>2. GoesOn
        BY <1>2, <3>1 DEF GoesOn
    <3>3. Seen' = Len(new) + Left
        BY <1>1, <2>1 DEF Seen, Left
    <3>4. Seen' <= length
        BY <1>2, <1>3, <2>3, <2>4, <3>3
    <3>5. ASSUME Seen' = length PROVE PrefixOfStored(buf)'
      <4>1. Len(buf) + (Left + 1) = length
          BY <1>2, <2>3, <2>4, <3>3, <3>5
      <4> QED BY <1>1, <2>1, <2>3, <2>6, <4>1 DEF PrefixOfStored
    <3>6. ReadInv'
        BY <1>1, <1>3, <3>1, <3>4, <3>5 DEF ReadInv
    <3>7. ~Ends
        BY <3>1 DEF Ends
    <3> QED BY <2>1, <2>3, <2>5, <3>2, <3>6, <3>7
  <2> QED BY <2>7, <2>8
<1>5. CASE outbox.type # "upseg"
  <2>1. End(FALSE) /\ buf' = buf
      BY <1>1, <1>5 DEF SegmentRead
  <2> QED BY <1>2, <2>1 DEF End, Ends
<1> QED BY <1>4, <1>5

LEMMA WrittenKeeps ==
    ASSUME IInv, Receive, call = "write"
    PROVE  /\ buf' = buf /\ (Ends \/ (GoesOn /\ WriteInv'))
           /\ Ends /\ result' /\ losses = 0 => stored = Value(calls, length)
<1>1. /\ UNCHANGED <<length, stored, session, inbox, call, calls, buf>>
      /\ pc = "receive" /\ alive /\ (losses = 0 => inbox = Empty)
      /\ \/ phase = "init" /\ FirstWritten
         \/ phase = "segments" /\ SegmentWritten
    BY ReceiveBasics DEF Receive
<1>2. /\ Types /\ length \in Nat \ {0} /\ FIRST \in Nat \ {0} /\ Len(buf) \in Nat
      /\ buf \in Seq(Chunk) /\ toggle \in BOOLEAN /\ calls \in 0 .. calls
      /\ calls \in 0 .. MaxCalls
    BY TypeFacts DEF IInv, Types
<1>3. ASSUME buf # <<>>, pc' = "send", phase' = "segments", toggle' \in BOOLEAN,
             Len(buf) <= length - FIRST,
             \A i \in 1 .. Len(buf) : buf[i] = At(calls, Sent + i),
             inbox.type \in {"empty", "down", "downseg"},
             inbox.type = "down" => inbox.data = First(Value(calls, length)),
             inbox.type = "downseg" => inbox.data[1].ver = calls /\ inbox.data[1].pos = Sent,
             inbox.type # "down" /\ session.type = "down" => Good(session.got, calls, Sent)
      PROVE  WriteInv'
  <2>1. Sent' = Sent /\ Sent \in Int
      BY <1>1, <1>2 DEF Sent
  <2>2. inbox.type # "down" /\ session.type = "down" =>
            Good(session.got, calls, IF session.toggle # toggle' THEN Sent + 1 ELSE Sent)
    <3> HAVE inbox.type # "down" /\ session.type = "down"
    <3> DEFINE m == IF session.toggle # toggle' THEN Sent + 1 ELSE Sent
    <3>1. m \in Int /\ Sent <= m
        BY <2>1
    <3>2. session.got \in Seq(Chunk)
        BY <1>2, TypeFacts
    <3> HIDE DEF m
    <3>3. Good(session.got, calls, m)
        BY <1>3, <2>1, <3>1, <3>2, GoodGrows
    <3> QED BY <3>3 DEF m
  <2> QED BY <1>1, <1>3, <2>1, <2>2 DEF WriteInv
<1>4. CASE phase = "init" /\ FirstWritten
  <2>1. /\ buf = Rest(Value(calls, length))
        /\ inbox.type \in {"down", "empty"}
        /\ inbox.type = "down" => inbox.data = First(Value(calls, length))
        /\ inbox.type = "empty" /\ length > FIRST =>
              session.type = "down" /\ session.got = First(Value(calls, length))
      BY <1>1, <1>4 DEF IInv, WriteInv
  <2>2. CASE /\ buf # <<>> /\ pc' = "send" /\ phase' = "segments"
             /\ UNCHANGED <<toggle, result>>
    <3> DEFINE v == Value(calls, length)
    <3>1. /\ v \in Seq(Chunk) /\ Len(v) = length
          /\ \A i \in 1 .. length : v[i] = At(calls, i)
        BY <1>2, ValueFacts
    <3>2. buf = Rest(v)
        BY <2>1
    <3> HIDE DEF v
    <3>3. length > FIRST
        BY <1>2, <2>2, <3>1, <3>2, FirstFacts
    <3>4. /\ Len(buf) = length - FIRST /\ \A i \in 1 .. Len(buf) : buf[i] = v[FIRST + i]
      <4>1. Len(First(v)) = FIRST
          BY <1>2, <3>1, <3>3, FirstFacts
      <4> QED BY <3>1, <3>2, <4>1, FirstFacts
    <3>5. Sent = FIRST
        BY <1>2, <3>4 DEF Sent
    <3>6. ASSUME NEW i \in 1 .. Len(buf) PROVE buf[i] = At(calls, Sent + i)
      <4>1. FIRST + i \in 1 .. length
          BY <1>2, <3>3, <3>4
      <4> QED BY <3>1, <3>4, <3>5, <4>1
    <3>7. inbox.type # "down" /\ session.type = "down" => Good(session.got, calls, Sent)
      <4> HAVE inbox.type # "down" /\ session.type = "down"
      <4>1. session.got = First(Value(calls, length))
          BY <2>1, <3>3
      <4> QED BY <1>2, <3>3, <3>5, <4>1, FirstIsGood
    <3>8. Len(buf) <= length - FIRST
        BY <1>2, <3>4
    <3>9. WriteInv'
        BY <1>2, <1>3, <2>1, <2>2, <3>6, <3>7, <3>8
    <3> QED BY <1>1, <1>2, <2>2, <3>9 DEF GoesOn, Ends
  <2>3. CASE outbox.type \in {"up", "down"} /\ buf = <<>> /\ End(TRUE)
    <3>1. losses = 0 => stored = Value(calls, length)
        BY <1>1, <1>4, <2>3 DEF IInv, LockInv
    <3> QED BY <1>1, <2>3, <3>1 DEF End, Ends
  <2>4. CASE End(FALSE)
      BY <1>1, <2>4 DEF End, Ends
  <2> QED BY <1>4, <2>2, <2>3, <2>4 DEF FirstWritten
<1>5. CASE phase = "segments" /\ SegmentWritten
  <2>1. CASE /\ buf # <<>> /\ pc' = "send" /\ toggle' = ~toggle
             /\ UNCHANGED <<phase, result>>
    <3>1. /\ Len(buf) <= length - FIRST
          /\ \A i \in 1 .. Len(buf) : buf[i] = At(calls, Sent + i)
          /\ inbox.type \in {"empty", "down", "downseg"}
          /\ inbox.type = "down" => inbox.data = First(Value(calls, length))
          /\ inbox.type = "downseg" => inbox.data[1].ver = calls /\ inbox.data[1].pos = Sent
          /\ inbox.type # "down" /\ session.type = "down" => Good(session.got, calls, Sent)
        BY <1>1, <1>5 DEF IInv, WriteInv
    <3>2. WriteInv'
        BY <1>2, <1>3, <1>5, <2>1, <3>1
    <3> QED BY <1>1, <1>2, <1>5, <2>1, <3>2 DEF GoesOn, Ends
  <2>2. CASE outbox.type = "downseg" /\ buf = <<>> /\ End(TRUE)
    <3>1. losses = 0 => stored = Value(calls, length)
        BY <1>1, <1>5, <2>2 DEF IInv, LockInv
    <3> QED BY <1>1, <2>2, <3>1 DEF End, Ends
  <2>3. CASE End(FALSE)
      BY <1>1, <2>3 DEF End, Ends
  <2> QED BY <1>5, <2>1, <2>2, <2>3 DEF SegmentWritten
<1> QED BY <1>1, <1>4, <1>5

LEMMA ReceiveKeeps ==
    ASSUME IInv, Receive
    PROVE  /\ IInv' /\ (Ends \/ GoesOn)
           /\ Ends /\ result' /\ call = "read" => buf' = stored
           /\ Ends /\ result' /\ call = "write" /\ losses = 0 => stored = Value(calls, length)
<1>1. /\ UNCHANGED <<length, stored, session, alive, inbox, call, calls, losses,
                     emergencies>>
      /\ pc = "receive" /\ outbox' = Empty /\ outbox'.type = "empty" /\ outbox' \in Answers
      /\ StoredInv' /\ UploadInv' /\ DownloadInv'
      /\ losses = 0 => inbox = Empty
    BY ReceiveBasics
<1>2. /\ Types /\ phase \in {"init", "segments"} /\ call \in {"read", "write"}
      /\ buf \in Seq(Chunk) /\ Len(buf) <= length
    BY <1>1 DEF IInv, Types, BufInv
<1>3. /\ buf' \in Seq(Chunk) /\ Len(buf') <= length /\ (Ends \/ GoesOn)
      /\ call = "read" /\ GoesOn => ReadInv'
      /\ call = "write" /\ GoesOn => WriteInv'
      /\ Ends /\ result' /\ call = "read" => buf' = stored
      /\ Ends /\ result' /\ call = "write" /\ losses = 0 => stored = Value(calls, length)
    BY <1>2, FirstReadKeeps, SegmentReadKeeps, WrittenKeeps DEF Ends, GoesOn
<1>4. Types'
    BY <1>1, <1>2, <1>3 DEF Types, Ends, GoesOn
<1>5. BufInv'
    BY <1>1, <1>3 DEF BufInv
<1>6. LockInv'
    BY <1>1, <1>3 DEF LockInv, Quiet, Ends, GoesOn
<1>7. ReadInv'
    BY <1>1, <1>2, <1>3 DEF ReadInv, Ends
<1>8. WriteInv'
    BY <1>1, <1>2, <1>3 DEF WriteInv, Ends
<1> QED BY <1>1, <1>3, <1>4, <1>5, <1>6, <1>7, <1>8 DEF IInv

(***************************************************************************)
(* The invariant                                                           *)
(***************************************************************************)
LEMMA InitInv == Init => IInv
<1> SUFFICES ASSUME Init PROVE IInv
    OBVIOUS
<1>1. /\ length \in Lengths /\ length \in Nat /\ 0 \in 0 .. MaxCalls /\ 0 \in 0 .. 0
      /\ stored = Value(0, length) /\ buf = <<>> /\ calls = 0
    BY SdoAssumption DEF Init
<1>2. Value(0, length) \in Seq(Chunk) /\ buf \in Seq(Chunk) /\ Len(buf) = 0
  <2>1. Value(0, length) \in Seq(Chunk)
      BY <1>1, ValueFacts
  <2> QED BY <1>1, <2>1
<1>3. StoredInv
    BY <1>1 DEF StoredInv
<1>4. inbox \in Requests /\ outbox \in Answers /\ session \in Sessions
    BY DEF Init, Requests, Answers, Sessions
<1>5. inbox.type = "empty" /\ outbox.type = "empty" /\ session.type = "none"
    BY DEF Init, Empty, NoSession
<1>6. Types
  <2>1. stored \in Seq(Chunk)
      BY <1>1, <1>2
  <2>2. calls \in 0 .. MaxCalls /\ losses \in 0 .. MaxLosses
        /\ emergencies \in 0 .. MaxEmergencies
      BY SdoAssumption DEF Init
  <2> QED BY <1>1, <1>2, <1>4, <2>1, <2>2 DEF Init, Types
<1>7. UploadInv /\ DownloadInv /\ BufInv
    BY <1>1, <1>2, <1>5 DEF UploadInv, DownloadInv, BufInv
<1>8. ReadInv /\ WriteInv /\ LockInv
    BY <1>5 DEF Init, ReadInv, WriteInv, LockInv, Quiet
<1> QED BY <1>3, <1>6, <1>7, <1>8 DEF IInv

LEMMA NextKeeps == IInv /\ [Next]_vars => IInv'
<1> SUFFICES ASSUME IInv, [Next]_vars PROVE IInv'
    OBVIOUS
<1>1. CASE Answer
    BY <1>1, AnswerKeeps
<1>2. CASE Emergency
    BY <1>2, EmergencyKeeps
<1>3. CASE Vanish
    BY <1>3, VanishKeeps
<1>4. ASSUME NEW c \in {"read", "write"}, Begin(c) PROVE IInv'
    BY <1>4, BeginKeeps
<1>5. CASE Drain
    BY <1>5, DrainKeeps
<1>6. CASE Send
    BY <1>6, SendKeeps
<1>7. CASE SendUnconfirmed
    BY <1>7, SendUnconfirmedKeeps
<1>8. CASE SendFails
    BY <1>8, SendFailsKeeps
<1>9. CASE ReceiveEmergency
    BY <1>9, ReceiveEmergencyKeeps
<1>10. CASE Receive
    BY <1>10, ReceiveKeeps
<1>11. CASE ReceiveTimeout
    BY <1>11, ReceiveTimeoutKeeps
<1>12. CASE UNCHANGED vars
  <2>1. UNCHANGED <<length, stored, session, alive, inbox, outbox, call, pc, phase, toggle,
                    buf, result, calls, losses, emergencies>>
      BY <1>12 DEF vars, slave, boxes, master
  <2>2. Types' /\ StoredInv' /\ UploadInv' /\ DownloadInv' /\ BufInv'
      BY <2>1 DEF IInv, Types, StoredInv, UploadInv, DownloadInv, BufInv
  <2>3. ReadInv' /\ WriteInv' /\ LockInv'
      BY <2>1 DEF IInv, ReadInv, Seen, Left, PrefixOfStored, WriteInv, Sent, LockInv, Quiet
  <2> QED BY <2>2, <2>3 DEF IInv
<1> QED BY <1>1, <1>2, <1>3, <1>4, <1>5, <1>6, <1>7, <1>8, <1>9, <1>10, <1>11, <1>12
        DEF Next, Master

THEOREM Inductive == Spec => []IInv
<1> QED BY InitInv, NextKeeps, PTL DEF Spec

(* The values a transfer handles stay chunks of values that were written,  *)
(* and never more of them than the object has: buf, the buffer that        *)
(* ethercatcoe.c:228 appends to, never outgrows the object.                *)
THEOREM Typed == Spec => []TypeOK
<1>1. IInv => TypeOK
  <2> SUFFICES ASSUME IInv PROVE TypeOK
      OBVIOUS
  <2>1. Types /\ StoredInv /\ BufInv
      BY DEF IInv
  <2>2. /\ Len(stored) = length /\ Len(buf) <= length
        /\ stored \in Seq(Chunk) /\ buf \in Seq(Chunk)
      BY <2>1, StoredFacts DEF Types, BufInv
  <2>3. Range(stored) \cup Range(buf) \subseteq Chunk
      BY <2>2 DEF Range
  <2>4. /\ inbox.type \in {"empty", "up", "upseg", "down", "downseg"}
        /\ outbox.type \in {"empty", "up", "upseg", "down", "downseg", "abort", "emergency"}
        /\ session.type \in {"none", "up", "down"}
      BY <2>1, TypeFacts
  <2> QED BY <2>1, <2>2, <2>3, <2>4 DEF Types, TypeOK
<1> QED BY <1>1, Inductive, PTL

(***************************************************************************)
(* What the calls promise                                                  *)
(***************************************************************************)
(* A call that has ended stays as it ended until the next one begins.      *)
LEMMA Resumes ==
    ASSUME IInv, [Next]_vars, pc' = "idle"
    PROVE  \/ UNCHANGED <<length, call, pc, buf, result, calls, losses>> /\ Answer
           \/ UNCHANGED <<length, stored, call, pc, buf, result, calls, losses>>
           \/ result' = FALSE
           \/ Receive
<1>1. CASE Answer
    BY <1>1 DEF Answer, master
<1>2. CASE Emergency \/ Vanish
    BY <1>2 DEF Emergency, Vanish, slave, master
<1>3. ASSUME NEW c \in {"read", "write"}, Begin(c) PROVE FALSE
    BY <1>3 DEF Begin
<1>4. CASE Drain \/ Send
    BY <1>4 DEF Drain, Send
<1>5. CASE SendUnconfirmed
    BY <1>5 DEF SendUnconfirmed, master
<1>6. CASE SendFails \/ ReceiveTimeout
  <2>1. \E rest : Missing(rest)
      BY <1>6 DEF SendFails, ReceiveTimeout
  <2> QED BY <2>1 DEF Missing, End
<1>7. CASE ReceiveEmergency
    BY <1>7 DEF ReceiveEmergency, master
<1>8. CASE UNCHANGED vars
    BY <1>8 DEF vars, slave, master
<1> QED BY <1>1, <1>2, <1>3, <1>4, <1>5, <1>6, <1>7, <1>8 DEF Next, Master

(* What a read hands back when sdoRead returns true is one of the values   *)
(* the object has had, whole and in order (EthercatBusBase.cpp:545,        *)
(* ethercatcoe.c:84): for every length of the object, any number of calls, *)
(* lost and late frames, emergencies, and a slave that disappears.         *)
THEOREM ReadsAreWhole == Spec => []ReadIsWhole
<1>1. Init => ReadIsWhole
    BY DEF Init, ReadIsWhole, Done
<1>2. ASSUME IInv, ReadIsWhole, [Next]_vars
      PROVE  ReadIsWhole'
  <2> SUFFICES ASSUME pc' = "idle", call' = "read", result'
               PROVE  (\E v \in 0 .. calls : buf = Value(v, length))'
      BY DEF ReadIsWhole, Done
  <2>1. CASE UNCHANGED <<length, call, pc, buf, result, calls>>
      BY <1>2, <2>1 DEF ReadIsWhole, Done
  <2>2. CASE Receive
    <3>1. /\ UNCHANGED <<length, stored, call, calls>> /\ pc = "receive"
        BY <1>2, <2>2, ReceiveBasics
    <3>2. Ends
        BY <1>2, <2>2, ReceiveKeeps DEF GoesOn
    <3>3. buf' = stored
        BY <1>2, <2>2, <3>1, <3>2, ReceiveKeeps
    <3> QED BY <1>2, <3>1, <3>3 DEF IInv, StoredInv
  <2> QED BY <1>2, <2>1, <2>2, Resumes
<1> QED BY <1>1, <1>2, Inductive, PTL DEF Spec

(* When sdoWrite returns true and every frame came in time, the slave      *)
(* holds the new value, and keeps it until the next call                   *)
(* (EthercatBusBase.cpp:516, ethercatcoe.c:322).                           *)
THEOREM WritesAreStored == Spec => []WriteIsStored
<1>1. Init => WriteIsStored
    BY DEF Init, WriteIsStored, Done
<1>2. ASSUME IInv, WriteIsStored, [Next]_vars
      PROVE  WriteIsStored'
  <2> SUFFICES ASSUME pc' = "idle", call' = "write", result', losses' = 0
               PROVE  (stored = Value(calls, length))'
      BY DEF WriteIsStored, Done
  <2>1. CASE UNCHANGED <<length, stored, call, pc, result, calls, losses>>
      BY <1>2, <2>1 DEF WriteIsStored, Done
  <2>2. CASE UNCHANGED <<length, call, pc, buf, result, calls, losses>> /\ Answer
    <3>1. alive /\ inbox = Empty
        BY <1>2, <2>2 DEF Answer, IInv, LockInv
    <3> QED BY <2>2, <3>1 DEF Answer, Upload, UploadSegment, Download, DownloadSegment, Empty
  <2>3. CASE Receive
    <3>1. /\ UNCHANGED <<length, stored, call, calls, losses>> /\ pc = "receive"
        BY <1>2, <2>3, ReceiveBasics
    <3>2. Ends
        BY <1>2, <2>3, ReceiveKeeps DEF GoesOn
    <3>3. stored = Value(calls, length)
        BY <1>2, <2>3, <3>1, <3>2, ReceiveKeeps
    <3> QED BY <3>1, <3>3
  <2> QED BY <1>2, <2>1, <2>2, <2>3, Resumes
<1> QED BY <1>1, <1>2, Inductive, PTL DEF Spec
=============================================================================
