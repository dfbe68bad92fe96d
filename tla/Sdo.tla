-------------------------------- MODULE Sdo --------------------------------
(***************************************************************************)
(* CoE SDO transfers: ecx_SDOread and ecx_SDOwrite, as sdoRead and         *)
(* sdoWrite of EthercatBusBase call them, over the two mailboxes of a      *)
(* slave. One object is read and written, by one call after the other      *)
(* (contextMutex_).                                                        *)
(*                                                                         *)
(* The object's value is a sequence of chunks; a chunk is its position and *)
(* the version of the value, the number of the call that wrote it. One     *)
(* chunk is expedited, up to FIRST chunks fit the first frame of a normal  *)
(* transfer, the rest follows in segments of one chunk. The mailbox        *)
(* counter is sent but never looked at, and is left out.                   *)
(*                                                                         *)
(* The slave answers one request after the other and waits while its       *)
(* answer mailbox is full. It checks the toggle bit and the size of what   *)
(* it is sent.                                                             *)
(***************************************************************************)
EXTENDS Integers, Sequences, SequencesExt

CONSTANTS
    FIRST,      \* chunks in the first frame of a normal transfer
    Lengths,    \* lengths of the object
    MayVanish,  \* whether the slave may be unplugged for good
    MaxCalls, MaxLosses, MaxEmergencies  \* bounds

ASSUME SdoAssumption ==
    /\ FIRST \in Nat \ {0} /\ Lengths \subseteq Nat \ {0} /\ Lengths # {}
    /\ MayVanish \in BOOLEAN
    /\ {MaxCalls, MaxLosses, MaxEmergencies} \subseteq Nat

Chunk == [ver : 0 .. MaxCalls, pos : Nat \ {0}]
Value(v, len) == [i \in 1 .. len |-> [ver |-> v, pos |-> i]]
Empty == [type |-> "empty"]
NoSession == [type |-> "none"]

VARIABLES
    length,   \* chunks of the object
    stored,   \* its value in the slave
    inbox,    \* request mailbox of the slave
    outbox,   \* answer mailbox
    session,  \* the slave's segmented transfer in progress
    alive,    \* whether the slave is there
    call,     \* "read", "write" or "none"
    pc,       \* where the call is
    phase,    \* "init" or "segments"
    toggle,   \* toggle bit of the next segment request
    buf,      \* chunks read so far, or still to be written
    result,   \* what the last call returned
    calls, losses, emergencies

slave == <<length, stored, session, alive>>
boxes == <<inbox, outbox>>
master == <<call, pc, phase, toggle, buf, result>>
vars == <<slave, boxes, master, calls, losses, emergencies>>

TypeOK ==
    /\ length \in Lengths
    /\ Range(stored) \cup Range(buf) \subseteq Chunk
    /\ Len(stored) = length /\ Len(buf) <= length
    /\ inbox.type \in {"empty", "up", "upseg", "down", "downseg"}
    /\ outbox.type \in {"empty", "up", "upseg", "down", "downseg", "abort", "emergency"}
    /\ session.type \in {"none", "up", "down"}
    /\ alive \in BOOLEAN
    /\ call \in {"none", "read", "write"}
    /\ pc \in {"idle", "drain", "send", "receive"}
    /\ phase \in {"init", "segments"}
    /\ toggle \in BOOLEAN /\ result \in BOOLEAN
    /\ calls \in 0 .. MaxCalls /\ losses \in 0 .. MaxLosses
    /\ emergencies \in 0 .. MaxEmergencies

Init ==
    /\ length \in Lengths /\ stored = Value(0, length)
    /\ inbox = Empty /\ outbox = Empty /\ session = NoSession /\ alive = TRUE
    /\ call = "none" /\ pc = "idle" /\ phase = "init" /\ toggle = FALSE
    /\ buf = <<>> /\ result = FALSE
    /\ calls = 0 /\ losses = 0 /\ emergencies = 0

First(v) == SubSeq(v, 1, IF Len(v) < FIRST THEN Len(v) ELSE FIRST)
RestOverlapping(v) == SubSeq(v, Len(First(v)), Len(v))
Rest(v) == SubSeq(v, Len(First(v)) + 1, Len(v))

(***************************************************************************)
(* The slave.                                                              *)
(***************************************************************************)
Abort == outbox' = [type |-> "abort"] /\ session' = NoSession

(* A new value may be refused; one of the wrong size always is. *)
Store(value, answer) ==
    /\ session' = NoSession
    /\ \/ /\ Len(value) = length
          /\ stored' = value /\ outbox' = [type |-> answer]
       \/ UNCHANGED stored /\ outbox' = [type |-> "abort"]

Upload ==
    /\ inbox.type = "up"
    /\ outbox' = [type |-> "up", len |-> length, data |-> First(stored)]
    /\ session' = IF length <= FIRST THEN NoSession
                  ELSE [type |-> "up", rest |-> Rest(stored), toggle |-> FALSE]
    /\ UNCHANGED stored

UploadSegment ==
    /\ inbox.type = "upseg"
    /\ \/ /\ session.type = "up" /\ session.toggle = inbox.toggle
          /\ outbox' = [type |-> "upseg", data |-> <<Head(session.rest)>>,
                        last |-> Len(session.rest) = 1]
          /\ session' = IF Len(session.rest) = 1 THEN NoSession
                        ELSE [type |-> "up", rest |-> Tail(session.rest),
                              toggle |-> ~session.toggle]
       \/ ~(session.type = "up" /\ session.toggle = inbox.toggle) /\ Abort
    /\ UNCHANGED stored

Download ==
    /\ inbox.type = "down"
    /\ \/ Len(inbox.data) = inbox.len /\ Store(inbox.data, "down")
       \/ /\ Len(inbox.data) < inbox.len
          /\ outbox' = [type |-> "down"]
          /\ session' = [type |-> "down", got |-> inbox.data, toggle |-> FALSE]
          /\ UNCHANGED stored

DownloadSegment ==
    /\ inbox.type = "downseg"
    /\ LET fits == session.type = "down" /\ session.toggle = inbox.toggle IN
       \/ fits /\ inbox.last /\ Store(session.got \o inbox.data, "downseg")
       \/ /\ fits /\ ~inbox.last
          /\ outbox' = [type |-> "downseg"]
          /\ session' = [type |-> "down", got |-> session.got \o inbox.data,
                         toggle |-> ~session.toggle]
          /\ UNCHANGED stored
       \/ ~fits /\ Abort /\ UNCHANGED stored

Answer ==
    /\ alive /\ outbox = Empty
    /\ Upload \/ UploadSegment \/ Download \/ DownloadSegment
    /\ inbox' = Empty
    /\ UNCHANGED <<length, alive, master, calls, losses, emergencies>>

Emergency ==
    /\ alive /\ outbox = Empty
    /\ emergencies < MaxEmergencies /\ emergencies' = emergencies + 1
    /\ outbox' = [type |-> "emergency"]
    /\ UNCHANGED <<slave, inbox, master, calls, losses>>

Vanish ==
    /\ MayVanish /\ alive /\ alive' = FALSE
    /\ UNCHANGED <<length, stored, session, boxes, master, calls, losses, emergencies>>

(* A frame is lost, or comes too late. *)
Lose ==
    \/ alive /\ losses < MaxLosses /\ losses' = losses + 1
    \/ ~alive /\ UNCHANGED losses

(***************************************************************************)
(* The calls. Each empties the answer mailbox first, without waiting.      *)
(***************************************************************************)
Begin(c) ==
    /\ pc = "idle" /\ calls < MaxCalls
    /\ calls' = calls + 1
    /\ call' = c /\ pc' = "drain" /\ phase' = "init" /\ toggle' = FALSE
    /\ buf' = IF c = "read" THEN <<>> ELSE Value(calls', length)
    /\ result' = FALSE
    /\ UNCHANGED <<slave, boxes, losses, emergencies>>

Drain ==
    /\ pc = "drain" /\ pc' = "send"
    /\ \/ alive /\ outbox' = Empty /\ UNCHANGED losses
       \/ (outbox # Empty \/ ~alive) /\ Lose /\ UNCHANGED outbox
    /\ UNCHANGED <<slave, inbox, call, phase, toggle, buf, result, calls, emergencies>>

End(ok) ==
    /\ pc' = "idle" /\ result' = ok
    /\ phase' = "init" /\ toggle' = FALSE

(* The request that is due, and what is left to write after it. *)
Request ==
    IF call = "read"
    THEN IF phase = "init" THEN [type |-> "up"]
                           ELSE [type |-> "upseg", toggle |-> toggle]
    ELSE IF phase = "init"
         THEN [type |-> "down", len |-> length, data |-> First(buf)]
         ELSE [type |-> "downseg", toggle |-> toggle, data |-> <<Head(buf)>>,
               last |-> Len(buf) = 1]
Remaining ==
    IF call = "read" THEN buf ELSE IF phase = "init" THEN Rest(buf) ELSE Tail(buf)

(* A request or an answer is missing. The first one ends the call; a loop  *)
(* over segments goes on to the next one, and ends if that was the last.   *)
MissingRetried(rest) ==
    \/ phase = "init" /\ pc' = "send" /\ UNCHANGED <<buf, phase, toggle, result>>
    \/ phase = "segments" /\ buf' = rest /\ End(FALSE)
Missing(rest) ==
    /\ buf' = rest
    /\ \/ (phase = "init" \/ (call = "write" /\ rest = <<>>)) /\ End(FALSE)
       \/ /\ phase = "segments" /\ (call = "read" \/ rest # <<>>)
          /\ pc' = "send" /\ toggle' = ~toggle /\ UNCHANGED <<phase, result>>

(* ecx_mbxsend: the frame may reach the slave although its answer is lost, *)
(* and is then sent again; the call gives up after its timeout.            *)
Send ==
    /\ pc = "send" /\ alive /\ inbox = Empty
    /\ inbox' = Request
    /\ pc' = "receive" /\ buf' = Remaining
    /\ UNCHANGED <<slave, outbox, call, phase, toggle, result, calls, losses, emergencies>>

SendUnconfirmed ==
    /\ pc = "send" /\ alive /\ inbox = Empty
    /\ Lose
    /\ inbox' = Request
    /\ UNCHANGED <<slave, outbox, master, calls, emergencies>>

SendFails ==
    /\ pc = "send"
    /\ \/ inbox # Empty /\ UNCHANGED losses
       \/ inbox = Empty /\ Lose
    /\ Missing(Remaining)
    /\ UNCHANGED <<slave, boxes, call, calls, emergencies>>

(***************************************************************************)
(* ecx_mbxreceive handles emergencies itself and goes on waiting.          *)
(***************************************************************************)
ReceiveEmergency ==
    /\ pc = "receive" /\ alive /\ outbox.type = "emergency"
    /\ outbox' = Empty
    /\ UNCHANGED <<slave, inbox, master, calls, losses, emergencies>>

(* The first answer: any SDO answer with the object's index will do. *)
FirstRead ==
    \/ /\ outbox.type = "up" /\ buf' = outbox.data
       /\ \/ Len(outbox.data) = outbox.len /\ End(Len(outbox.data) = length)
          \/ /\ Len(outbox.data) < outbox.len
             /\ pc' = "send" /\ phase' = "segments" /\ UNCHANGED <<toggle, result>>
    \/ outbox.type # "up" /\ End(FALSE) /\ UNCHANGED buf

FirstWritten ==
    \/ /\ outbox.type \in {"up", "down"} /\ buf # <<>>
       /\ pc' = "send" /\ phase' = "segments" /\ UNCHANGED <<toggle, result>>
    \/ outbox.type \in {"up", "down"} /\ buf = <<>> /\ End(TRUE)
    \/ outbox.type \notin {"up", "down"} /\ End(FALSE)

(* The next ones; sdoRead compares the size at the end. *)
SegmentReadUnsized ==
    \/ /\ outbox.type = "upseg" /\ buf' = buf \o outbox.data
       /\ \/ outbox.last /\ End(TRUE)
          \/ /\ ~outbox.last
             /\ pc' = "send" /\ toggle' = ~toggle /\ UNCHANGED <<phase, result>>
    \/ outbox.type # "upseg" /\ End(FALSE) /\ UNCHANGED buf
SegmentRead ==
    \/ /\ outbox.type = "upseg" /\ buf' = buf \o outbox.data
       /\ \/ outbox.last /\ End(Len(buf') = length)
          \/ /\ ~outbox.last
             /\ pc' = "send" /\ toggle' = ~toggle /\ UNCHANGED <<phase, result>>
    \/ outbox.type # "upseg" /\ End(FALSE) /\ UNCHANGED buf

SegmentWrittenAnyway ==
    \/ /\ outbox.type \in {"downseg", "abort"} /\ buf # <<>>
       /\ pc' = "send" /\ toggle' = ~toggle /\ UNCHANGED <<phase, result>>
    \/ outbox.type \in {"downseg", "abort"} /\ buf = <<>> /\ End(TRUE)
    \/ outbox.type \notin {"downseg", "abort"} /\ End(FALSE)
SegmentWritten ==
    \/ /\ outbox.type = "downseg" /\ buf # <<>>
       /\ pc' = "send" /\ toggle' = ~toggle /\ UNCHANGED <<phase, result>>
    \/ outbox.type = "downseg" /\ buf = <<>> /\ End(TRUE)
    \/ outbox.type # "downseg" /\ End(FALSE)

Receive ==
    /\ pc = "receive" /\ alive /\ outbox.type \notin {"empty", "emergency"}
    /\ outbox' = Empty
    /\ \/ call = "read" /\ phase = "init" /\ FirstRead
       \/ call = "read" /\ phase = "segments" /\ SegmentRead
       \/ call = "write" /\ phase = "init" /\ FirstWritten /\ UNCHANGED buf
       \/ call = "write" /\ phase = "segments" /\ SegmentWritten /\ UNCHANGED buf
    /\ UNCHANGED <<slave, inbox, call, calls, losses, emergencies>>

ReceiveTimeout ==
    /\ pc = "receive"
    /\ Lose
    /\ outbox' \in {outbox, Empty}
    /\ Missing(buf)
    /\ UNCHANGED <<slave, inbox, call, calls, emergencies>>

Master ==
    \/ Drain \/ Send \/ SendUnconfirmed \/ SendFails
    \/ ReceiveEmergency \/ Receive \/ ReceiveTimeout

Next ==
    \/ Answer \/ Emergency \/ Vanish
    \/ \E c \in {"read", "write"} : Begin(c)
    \/ Master

Spec == Init /\ [][Next]_vars

(* The calling thread runs, and a slave that is there answers.             *)
FairSpec == Spec /\ WF_vars(Master) /\ WF_vars(Answer)

(***************************************************************************)
(* Properties                                                              *)
(***************************************************************************)
Done(c) == pc = "idle" /\ call = c

(* EthercatBusBase.cpp:545: what a successful sdoRead returns is one value *)
(* of the object, whole and in order, whatever got lost on the way.        *)
ReadIsWhole == Done("read") /\ result => \E v \in 0 .. calls : buf = Value(v, length)

(* EthercatBusBase.cpp:516: when sdoWrite returns true, the slave took the *)
(* new value - if every frame came in time. An answer that is late is      *)
(* taken for the answer to a later request (ethercatcoe.c:398).            *)
WriteIsStored ==
    Done("write") /\ result /\ losses = 0 => stored = Value(calls, length)

(* ethercatcoe.c:117: every write returns, whatever happens to the slave,  *)
(* and every read does when the slave is there and no frame is lost.       *)
CallsReturn ==
    pc # "idle" ~> pc = "idle" \/ (call = "read" /\ (losses > 0 \/ ~alive))
=============================================================================
