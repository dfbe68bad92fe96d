-------------------------------- MODULE Port --------------------------------
(***************************************************************************)
(* The raw EtherCAT port of the SOEM library: a pool of frame buffers      *)
(* shared by all the calls in progress (nicdrv.c), and the calls that use  *)
(* it, in the two shapes the library has:                                  *)
(*                                                                         *)
(*  - a confirmed call (BRD, FPRD, BWR, ...; ethercatbase.c) takes an      *)
(*    index, sends, polls for the answer, sends again while its timer      *)
(*    runs, and releases the index;                                        *)
(*  - a cyclic frame (ec_send_processdata / ec_receive_processdata) takes  *)
(*    an index and sends in one call, and polls and releases in another.   *)
(*                                                                         *)
(* Calls are made with EthercatBusBase's contextMutex_ held, except those  *)
(* of the clients in Exempt: syncDistributedClock0 does not take it.       *)
(***************************************************************************)
EXTENDS Integers, FiniteSets

CONSTANTS
    Clients,     \* calls that can be in progress, one index each
    Cyclic,      \* the clients that are process data frames
    Exempt,      \* the clients that do not take contextMutex_
    MAXBUF,      \* EC_MAXBUF, the number of frame buffers
    SendErrors,  \* whether send() may fail
    MaxReq,      \* bound: indices handed out in a behaviour
    MaxTries,    \* transmissions before timer1 of ecx_srconfirm has expired
    Wkcs,        \* the working counters the slaves may answer with
    None         \* no client

ASSUME PortAssumption ==
    /\ IsFiniteSet(Clients) /\ Clients # {} /\ None \notin Clients
    /\ Cyclic \subseteq Clients /\ Exempt \subseteq Clients
    /\ MAXBUF \in Nat \ {0} /\ MaxReq \in Nat /\ MaxTries \in Nat \ {0}
    /\ SendErrors \in BOOLEAN /\ Wkcs \subseteq Nat

Slots == 0 .. MAXBUF - 1
BufStat == {"EMPTY", "ALLOC", "TX", "RCVD", "COMPLETE"}
PC == {"idle", "alloc", "parked", "check", "recv", "store", "poll", "done"}

(* A frame carries its buffer index; req names the request it was built    *)
(* for (the wire does not carry it), try the transmission it comes from    *)
(* and wkc the working counter the slaves leave in it.                     *)
Frame == [idx : Slots, req : 1 .. MaxReq, try : 1 .. MaxTries, wkc : Wkcs]
NoFrame == [idx |-> 0, req |-> 0, try |-> 0, wkc |-> -1]

VARIABLES
    rxbufstat,  \* status of each buffer
    rxbuf,      \* frame stored in each buffer
    lastidx,    \* index handed out last
    ctx,        \* holder of contextMutex_
    rxmutex,    \* holder of rx_mutex between looking at a slot and marking it
    net,        \* frames on the wire and in the socket's queue
    pc, idx,    \* where each client is, and the index it works with
    req, tries, \* its request number, its transmissions so far
    hand,       \* the frame ecx_recvpkt has put in tempinbuf
    got,        \* the answer the call returns
    nreq        \* requests so far

vars == <<rxbufstat, rxbuf, lastidx, ctx, rxmutex, net, pc, idx, req, tries,
          hand, got, nreq>>

TypeOK ==
    /\ rxbufstat \in [Slots -> BufStat]
    /\ rxbuf \in [Slots -> Frame \cup {NoFrame}]
    /\ lastidx \in Slots
    /\ ctx \in Clients \cup {None}
    /\ rxmutex \in Clients \cup {None}
    /\ net \subseteq Frame
    /\ pc \in [Clients -> PC]
    /\ idx \in [Clients -> Slots]
    /\ req \in [Clients -> 0 .. MaxReq]
    /\ tries \in [Clients -> 0 .. MaxTries]
    /\ hand \in [Clients -> Frame \cup {NoFrame}]
    /\ got \in [Clients -> Frame \cup {NoFrame}]
    /\ nreq \in 0 .. MaxReq

Init ==
    /\ rxbufstat = [i \in Slots |-> "EMPTY"]
    /\ rxbuf = [i \in Slots |-> NoFrame]
    /\ lastidx = 0
    /\ ctx = None /\ rxmutex = None
    /\ net = {}
    /\ pc = [c \in Clients |-> "idle"]
    /\ idx = [c \in Clients |-> 0]
    /\ req = [c \in Clients |-> 0]
    /\ tries = [c \in Clients |-> 0]
    /\ hand = [c \in Clients |-> NoFrame]
    /\ got = [c \in Clients |-> NoFrame]
    /\ nreq = 0

Go(c, from, to) == pc[c] = from /\ pc' = [pc EXCEPT ![c] = to]

Lock(c) == \/ c \in Exempt /\ UNCHANGED ctx
           \/ c \notin Exempt /\ ctx = None /\ ctx' = c
Unlock(c) == ctx' = IF c \in Exempt THEN ctx ELSE None

(***************************************************************************)
(* ecx_getindex: the first EMPTY slot after lastidx; after MAXBUF fruitless *)
(* looks the loop is left on the slot it began with, whatever its status.  *)
(***************************************************************************)
ProbeFromLast(k) == (lastidx + k) % MAXBUF
Probe(k) == (lastidx + 1 + k) % MAXBUF

FirstFreeUnscanned(k) == k = 0
FirstFree(k) ==
    \/ /\ rxbufstat[Probe(k)] = "EMPTY"
       /\ \A j \in 0 .. k - 1 : rxbufstat[Probe(j)] # "EMPTY"
    \/ /\ k = 0
       /\ \A i \in Slots : rxbufstat[i] # "EMPTY"

AllocateAdvancing(c, i) ==
    /\ rxbufstat' = [rxbufstat EXCEPT ![i] = "ALLOC"]
    /\ lastidx' = i + 1
    /\ idx' = [idx EXCEPT ![c] = i]
Allocate(c, i) ==
    /\ rxbufstat' = [rxbufstat EXCEPT ![i] = "ALLOC"]
    /\ lastidx' = i
    /\ idx' = [idx EXCEPT ![c] = i]

GetIndex(c) ==
    /\ nreq < MaxReq
    /\ Go(c, "idle", "alloc")
    /\ Lock(c)
    /\ \E k \in Slots : FirstFree(k) /\ Allocate(c, Probe(k))
    /\ nreq' = nreq + 1
    /\ req' = [req EXCEPT ![c] = nreq + 1]
    /\ tries' = [tries EXCEPT ![c] = 0]
    /\ UNCHANGED <<rxbuf, rxmutex, net, hand, got>>

CountTryNever(c) == UNCHANGED tries
CountTry(c) == tries' = [tries EXCEPT ![c] = @ + 1]

(* ecx_outframe. The slaves' answer is on its way at once. A cyclic frame's *)
(* call ends here and contextMutex_ is free until updateRead.              *)
OutFrame(c) ==
    /\ tries[c] < MaxTries
    /\ Go(c, "alloc", IF c \in Cyclic THEN "parked" ELSE "check")
    /\ IF c \in Cyclic THEN Unlock(c) ELSE UNCHANGED ctx
    /\ CountTry(c)
    /\ \/ /\ rxbufstat' = [rxbufstat EXCEPT ![idx[c]] = "TX"]
          /\ \E wkc \in Wkcs :
                net' = net \cup {[idx |-> idx[c], req |-> req[c],
                                  try |-> tries[c] + 1, wkc |-> wkc]}
       \/ /\ SendErrors
          /\ rxbufstat' = [rxbufstat EXCEPT ![idx[c]] = "EMPTY"]
          /\ UNCHANGED net
    /\ UNCHANGED <<rxbuf, lastidx, rxmutex, idx, req, hand, got, nreq>>

(* updateRead comes for a cyclic frame's answer. *)
Wait(c) ==
    /\ Go(c, "parked", "check")
    /\ Lock(c)
    /\ UNCHANGED <<rxbufstat, rxbuf, lastidx, rxmutex, net, idx, req, tries,
                   hand, got, nreq>>

CheckSocketOnly(c) ==
    /\ Go(c, "check", "recv")
    /\ UNCHANGED <<rxbufstat, rxbuf, lastidx, ctx, rxmutex, net, idx, req,
                   tries, hand, got, nreq>>

(* The start of ecx_inframe, outside rx_mutex: another client has already  *)
(* stored the answer, or the socket has to be read.                        *)
Check(c) ==
    /\ IF rxbufstat[idx[c]] = "RCVD"
       THEN /\ Go(c, "check", "done")
            /\ got' = [got EXCEPT ![c] = rxbuf[idx[c]]]
            /\ rxbufstat' = [rxbufstat EXCEPT ![idx[c]] = "COMPLETE"]
       ELSE /\ Go(c, "check", "recv")
            /\ UNCHANGED <<got, rxbufstat>>
    /\ UNCHANGED <<rxbuf, lastidx, ctx, rxmutex, net, idx, req, tries, hand, nreq>>

(* ecx_recvpkt under rx_mutex finds no frame: none has come yet, or it is  *)
(* lost, which is a frame that stays in net for ever... *)
RecvNothing(c) ==
    /\ rxmutex = None
    /\ Go(c, "recv", "poll")
    /\ UNCHANGED <<rxbufstat, rxbuf, lastidx, ctx, rxmutex, net, idx, req,
                   tries, hand, got, nreq>>

(* ... or the frame with the index it asks for, whatever the slot's status *)
RecvOwn(c) ==
    /\ rxmutex = None
    /\ Go(c, "recv", "done")
    /\ \E f \in net :
        /\ f.idx = idx[c]
        /\ net' = net \ {f}
        /\ rxbuf' = [rxbuf EXCEPT ![idx[c]] = f]
        /\ got' = [got EXCEPT ![c] = f]
    /\ rxbufstat' = [rxbufstat EXCEPT ![idx[c]] = "COMPLETE"]
    /\ UNCHANGED <<lastidx, ctx, rxmutex, idx, req, tries, hand, nreq>>

(* ... or one for a slot that is in TX: the slot is looked at here and     *)
(* marked in Store, and rx_mutex does not keep its owner from releasing it *)
RecvOther(c) ==
    /\ rxmutex = None
    /\ Go(c, "recv", "store")
    /\ \E f \in net :
        /\ f.idx # idx[c] /\ rxbufstat[f.idx] = "TX"
        /\ net' = net \ {f}
        /\ hand' = [hand EXCEPT ![c] = f]
    /\ rxmutex' = c
    /\ UNCHANGED <<rxbufstat, rxbuf, lastidx, ctx, idx, req, tries, got, nreq>>

Store(c) ==
    /\ Go(c, "store", "poll")
    /\ rxbuf' = [rxbuf EXCEPT ![hand[c].idx] = hand[c]]
    /\ rxbufstat' = [rxbufstat EXCEPT ![hand[c].idx] = "RCVD"]
    /\ hand' = [hand EXCEPT ![c] = NoFrame]
    /\ rxmutex' = None
    /\ UNCHANGED <<lastidx, ctx, net, idx, req, tries, got, nreq>>

(* ... or one nobody waits for, which is thrown away. *)
RecvStray(c) ==
    /\ rxmutex = None
    /\ Go(c, "recv", "poll")
    /\ \E f \in net :
        /\ f.idx # idx[c] /\ rxbufstat[f.idx] # "TX"
        /\ net' = net \ {f}
    /\ UNCHANGED <<rxbufstat, rxbuf, lastidx, ctx, rxmutex, idx, req, tries,
                   hand, got, nreq>>

(* The loop of ecx_waitinframe_red: look again while timer runs, ...       *)
Again(c) ==
    /\ Go(c, "poll", "check")
    /\ UNCHANGED <<rxbufstat, rxbuf, lastidx, ctx, rxmutex, net, idx, req,
                   tries, hand, got, nreq>>

(* ... and when it has expired send again (ecx_srconfirm, timer1 running)  *)
Resend(c) ==
    /\ c \notin Cyclic /\ tries[c] < MaxTries
    /\ Go(c, "poll", "alloc")
    /\ UNCHANGED <<rxbufstat, rxbuf, lastidx, ctx, rxmutex, net, idx, req,
                   tries, hand, got, nreq>>

GiveUpAtOnce(c) ==
    /\ c \in Cyclic \/ tries[c] = MaxTries
    /\ Go(c, "poll", "idle")
    /\ Unlock(c)
    /\ UNCHANGED <<rxbufstat, rxbuf, lastidx, rxmutex, net, idx, req, tries,
                   hand, got, nreq>>

(* or return EC_NOFRAME. *)
GiveUp(c) ==
    /\ c \in Cyclic \/ tries[c] = MaxTries
    /\ Go(c, "poll", "done")
    /\ UNCHANGED <<rxbufstat, rxbuf, lastidx, ctx, rxmutex, net, idx, req,
                   tries, hand, got, nreq>>

(* ecx_setbufstat(EC_BUF_EMPTY) at the end of every call. What a buffer    *)
(* holds after that is never read, and is forgotten.                       *)
Release(c) ==
    /\ Go(c, "done", "idle")
    /\ rxbufstat' = [rxbufstat EXCEPT ![idx[c]] = "EMPTY"]
    /\ rxbuf' = [rxbuf EXCEPT ![idx[c]] = NoFrame]
    /\ got' = [got EXCEPT ![c] = NoFrame]
    /\ Unlock(c)
    /\ UNCHANGED <<lastidx, rxmutex, net, idx, req, tries, hand, nreq>>

Step(c) ==
    \/ GetIndex(c) \/ OutFrame(c) \/ Wait(c) \/ Check(c)
    \/ RecvNothing(c) \/ RecvOwn(c) \/ RecvOther(c) \/ Store(c) \/ RecvStray(c)
    \/ Again(c) \/ Resend(c) \/ GiveUp(c) \/ Release(c)

(* The bound on requests is used up. *)
Finished == nreq = MaxReq /\ (\A c \in Clients : pc[c] = "idle") /\ UNCHANGED vars

Next == Finished \/ \E c \in Clients : Step(c)

Spec == Init /\ [][Next]_vars

(***************************************************************************)
(* A thread in a call keeps running, a mutex that stays free is obtained,  *)
(* and a timer expires: the poll loop is not left waiting for ever.        *)
(***************************************************************************)
Fairness == \A c \in Clients :
    /\ WF_vars(OutFrame(c) \/ Wait(c) \/ Check(c) \/ Store(c) \/ Again(c) \/ Release(c))
    /\ WF_vars(RecvNothing(c) \/ RecvOwn(c) \/ RecvOther(c) \/ RecvStray(c))
    /\ SF_vars(Resend(c) \/ GiveUp(c))

FairSpec == Spec /\ Fairness
-----------------------------------------------------------------------------
Holding(c) == pc[c] # "idle"

(***************************************************************************)
(* An index is one call's at a time: "try to find unused index"            *)
(* (nicdrv.c:232), so that no call reads or releases another's buffer.     *)
(***************************************************************************)
IndexExclusive ==
    \A c, d \in Clients : c # d /\ Holding(c) /\ Holding(d) => idx[c] # idx[d]

(***************************************************************************)
(* The pool does not leak: a buffer that is not EMPTY is some call's, so   *)
(* it comes back when that call ends.                                      *)
(***************************************************************************)
NoLeak ==
    \A i \in Slots : rxbufstat[i] # "EMPTY" =>
        \E c \in Clients : Holding(c) /\ idx[c] = i

(***************************************************************************)
(* How stale an accepted answer can be. The index is all that ties an      *)
(* answer to a request (nicdrv.c:417), so a late frame can be taken for    *)
(* the answer to a newer request; round robin allocation makes this need   *)
(* a frame that outlives the allocation of every buffer that was free.     *)
(***************************************************************************)
StaleGap ==
    \A c \in Clients : pc[c] = "done" /\ got[c] # NoFrame =>
        \/ got[c].req = req[c]
        \/ req[c] - got[c].req >= MAXBUF - Cardinality(Clients) + 1

(***************************************************************************)
(* A call does not report EC_NOFRAME when its answer has been stored for   *)
(* it by another call (nicdrv.c:427, the RCVD status).                     *)
(***************************************************************************)
StoredAnswerIsUsed ==
    [][\A c \in Clients : GiveUp(c) => rxbufstat[idx[c]] # "RCVD"]_vars

(***************************************************************************)
(* Every call comes back, with an answer or without: the retries of        *)
(* ecx_srconfirm end and no call waits for ever for a mutex.               *)
(***************************************************************************)
CallsReturn == \A c \in Clients : pc[c] \in {"alloc", "check"} ~> pc[c] \in {"idle", "parked"}
=============================================================================
