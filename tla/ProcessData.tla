---------------------------- MODULE ProcessData ----------------------------
(***************************************************************************)
(* Cyclic exchange of process data by EthercatBusBase over the SOEM        *)
(* process data stack.                                                     *)
(*                                                                         *)
(* The cyclic thread calls updateWrite, which sends the frames of a cycle  *)
(* and notes them on idxstack, and updateRead, which collects all the      *)
(* frames on idxstack and hands the inputs to the slaves if the working    *)
(* counter is high enough. A control thread may call setState and          *)
(* waitForState with OPERATIONAL at any time: they send and collect frames *)
(* over the same stack and write the same wkc_. contextMutex_ is held      *)
(* during each exchange, but not between receiving and checking wkc_.      *)
(*                                                                         *)
(* Inputs are abstracted to whether they are fresh: read from the slaves   *)
(* after the latest updateWrite. Inputs and outputs fit one frame each.    *)
(***************************************************************************)
EXTENDS Integers, Sequences

CONSTANTS
    MAXBUF,      \* EC_MAXBUF: entries of idxstack, buffers of the port
    InputsWKC,   \* working counter of a complete input frame
    OutputsWKC,  \* the same for outputs, counted twice
    MaxRetries,  \* maxRetries of waitForState
    MaxWrites,   \* bound: updateWrite calls without an updateRead
    MaxOps,      \* bound: calls of the control thread
    MaxFails     \* bound: exchanges with a lost or incomplete frame

ASSUME ProcessDataAssumption ==
    /\ {InputsWKC, OutputsWKC, MaxWrites} \subseteq Nat \ {0}
    /\ MAXBUF \in Nat /\ MAXBUF > 1
    /\ {MaxRetries, MaxOps, MaxFails} \subseteq Nat

NOFRAME == -1

Full(kind) == IF kind = "LRD" THEN InputsWKC ELSE OutputsWKC
WeightSingle(kind) == 1
Weight(kind) == IF kind = "LWR" THEN 2 ELSE 1
ExpectedHalf == OutputsWKC + InputsWKC
Expected == OutputsWKC * 2 + InputsWKC

(* What an input frame brings if the slaves answer (val) and what it       *)
(* carries when it is sent, which it brings back if they do not (hold).    *)
Frame == [kind : {"LRD", "LWR"}, val : BOOLEAN, hold : BOOLEAN]

(* An entry of idxstack and the frames sent under its index, oldest first. *)
Entry(f) == [kind |-> f.kind, sent |-> <<f>>]
Entries == [kind : {"LRD", "LWR"}, sent : Seq(Frame)]

VARIABLES
    stack,     \* idxstack, the entries pushed and not yet pulled
    fresh,     \* whether the inputs in the IO map are fresh
    wkc,       \* wkc_
    sent,      \* sentProcessData_
    tooLow,    \* workingCounterTooLowCounter_
    holder,    \* whether waitForState holds contextMutex_
    pc,        \* the cyclic thread
    retry,     \* exchanges made by the waitForState in progress
    writes,    \* updateWrite calls since the last updateRead
    ops, fails \* calls of the control thread, exchanges that went wrong

vars == <<stack, fresh, wkc, sent, tooLow, holder, pc, retry, writes, ops, fails>>

MaxWkc == MAXBUF * (InputsWKC + 2 * OutputsWKC)

TypeOK ==
    /\ stack \in Seq(Entries) /\ Len(stack) <= MAXBUF
    /\ fresh \in BOOLEAN /\ sent \in BOOLEAN /\ holder \in BOOLEAN
    /\ wkc \in NOFRAME .. MaxWkc
    /\ tooLow \in Nat
    /\ pc \in {"idle", "received", "log", "deliver"}
    /\ retry \in 0 .. MaxRetries + 1
    /\ writes \in 0 .. MaxWrites /\ ops \in 0 .. MaxOps /\ fails \in 0 .. MaxFails

Init ==
    /\ stack = <<>> /\ fresh = FALSE
    /\ wkc = 0 /\ sent = FALSE /\ tooLow = 0
    /\ holder = FALSE /\ pc = "idle" /\ retry = 0
    /\ writes = 0 /\ ops = 0 /\ fails = 0

(***************************************************************************)
(* ecx_send_processdata. With LRW blocked the inputs are requested first.  *)
(* When the stack is full so is the buffer pool: ecx_getindex takes the    *)
(* index of a frame on the stack and ecx_pushindex drops the new one.      *)
(***************************************************************************)
PushUnbounded(s, f) == {Append(s, Entry(f))}
Push(s, f) ==
    IF Len(s) < MAXBUF
    THEN {Append(s, Entry(f))}
    ELSE {[s EXCEPT ![p].sent = Append(@, f)] : p \in DOMAIN s}

Sent(s, hold) ==
    UNION {Push(t, [kind |-> "LWR", val |-> TRUE, hold |-> FALSE]) :
              t \in Push(s, [kind |-> "LRD", val |-> TRUE, hold |-> hold])}

(* A new updateWrite makes everything that was sent before it old. *)
Aged(s) ==
    [p \in DOMAIN s |-> [s[p] EXCEPT !.sent =
        [i \in DOMAIN @ |-> [@[i] EXCEPT !.val = FALSE, !.hold = FALSE]]]]

(***************************************************************************)
(* ecx_receive_processdata. Under an entry's index the frame answered      *)
(* first is received, with the working counter the slaves gave it, or none *)
(* (from = 0).                                                             *)
(***************************************************************************)
Answers(e) ==
    {[from |-> 0, wkc |-> 0]} \cup
    UNION {[from : {i}, wkc : 0 .. Full(e.sent[i].kind)] : i \in DOMAIN e.sent}

(* The inputs a frame brings are fresh if every slave's part of it is. *)
Brings(f, n) == f.val /\ (n = Full(f.kind) \/ f.hold)

(* One turn of the loop; intact: everything has been answered in full. *)
Pull(r, e, a) ==
    IF a.from = 0 THEN [r EXCEPT !.intact = FALSE]
    ELSE LET f == e.sent[a.from] IN
         [wkc |-> r.wkc + a.wkc * Weight(f.kind),
          valid |-> TRUE,
          fresh |-> IF e.kind = "LRD" /\ f.kind = "LRD" THEN Brings(f, a.wkc)
                    ELSE r.fresh,
          intact |-> r.intact /\ a.from = 1 /\ a.wkc = Full(f.kind)]

(* What can have been received when the first k entries have been pulled.  *)
Turn(R, e) == {Pull(r, e, a) : r \in R, a \in Answers(e)}
Nothing == [wkc |-> 0, valid |-> FALSE, fresh |-> fresh, intact |-> TRUE]
Results(s) ==
    LET R[k \in 0 .. Len(s)] == IF k = 0 THEN {Nothing} ELSE Turn(R[k - 1], s[k])
    IN  R[Len(s)]

Receive(s) ==
    \E r \in Results(s) :
        /\ fails' = IF r.intact THEN fails ELSE fails + 1
        /\ fails' <= MaxFails
        /\ wkc' = IF r.valid THEN r.wkc ELSE NOFRAME
        /\ fresh' = r.fresh
        /\ stack' = <<>>

(***************************************************************************)
(* The cyclic thread. updateRead returns at once when nothing was sent.    *)
(***************************************************************************)
UpdateWrite ==
    /\ pc = "idle" /\ ~holder
    /\ writes < MaxWrites
    /\ stack' \in Sent(Aged(stack), FALSE)
    /\ fresh' = FALSE
    /\ sent' = TRUE
    /\ writes' = writes + 1
    /\ UNCHANGED <<wkc, tooLow, holder, pc, retry, ops, fails>>

UpdateReadReceive ==
    /\ pc = "idle" /\ sent /\ ~holder
    /\ pc' = "received"
    /\ Receive(stack)
    /\ UNCHANGED <<sent, tooLow, holder, retry, writes, ops>>

(* wkc_ is read again here, without contextMutex_. *)
UpdateReadCheckKeepingCount ==
    /\ pc = "received"
    /\ sent' = FALSE
    /\ \/ wkc < Expected /\ tooLow' = tooLow + 1 /\ pc' = "log"
       \/ wkc >= Expected /\ UNCHANGED tooLow /\ pc' = "deliver"
    /\ UNCHANGED <<stack, fresh, wkc, holder, retry, writes, ops, fails>>
UpdateReadCheck ==
    /\ pc = "received"
    /\ sent' = FALSE
    /\ \/ wkc < Expected /\ tooLow' = tooLow + 1 /\ pc' = "log"
       \/ wkc >= Expected /\ tooLow' = 0 /\ pc' = "deliver"
    /\ UNCHANGED <<stack, fresh, wkc, holder, retry, writes, ops, fails>>

(* The AL status is logged, or the slaves read the inputs (readTxPdo),     *)
(* each with contextMutex_.                                                *)
UpdateReadEnd ==
    /\ pc \in {"log", "deliver"} /\ ~holder
    /\ pc' = "idle"
    /\ writes' = 0
    /\ UNCHANGED <<stack, fresh, wkc, sent, tooLow, holder, retry, ops, fails>>

(***************************************************************************)
(* The control thread: one exchange in setState(OPERATIONAL), as many as   *)
(* needed in waitForState(OPERATIONAL), which never releases contextMutex_ *)
(* in between.                                                             *)
(***************************************************************************)
Exchange == \E s \in Sent(stack, fresh) : Receive(s)

SetOperational ==
    /\ ops < MaxOps /\ ~holder
    /\ ops' = ops + 1
    /\ Exchange
    /\ UNCHANGED <<sent, tooLow, holder, pc, retry, writes>>

WaitBegin ==
    /\ ops < MaxOps /\ ~holder
    /\ ops' = ops + 1
    /\ holder' = TRUE /\ retry' = 0
    /\ UNCHANGED <<stack, fresh, wkc, sent, tooLow, pc, writes, fails>>

WaitRetry ==
    /\ holder /\ retry <= MaxRetries
    /\ retry' = retry + 1
    /\ Exchange
    /\ UNCHANGED <<sent, tooLow, holder, pc, writes, ops>>

(* The state is reached, or all the retries are used. *)
WaitEnd ==
    /\ holder
    /\ holder' = FALSE /\ retry' = 0
    /\ UNCHANGED <<stack, fresh, wkc, sent, tooLow, pc, writes, ops, fails>>

Cyclic == UpdateWrite \/ UpdateReadReceive \/ UpdateReadCheck \/ UpdateReadEnd
Control == SetOperational \/ WaitBegin \/ WaitRetry \/ WaitEnd
Next == Cyclic \/ Control

Spec == Init /\ [][Next]_vars

(* The cyclic thread runs for ever and reads after at most MaxWrites       *)
(* writes; a waitForState ends, because its retries do.                    *)
FairSpec == Spec /\ WF_vars(Cyclic) /\ WF_vars(WaitEnd)

(***************************************************************************)
(* Properties                                                              *)
(***************************************************************************)
(* EthercatBusBase.cpp:258: slaves that are told to read their inputs get  *)
(* inputs read from all of them after the updateWrite before, whatever the *)
(* control thread does to wkc_ and the stack in between - provided that    *)
(* there was one updateWrite: the counters of two cycles add up, and two   *)
(* half answered cycles look like a complete one.                          *)
ReadsAreFresh == pc = "deliver" /\ writes = 1 => fresh

(* EthercatBusBase.cpp:259, 365: the counter behind busIsOk never runs     *)
(* ahead of what happened: every too low reading is due to an exchange     *)
(* that went wrong or to a call of the control thread, each at most once.  *)
NoFalseAlarm == tooLow <= fails + ops

(* EthercatBusBase.cpp:277: once no frame is lost and the control thread   *)
(* is quiet, the bus is found healthy again and for good.                  *)
BusRecovers == <>[](tooLow = 0)
=============================================================================
