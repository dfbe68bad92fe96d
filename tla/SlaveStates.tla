---------------------------- MODULE SlaveStates ----------------------------
(***************************************************************************)
(* What EthercatBusBase knows of its slaves' EtherCAT states: reading them *)
(* (ecx_readstate), requesting and awaiting them (setState, waitForState)  *)
(* and bus monitoring, with slaves that change state, report errors and    *)
(* get lost at any time, also between the frames of one reading.           *)
(*                                                                         *)
(* A state is the set of its bits, so that the broadcast read, in which    *)
(* the slaves OR their states together, is a union: INIT is {1}, PRE_OP    *)
(* {2}, BOOT {1, 2}, SAFE_OP {4}, OPERATIONAL {8} and NONE is {}.          *)
(*                                                                         *)
(* Two threads: one calls doBusMonitoring, the other one getEthercatState, *)
(* setState and waitForState.                                              *)
(***************************************************************************)
EXTENDS Integers, FiniteSets

CONSTANTS
    N,            \* number of slaves, addressed 1 .. N
    FPRD_MULTI,   \* MAX_FPRD_MULTI: slaves read with one frame
    States,       \* the states the slaves can be in
    LogCounters,  \* the values of doBusMonitoring's argument
    MaxChanges    \* bound: spontaneous changes of the slaves

BOOT == {1, 2}
OPERATIONAL == {8}
Named == {{1}, {2}, BOOT, {4}, OPERATIONAL}
Number(bits) == (IF 1 \in bits THEN 1 ELSE 0) + (IF 2 \in bits THEN 2 ELSE 0)
              + (IF 4 \in bits THEN 4 ELSE 0) + (IF 8 \in bits THEN 8 ELSE 0)

ASSUME SlaveStatesAssumption ==
    /\ N \in Nat \ {0} /\ FPRD_MULTI \in Nat \ {0} /\ MaxChanges \in Nat
    /\ States \subseteq Named /\ States # {} /\ LogCounters \subseteq BOOLEAN

Slaves == 1 .. N
Threads == {"monitor", "control"}
None == "none"
NONE == {}                                 \* the zeroes of an unanswered read
Status == [bits : States, err : BOOLEAN]  \* AL status of a slave
NoWait == [slave |-> 0, state |-> NONE]

VARIABLES
    al,           \* AL status register of each slave
    present,      \* the slaves that answer
    changes,      \* spontaneous changes so far
    list,         \* slavelist[].state, of the slaves, without the error flag
    islost,       \* slavelist[].islost
    ctx,          \* holder of contextMutex_
    pc,           \* where each thread is
    next,         \* fslave of the ecx_readstate in progress
    lowest,       \* lowest, of each thread's last ecx_readstate
    busDiagState, \* busDiagState_: whether the next call reads counters
    nextDiag,     \* nextBusDiagState of the call in progress
    cur,          \* busDiagOfCurrentSlave_ (0-based)
    fullyUpdated, \* busDiagnosisLog_.fullyUpdated
    allFine,      \* what the last doBusMonitoring returned
    wait,         \* slave (0: all) and state waitForState waits for
    reached,      \* what the last waitForState returned
    seen,         \* the state each slave answered to each thread's last reading
    silent,       \* the slaves that have failed to answer once
    swept         \* the slaves whose counters were asked for in this sweep

bus == <<al, present, changes>>
known == <<list, islost, silent>>
diag == <<busDiagState, nextDiag, cur, fullyUpdated, allFine, swept>>
waiting == <<wait, reached>>
reading == <<next, lowest, seen>>
vars == <<bus, known, ctx, pc, diag, waiting, reading>>

PC == {"idle", "read", "multi", "done", "counters", "wait"}

TypeOK ==
    /\ al \in [Slaves -> Status]
    /\ present \subseteq Slaves
    /\ changes \in 0 .. MaxChanges
    /\ list \in [Slaves -> SUBSET {1, 2, 4, 8}]
    /\ islost \in [Slaves -> BOOLEAN]
    /\ ctx \in Threads \cup {None}
    /\ pc \in [Threads -> PC]
    /\ next \in Nat \ {0}
    /\ lowest \in [Threads -> 0 .. 255]
    /\ busDiagState \in BOOLEAN /\ nextDiag \in BOOLEAN
    /\ cur \in 0 .. N - 1
    /\ fullyUpdated \in BOOLEAN /\ allFine \in BOOLEAN
    /\ wait \in [slave : 0 .. N, state : States \cup {NONE}]
    /\ reached \in BOOLEAN
    /\ seen \in [Threads -> [Slaves -> States \cup {NONE}]]
    /\ silent \subseteq Slaves
    /\ swept \subseteq Slaves

(* After startup: the bus is initialized, nothing has been monitored. *)
Init ==
    /\ al \in [Slaves -> [bits : States, err : {FALSE}]]
    /\ present = Slaves /\ changes = 0
    /\ list = [s \in Slaves |-> al[s].bits]
    /\ islost = [s \in Slaves |-> FALSE]
    /\ ctx = None
    /\ pc = [t \in Threads |-> "idle"]
    /\ next = 1 /\ lowest = [t \in Threads |-> 255]
    /\ busDiagState = FALSE /\ nextDiag = FALSE
    /\ cur = 0 /\ fullyUpdated = FALSE /\ allFine = TRUE
    /\ wait = NoWait /\ reached = FALSE
    /\ seen = [t \in Threads |-> [s \in Slaves |-> NONE]]
    /\ silent = {} /\ swept = {}

Go(t, from, to) == pc[t] = from /\ pc' = [pc EXCEPT ![t] = to]

(***************************************************************************)
(* The slaves.                                                             *)
(***************************************************************************)
SlaveChanges ==
    /\ changes < MaxChanges /\ changes' = changes + 1
    /\ \/ \E s \in Slaves, st \in Status :
             al[s] # st /\ al' = [al EXCEPT ![s] = st] /\ UNCHANGED present
       \/ \E s \in Slaves :
             /\ present' = IF s \in present THEN present \ {s} ELSE present \cup {s}
             /\ UNCHANGED al
    /\ UNCHANGED <<known, ctx, pc, diag, waiting, reading>>

(* The slaves that answer a frame: those present, or none if it is lost. *)
Answering == {present, {}}
Answer(ans, s) == IF s \in ans THEN al[s].bits ELSE NONE
OrOf(ans) == UNION {al[s].bits : s \in ans}
Erring(ans) == \E s \in ans : al[s].err

(***************************************************************************)
(* ecx_readstate, first frame: one broadcast read, which is enough if all  *)
(* slaves answer without error and the OR of their states is a state.      *)
(***************************************************************************)
AllSameIgnoringWkc(ans) == ~Erring(ans) /\ OrOf(ans) \in Named
AllSame(ans) == ~Erring(ans) /\ OrOf(ans) \in Named /\ Cardinality(ans) >= N

ReadBroadcast(t) ==
    /\ ctx = None
    /\ \E ans \in Answering :
          /\ silent' = silent \cup (Slaves \ ans)
          /\ seen' = [seen EXCEPT ![t] = [s \in Slaves |-> Answer(ans, s)]]
          /\ \/ /\ AllSame(ans)
                /\ Go(t, "read", "done") /\ UNCHANGED ctx
                /\ list' = [s \in Slaves |-> OrOf(ans)]
                /\ lowest' = [lowest EXCEPT ![t] = Number(OrOf(ans))]
             \/ /\ ~AllSame(ans)
                /\ Go(t, "read", "multi") /\ ctx' = t
                /\ lowest' = [lowest EXCEPT ![t] = 255]
                /\ UNCHANGED list
    /\ next' = 1
    /\ UNCHANGED <<bus, islost, diag, waiting>>

(* One frame for the next FPRD_MULTI slaves; the last one ends the reading. *)
Chunk == next .. (IF next + FPRD_MULTI - 1 < N THEN next + FPRD_MULTI - 1 ELSE N)
LeastOfLast(ans, low) == {Number(Answer(ans, next))}
LeastOf(ans, low) ==
    {n \in {low} \cup {Number(Answer(ans, s)) : s \in Chunk} :
        n <= low /\ \A s \in Chunk : n <= Number(Answer(ans, s))}

Read(ans, f) == [s \in Slaves |-> IF s \in Chunk THEN Answer(ans, s) ELSE f[s]]

ReadMulti(t) ==
    /\ pc[t] = "multi" /\ ctx = t
    /\ \E ans \in Answering :
          /\ silent' = silent \cup (Chunk \ ans)
          /\ seen' = [seen EXCEPT ![t] = Read(ans, seen[t])]
          /\ list' = Read(ans, list)
          /\ \E n \in LeastOf(ans, lowest[t]) : lowest' = [lowest EXCEPT ![t] = n]
    /\ \/ N \notin Chunk /\ next' = next + FPRD_MULTI /\ UNCHANGED <<pc, ctx>>
       \/ N \in Chunk /\ next' = 1 /\ Go(t, "multi", "done") /\ ctx' = None
    /\ UNCHANGED <<bus, islost, diag, waiting>>

(***************************************************************************)
(* doBusMonitoring: alternately the states and, if asked to, the error     *)
(* counters of one slave. nextBusDiagState is worked out when states are   *)
(* read; a call that reads counters reads no state and returns true.       *)
(***************************************************************************)
MonitorBegin ==
    /\ Go("monitor", "idle", IF busDiagState THEN "counters" ELSE "read")
    /\ fullyUpdated' = FALSE /\ allFine' = TRUE
    /\ \E log \in LogCounters : nextDiag' = (log /\ ~busDiagState)
    /\ UNCHANGED <<bus, known, ctx, busDiagState, cur, swept, waiting, reading>>

NowLost(s) == Number(list[s]) < Number(OPERATIONAL) /\ list[s] = NONE

MonitorStates ==
    /\ Go("monitor", "done", "idle") /\ ctx = None
    /\ allFine' = (lowest["monitor"] >= Number(OPERATIONAL))
    /\ islost' = [s \in Slaves |-> islost[s] \/ (~allFine' /\ NowLost(s))]
    /\ busDiagState' = nextDiag /\ nextDiag' = FALSE
    /\ seen' = [seen EXCEPT !["monitor"] = [s \in Slaves |-> NONE]]
    /\ UNCHANGED <<bus, list, silent, ctx, cur, fullyUpdated, swept, waiting, next, lowest>>

CursorEarly == cur + 2 >= N
CursorLate == cur >= N
CursorAtEnd == cur + 1 >= N
MonitorCounters ==
    /\ Go("monitor", "counters", "idle") /\ ctx = None
    /\ fullyUpdated' = CursorAtEnd
    /\ cur' = IF CursorAtEnd THEN 0 ELSE cur + 1
    /\ swept' = (IF cur = 0 THEN {} ELSE swept) \cup {cur + 1}
    /\ busDiagState' = nextDiag
    /\ UNCHANGED <<bus, known, ctx, nextDiag, allFine, waiting, reading>>

(***************************************************************************)
(* The control thread.                                                     *)
(***************************************************************************)
GetStateBegin ==
    /\ Go("control", "idle", "read") /\ reached' = FALSE
    /\ UNCHANGED <<bus, known, ctx, diag, wait, reading>>
GetStateEnd ==
    /\ Go("control", "done", "idle")
    /\ seen' = [seen EXCEPT !["control"] = [s \in Slaves |-> NONE]]
    /\ lowest' = [lowest EXCEPT !["control"] = 255]
    /\ UNCHANGED <<bus, known, ctx, diag, waiting, next>>

(* setState writes the request into slavelist before it is sent; each of   *)
(* the slaves that get it may follow it. What is written for address 0 is  *)
(* read by nothing but the sending.                                        *)
SetState(s, st) ==
    /\ pc["control"] = "idle" /\ ctx = None
    /\ list' = IF s = 0 THEN list ELSE [list EXCEPT ![s] = st]
    /\ \E obeying \in SUBSET (present \cap (IF s = 0 THEN Slaves ELSE {s})) :
          al' = [r \in Slaves |-> IF r \in obeying
                                  THEN [bits |-> st, err |-> FALSE] ELSE al[r]]
    /\ UNCHANGED <<present, changes, islost, silent, ctx, pc, diag, waiting, reading>>

WaitBegin(s, st) ==
    /\ Go("control", "idle", "wait") /\ reached' = FALSE
    /\ ctx = None /\ ctx' = "control"
    /\ wait' = [slave |-> s, state |-> st]
    /\ UNCHANGED <<bus, known, diag, reading>>

(* What ecx_statecheck reads, from one slave or ORed together from all. *)
Awaited == IF wait.slave = 0 THEN Slaves ELSE {wait.slave}
Checked(ans) == OrOf(ans \cap Awaited)
HitByBits(ans) == wait.state \subseteq Checked(ans)
HitExact(ans) == Checked(ans) = wait.state

(* ecx_statecheck finds the state, or its timer expires on another one, in *)
(* which case it is retried or waitForState gives up.                      *)
Wait ==
    /\ pc["control"] = "wait"
    /\ \E ans \in Answering :
          /\ list' = IF wait.slave = 0 THEN list
                     ELSE [list EXCEPT ![wait.slave] = Checked(ans)]
          /\ silent' = silent \cup (Awaited \ ans)
          /\ \/ /\ Go("control", "wait", "idle")
                /\ ctx' = None /\ wait' = NoWait
                /\ reached' = HitExact(ans)
             \/ /\ ~HitExact(ans)
                /\ UNCHANGED <<pc, ctx, waiting>>
    /\ UNCHANGED <<bus, islost, diag, reading>>

Next ==
    \/ SlaveChanges
    \/ \E t \in Threads : ReadBroadcast(t) \/ ReadMulti(t)
    \/ MonitorBegin \/ MonitorStates \/ MonitorCounters
    \/ GetStateBegin \/ GetStateEnd \/ Wait
    \/ \E s \in 0 .. N, st \in States : SetState(s, st) \/ WaitBegin(s, st)

Spec == Init /\ [][Next]_vars

(***************************************************************************)
(* Properties                                                              *)
(***************************************************************************)
(* ethercatmain.c:719: ecx_readstate returns the "lowest state found",     *)
(* whether it took one frame or several and whoever answered.              *)
LowestIsLowest ==
    \A t \in Threads : pc[t] = "done" =>
        /\ \A s \in Slaves : lowest[t] <= Number(seen[t][s])
        /\ \E s \in Slaves : lowest[t] = Number(seen[t][s])

MonitorReturns(from) == pc["monitor"] = from /\ pc'["monitor"] = "idle"

(* EthercatBusBase.cpp:388: a doBusMonitoring that reads the states        *)
(* returns true only if each slave has answered that it is operational in  *)
(* the reading of this call, whatever the control thread does to slavelist *)
(* between the reading and the test.                                       *)
FineMeansOperational ==
    [][ MonitorReturns("done") /\ allFine' =>
          \A s \in Slaves : seen["monitor"][s] = OPERATIONAL ]_vars

(* EthercatBusBase.cpp:401: only a slave that has failed to answer is      *)
(* marked lost, although the states tested may have been written by the    *)
(* control thread since.                                                   *)
LostWasSilent == \A s \in Slaves : islost[s] => s \in silent

(* EthercatBusBase.cpp:450: the diagnosis log is handed out only after the *)
(* counters of every slave have been asked for, however the calls that     *)
(* read counters and the ones that read states alternate.                  *)
LogIsComplete == fullyUpdated => swept = Slaves

(* EthercatBusBase.cpp:665: when waitForState returns true, the slave      *)
(* awaited - for address 0 every slave that answered - was in that state   *)
(* in the last check.                                                      *)
WaitIsRight ==
    [][ pc["control"] = "wait" /\ reached' /\ pc'["control"] = "idle" =>
          /\ \A s \in Awaited \cap present : al[s].bits = wait.state
          /\ Awaited \cap present # {} ]_vars
=============================================================================
