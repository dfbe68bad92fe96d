---------------------------- MODULE Diagnostics ----------------------------
(***************************************************************************)
(* How errors found during SDO transfers reach the user. A transfer of     *)
(* EthercatBusBase (sdoRead, sdoWrite, sdoReadSize) runs with contextMutex_*)
(* held and may push errors to the context's ring; when it has failed it   *)
(* pops the ring, without the mutex, until it meets an error of its own    *)
(* slave and index, which goes to the MessageLog. A reader takes the log   *)
(* with getAndClearLog.                                                    *)
(*                                                                         *)
(* Each caller stands for the transfers of one slave and index.            *)
(***************************************************************************)
EXTENDS ErrorRing, FiniteSets

CONSTANTS
    Callers,     \* the threads that transfer, each for its own object
    Elsewhere,   \* the object of an error of any other slave or index
    MaxErrors,   \* bound: errors pushed in a behaviour
    MaxLogSize,  \* maxLogSize_ of the MessageLog
    None         \* no caller

ASSUME DiagnosticsAssumption ==
    /\ Elsewhere \notin Callers /\ None \notin Callers
    /\ MaxErrors \in Nat /\ MaxLogSize \in Nat \ {0}
    /\ Entry = [of : Callers \cup {Elsewhere}, no : 1 .. MaxErrors]

VARIABLES
    pc,       \* where each caller is
    ctx,      \* holder of contextMutex_
    own,      \* its own error pushed in this transfer, or NoEntry
    popped,   \* the error ecx_poperror has copied out
    nerr,     \* errors pushed so far
    log,      \* MessageLog::log_
    reader,   \* the reader is between getLog and clearLog
    taken     \* what getLog has returned to it

vars == <<ring, pc, ctx, own, popped, nerr, log, reader, taken>>

Init ==
    /\ RingInit
    /\ pc = [c \in Callers |-> "idle"]
    /\ ctx = None
    /\ own = [c \in Callers |-> NoEntry]
    /\ popped = [c \in Callers |-> NoEntry]
    /\ nerr = 0
    /\ log = <<>> /\ reader = "idle" /\ taken = <<>>

Go(c, from, to) == pc[c] = from /\ pc' = [pc EXCEPT ![c] = to]

Begin(c) ==
    /\ nerr < MaxErrors
    /\ Go(c, "idle", "call")
    /\ ctx = None /\ ctx' = c
    /\ own' = [own EXCEPT ![c] = NoEntry]
    /\ popped' = [popped EXCEPT ![c] = NoEntry]
    /\ UNCHANGED <<ring, nerr, log, reader, taken>>

(* An emergency or mailbox error arrives with the transfer's answer.       *)
PushElsewhere(c) ==
    /\ pc[c] = "call" /\ nerr < MaxErrors
    /\ Push([of |-> Elsewhere, no |-> nerr + 1])
    /\ nerr' = nerr + 1
    /\ UNCHANGED <<pc, ctx, own, popped, log, reader, taken>>

(* ecx_SDOerror or ecx_packeterror for the object, and the transfer fails. *)
PushOwn(c) ==
    /\ nerr < MaxErrors
    /\ Go(c, "call", "drain")
    /\ LET e == [of |-> c, no |-> nerr + 1] IN
        /\ Push(e)
        /\ own' = [own EXCEPT ![c] = e]
    /\ nerr' = nerr + 1
    /\ ctx' = None
    /\ UNCHANGED <<popped, log, reader, taken>>

(* The transfer succeeds, or fails with no error to show for it (EC_NOFRAME) *)
Return(c) ==
    /\ pc[c] = "call"
    /\ \E to \in {"idle", "drain"} : pc' = [pc EXCEPT ![c] = to]
    /\ ctx' = None
    /\ UNCHANGED <<ring, own, popped, nerr, log, reader, taken>>

(***************************************************************************)
(* checkForSdoErrors, with contextMutex_ free: ecx_iserror, ...            *)
(***************************************************************************)
FindsError(c) ==
    /\ IsError
    /\ Go(c, "drain", "pop")
    /\ UNCHANGED <<ring, ctx, own, popped, nerr, log, reader, taken>>

FindsNone(c) ==
    /\ ~IsError
    /\ Go(c, "drain", "idle")
    /\ UNCHANGED <<ring, ctx, own, popped, nerr, log, reader, taken>>

(* ... ecx_poperror, which reads the ring and then advances tail, ...      *)
PopReads(c) ==
    /\ IF IsError
       THEN /\ Go(c, "pop", "advance")
            /\ popped' = [popped EXCEPT ![c] = Error[tail]]
            /\ UNCHANGED ring
       ELSE /\ Go(c, "pop", "drain")
            /\ PopNothing
            /\ UNCHANGED popped
    /\ UNCHANGED <<ctx, own, nerr, log, reader, taken>>

Mine(c) == popped[c] # NoEntry /\ popped[c].of = c

PopAdvances(c) ==
    /\ Go(c, "advance", IF Mine(c) THEN "report" ELSE "drain")
    /\ AdvanceTail
    /\ UNCHANGED <<ctx, own, popped, nerr, log, reader, taken>>

(* ... and MessageLog::insertMessage for the first error of its own.       *)
InsertAtFront(e) == log' = SubSeq(<<e>> \o log, 1,
    IF Len(log) < MaxLogSize THEN Len(log) + 1 ELSE MaxLogSize)
Insert(e) ==
    LET longer == Append(log, e)
    IN  log' = IF Len(longer) > MaxLogSize THEN Tail(longer) ELSE longer

Report(c) ==
    /\ Go(c, "report", "idle")
    /\ Insert(popped[c])
    /\ UNCHANGED <<ring, ctx, own, popped, nerr, reader, taken>>

(* MessageLog::getAndClearLog: two critical sections of logMutex_.         *)
GetLog ==
    /\ reader = "idle" /\ reader' = "got"
    /\ taken' = log
    /\ UNCHANGED <<ring, pc, ctx, own, popped, nerr, log>>

ClearLog ==
    /\ reader = "got" /\ reader' = "idle"
    /\ log' = <<>>
    /\ taken' = <<>>
    /\ UNCHANGED <<ring, pc, ctx, own, popped, nerr>>

Step(c) ==
    \/ Begin(c) \/ PushElsewhere(c) \/ PushOwn(c) \/ Return(c)
    \/ FindsError(c) \/ FindsNone(c) \/ PopReads(c) \/ PopAdvances(c)
    \/ Report(c)

Next == GetLog \/ ClearLog \/ \E c \in Callers : Step(c)

Spec == Init /\ [][Next]_vars

(* A caller in checkForSdoErrors keeps running.                            *)
Fairness == \A c \in Callers :
    WF_vars(FindsError(c) \/ FindsNone(c) \/ PopReads(c) \/ PopAdvances(c) \/ Report(c))

FairSpec == Spec /\ Fairness
-----------------------------------------------------------------------------
(***************************************************************************)
(* "Check if an error for the SDO index of the slave exists. return True   *)
(* if an error for the index exists" (EthercatBusBase.cpp:724-728): a      *)
(* caller does not come away with nothing when its transfer left an error, *)
(* and what it reports is that error, not one left over from an earlier    *)
(* transfer of the same object.                                            *)
(***************************************************************************)
ReportsOwnError ==
    [][\A c \in Callers : /\ FindsNone(c) => own[c] = NoEntry
                          /\ Report(c) => popped[c] = own[c]]_vars

(* The MessageLog implements the list of the newest messages, whatever the *)
(* reader and the callers do to it.                                        *)
Messages == INSTANCE RecentEntries WITH entries <- log, Capacity <- MaxLogSize
LogImplementsRecent == Messages!Spec

(***************************************************************************)
(* checkForSdoErrors ends.                                                 *)
(***************************************************************************)
DrainEnds == \A c \in Callers : pc[c] = "drain" ~> pc[c] \in {"idle", "call"}
=============================================================================
