------------------------------- MODULE Buses -------------------------------
(***************************************************************************)
(* The life of the EtherCAT buses of a process: startup and shutdown of    *)
(* EthercatBusBase, and EthercatBusManagerBase, which does it for all its  *)
(* buses while a cyclic thread reads and writes them.                      *)
(*                                                                         *)
(* A bus keeps the number of its raw socket in port->sockhandle. Numbers   *)
(* are given out again by the kernel after a close: ecx_close leaves the   *)
(* number where it is, and the socket of a CanDriver or of another bus may *)
(* have it by the time it is used again.                                   *)
(***************************************************************************)
EXTENDS Integers, FiniteSets

CONSTANTS
    Buses,      \* the buses the process makes
    Fds,        \* descriptors the kernel gives out
    Can,        \* the rest of the process: sockets of CanDrivers
    Careful,    \* whether the caller uses the buses as CarefulUse says
    MaxStarts,  \* bound: startups of the buses
    MaxCans     \* bound: sockets opened by CanDrivers

Main == "main"
Cyclic == "cyclic"
Threads == {Main, Cyclic}
Nobody == "nobody"

ASSUME BusesAssumption ==
    /\ Fds \subseteq Nat /\ Can \notin Buses
    /\ Nobody \notin Buses \cup {Can}
    /\ Careful \in BOOLEAN /\ {MaxStarts, MaxCans} \subseteq Nat

NoFd == -1  \* socket() failed
Junk == -2  \* not written yet: sockhandle holds whatever was in its memory

(* What has become of a bus: never started, startup returned false because *)
(* the adapter is missing, the socket was refused, the network was not as  *)
(* expected (closed) or a slave or a size was wrong (late), up, shut down. *)
Failures == {"unavailable", "refused", "closed", "late"}
Histories == {"new", "up", "down"} \cup Failures

VARIABLES
    fds,       \* kernel: who has opened a descriptor
    canfd,     \* the descriptor a CanDriver keeps
    sock,      \* port->sockhandle of each bus
    impl,      \* buses whose pImpl_ exists
    init,      \* initlialized_
    asked,     \* the state last requested of the slaves
    history,   \* what has become of each bus
    map,       \* buses_
    moved,     \* keys of buses_ whose pointer has been moved out
    lock,      \* holder of busMutex_
    pc,        \* where each thread is
    todo,      \* buses its loop has not come to yet
    cur,       \* the bus whose startup is in progress
    cycling,   \* whether the caller lets the cyclic thread run
    starts, cans

kernel == <<fds, canfd, cans>>
state == <<sock, impl, init, asked, history>>
manager == <<map, moved>>
threads == <<lock, pc, todo, cur, cycling>>
vars == <<kernel, state, manager, threads, starts>>

Init ==
    /\ fds = [f \in Fds |-> Nobody] /\ canfd = NoFd /\ cans = 0
    /\ sock = [b \in Buses |-> Junk]
    /\ impl = Buses /\ init = {}
    /\ asked = [b \in Buses |-> "NONE"]
    /\ history = [b \in Buses |-> "new"]
    /\ map = Buses /\ moved = {}
    /\ lock = Nobody /\ pc = [t \in Threads |-> "idle"]
    /\ todo = [t \in Threads |-> {}] /\ cur \in Buses
    /\ cycling = FALSE /\ starts = 0

(***************************************************************************)
(* The use that goes well. It depends on why a startup failed, which the   *)
(* caller is not told.                                                     *)
(***************************************************************************)
MayStart(b) == history[b] \in {"new", "unavailable", "closed"}
MayShutdown(b) == history[b] \in {"up", "late", "refused"}
MayDiscard(b) == history[b] \in {"new", "unavailable", "closed", "down"}
CarefulUse(allowed) == Careful => allowed

Free == {f \in Fds : fds[f] = Nobody}
NewFd == IF Free = {} THEN {NoFd} ELSE Free
Given(f, who) == IF f = NoFd THEN fds ELSE [fds EXCEPT ![f] = who]

ClosedNever(f) == {fds}

(* close(): whoever has opened f, it is free again. Junk may be any. *)
Closed(f) ==
    CASE f = NoFd -> {fds}
      [] f = Junk -> {fds} \cup {[fds EXCEPT ![g] = Nobody] : g \in Fds}
      [] OTHER -> {[fds EXCEPT ![f] = Nobody]}

Go(t, to) == pc' = [pc EXCEPT ![t] = to]
Rest(t, set) == todo' = [todo EXCEPT ![t] = set]

(***************************************************************************)
(* CanDriver: openCanSocket and the close of reopenCanSocket.              *)
(***************************************************************************)
CanOpen ==
    /\ canfd = NoFd /\ cans < MaxCans /\ cans' = cans + 1
    /\ \E f \in NewFd : canfd' = f /\ fds' = Given(f, Can)
    /\ UNCHANGED <<state, manager, threads, starts>>
CanClose ==
    /\ canfd # NoFd /\ canfd' = NoFd
    /\ fds' \in Closed(canfd)
    /\ UNCHANGED <<cans, state, manager, threads, starts>>

(***************************************************************************)
(* EthercatBusManagerBase: a loop over all buses under busMutex_.          *)
(***************************************************************************)
Begin(t, loop) ==
    /\ pc[t] = "idle" /\ lock = Nobody /\ lock' = t
    /\ Go(t, loop) /\ Rest(t, map)
    /\ UNCHANGED <<kernel, state, manager, cur, cycling, starts>>

End(t, to) ==
    /\ lock' = Nobody /\ Go(t, to) /\ Rest(t, {})
    /\ UNCHANGED <<kernel, state, manager, cur, cycling, starts>>

LoopEnds(t, loop) == pc[t] = loop /\ todo[t] = {} /\ End(t, "idle")

(* The bus the iterator meets can be called: not shut down, not moved away. *)
There(b) == b \in map /\ b \notin moved /\ b \in impl

(* startupCommunication *)
StartupCommunication ==
    /\ CarefulUse(~cycling /\ \A b \in map : MayStart(b))
    /\ Begin(Main, "start")

(* startup returned false: the loop ends there. *)
Fail(b, how) ==
    /\ history' = [history EXCEPT ![b] = how]
    /\ lock' = Nobody /\ Go(Main, "idle") /\ Rest(Main, {})
    /\ UNCHANGED cur

Picked(t, loop, b) == pc[t] = loop /\ b \in todo[t] /\ There(b)

(* EthercatBusBase::startup up to the slaves' own startup: the adapter may *)
(* be missing.                                                             *)
Unavailable(b) ==
    /\ Picked(Main, "start", b)
    /\ Fail(b, "unavailable")
    /\ UNCHANGED <<kernel, sock, impl, init, asked>>

(* ecx_setupnic opens a socket, whatever sockhandle held before. It may be *)
(* refused one.                                                            *)
Opens(b, f) == sock' = [sock EXCEPT ![b] = f] /\ fds' = Given(f, b)

Refused(b) ==
    /\ Picked(Main, "start", b)
    /\ \E f \in NewFd : Opens(b, f)
    /\ Fail(b, "refused")
    /\ UNCHANGED <<canfd, cans, impl, init, asked>>

EarlyFailureLeaking(b) ==
    /\ Picked(Main, "start", b)
    /\ \E f \in Free : Opens(b, f)
    /\ Fail(b, "closed")
    /\ UNCHANGED <<canfd, cans, impl, init, asked>>

(* Aborted, too few slaves or a wrong address: ecx_close of what was opened. *)
EarlyFailure(b) ==
    /\ Picked(Main, "start", b)
    /\ \E f \in Free : sock' = [sock EXCEPT ![b] = f]
    /\ UNCHANGED fds
    /\ Fail(b, "closed")
    /\ UNCHANGED <<canfd, cans, impl, init, asked>>

(* The slaves are found, configured and asked for PRE_OP. *)
Configured(b) ==
    /\ Picked(Main, "start", b)
    /\ \E f \in Free : Opens(b, f)
    /\ init' = init \cup {b}
    /\ asked' = [asked EXCEPT ![b] = "PRE_OP"]
    /\ cur' = b /\ Go(Main, "slaves")
    /\ UNCHANGED <<canfd, cans, impl, history, lock, todo>>

StartBus ==
    /\ starts < MaxStarts /\ starts' = starts + 1
    /\ \E b \in Buses :
          Unavailable(b) \/ Refused(b) \/ EarlyFailure(b) \/ Configured(b)
    /\ UNCHANGED <<manager, cycling>>

(* The slaves' startup and the IO map. *)
SlaveFails ==
    /\ pc[Main] = "slaves"
    /\ \/ UNCHANGED asked
       \/ asked' = [asked EXCEPT ![cur] = "SAFE_OP"]  \* wrong size
    /\ Fail(cur, "late")
    /\ UNCHANGED <<kernel, sock, impl, init, manager, cycling, starts>>

BusUp ==
    /\ pc[Main] = "slaves"
    /\ asked' = [asked EXCEPT ![cur] = "SAFE_OP"]
    /\ history' = [history EXCEPT ![cur] = "up"]
    /\ Go(Main, "start") /\ Rest(Main, todo[Main] \ {cur})
    /\ UNCHANGED <<kernel, sock, impl, init, manager, lock, cur, cycling, starts>>

(* setBussesOperational, also called by startupAllBuses whatever           *)
(* startupCommunication has returned.                                      *)
SetBussesOperational ==
    /\ CarefulUse(\A b \in map : history[b] = "up")
    /\ Begin(Main, "operate")

SetState ==
    /\ \E b \in Buses :
          /\ Picked(Main, "operate", b)
          /\ asked' = IF b \in init THEN [asked EXCEPT ![b] = "OPERATIONAL"] ELSE asked
          /\ Rest(Main, todo[Main] \ {b})
    /\ UNCHANGED <<kernel, sock, impl, init, history, manager, lock, pc, cur,
                   cycling, starts>>

(* shutdownAllBuses and EthercatBusBase::shutdown: the socket is closed    *)
(* whether or not the bus has been started, and pImpl_ destroyed.          *)
ShutdownAllBuses ==
    /\ CarefulUse(~cycling /\ \A b \in map : MayShutdown(b))
    /\ Begin(Main, "stop")

ShutdownBus ==
    /\ \E b \in Buses :
          /\ Picked(Main, "stop", b)
          /\ asked' = IF b \in init THEN [asked EXCEPT ![b] = "INIT"] ELSE asked
          /\ fds' \in Closed(sock[b])
          /\ init' = init \ {b} /\ impl' = impl \ {b}
          /\ history' = [history EXCEPT ![b] = "down"]
          /\ Rest(Main, todo[Main] \ {b})
    /\ UNCHANGED <<canfd, cans, sock, manager, lock, pc, cur, cycling, starts>>

(* readAllBuses and writeToAllBuses, by the cyclic thread. *)
ReadOrWriteAll == cycling /\ Begin(Cyclic, "cycle")
ReadOrWrite ==
    /\ \E b \in Buses : Picked(Cyclic, "cycle", b) /\ Rest(Cyclic, todo[Cyclic] \ {b})
    /\ UNCHANGED <<kernel, state, manager, lock, pc, cur, cycling, starts>>

ExtractErasingFirst ==
    /\ pc[Main] = "idle"
    /\ \E b \in map \ moved :
          /\ CarefulUse(~cycling /\ pc[Cyclic] = "idle" /\ MayDiscard(b))
          /\ moved' = moved \cup {b} /\ map' = map \ {b} /\ cur' = b
    /\ Go(Main, "erase")
    /\ UNCHANGED <<kernel, state, lock, todo, cycling, starts>>

(***************************************************************************)
(* extractBusByName, in two steps and without busMutex_; the caller then   *)
(* discards the bus.                                                       *)
(***************************************************************************)
Extract ==
    /\ pc[Main] = "idle"
    /\ \E b \in map \ moved :
          /\ CarefulUse(~cycling /\ pc[Cyclic] = "idle" /\ MayDiscard(b))
          /\ moved' = moved \cup {b} /\ cur' = b
    /\ Go(Main, "erase")
    /\ UNCHANGED <<kernel, state, map, lock, todo, cycling, starts>>

EraseNothing ==
    /\ pc[Main] = "erase"
    /\ impl' = impl \ {cur}
    /\ Go(Main, "idle")
    /\ UNCHANGED <<kernel, manager, sock, init, asked, history, lock, todo, cur, cycling, starts>>

Erase ==
    /\ pc[Main] = "erase"
    /\ map' = map \ {cur} /\ moved' = moved \ {cur}
    /\ impl' = impl \ {cur}
    /\ Go(Main, "idle")
    /\ UNCHANGED <<kernel, sock, init, asked, history, lock, todo, cur, cycling, starts>>

(* The caller starts the cyclic thread, and joins it. *)
SwitchCyclic ==
    /\ pc[Main] = "idle"
    /\ cycling' = ~cycling
    /\ IF cycling THEN pc[Cyclic] = "idle"
       ELSE CarefulUse(\A b \in map : history[b] = "up")
    /\ UNCHANGED <<kernel, state, manager, lock, pc, todo, cur, starts>>

MainNext ==
    \/ StartupCommunication \/ StartBus \/ SlaveFails \/ BusUp
    \/ SetBussesOperational \/ SetState
    \/ ShutdownAllBuses \/ ShutdownBus
    \/ Extract \/ Erase \/ SwitchCyclic
    \/ \E loop \in {"start", "operate", "stop"} : LoopEnds(Main, loop)
CyclicNext == ReadOrWriteAll \/ ReadOrWrite \/ LoopEnds(Cyclic, "cycle")

Next == MainNext \/ CyclicNext \/ CanOpen \/ CanClose

Fairness ==
    /\ WF_vars(CyclicNext)
    /\ WF_vars(ShutdownBus) /\ WF_vars(LoopEnds(Main, "stop"))

Spec == Init /\ [][Next]_vars /\ Fairness

TypeOK ==
    /\ fds \in [Fds -> Buses \cup {Can, Nobody}]
    /\ canfd \in Fds \cup {NoFd} /\ cans \in 0 .. MaxCans
    /\ sock \in [Buses -> Fds \cup {NoFd, Junk}]
    /\ impl \subseteq Buses /\ init \subseteq Buses
    /\ asked \in [Buses -> {"NONE", "INIT", "PRE_OP", "SAFE_OP", "OPERATIONAL"}]
    /\ history \in [Buses -> Histories]
    /\ map \subseteq Buses /\ moved \subseteq map
    /\ lock \in Threads \cup {Nobody}
    /\ pc \in [Threads -> {"idle", "start", "slaves", "operate", "stop", "cycle", "erase"}]
    /\ todo \in [Threads -> SUBSET Buses] /\ cur \in Buses
    /\ cycling \in BOOLEAN /\ starts \in 0 .. MaxStarts

(***************************************************************************)
(* Properties                                                              *)
(***************************************************************************)
(* A bus that is initialized, and a CanDriver, have the socket they think  *)
(* they have: nobody else has closed it or been given its number. A socket *)
(* a bus has opened is still known to it, and can be closed.               *)
HoldersHold ==
    /\ \A b \in init : sock[b] \in Fds /\ fds[sock[b]] = b
    /\ canfd # NoFd => fds[canfd] = Can
NoSocketLost == \A f \in Fds, b \in Buses : fds[f] = b => sock[b] = f /\ b \in impl
SocketsAgree == HoldersHold /\ NoSocketLost

(* Every bus a loop has still to call is there: a call on one that has     *)
(* been shut down or moved away goes through a null pointer.               *)
NoCallOnNothing ==
    \A t \in Threads : pc[t] # "idle" => \A b \in todo[t] : There(b)

(* shutdownAllBuses ends with every slave asked for INIT and every socket  *)
(* closed, whatever the cyclic thread is doing.                            *)
ShutdownEnds ==
    pc[Main] = "stop" ~>
        \A b \in map : asked[b] \in {"INIT", "NONE"} /\ \A f \in Fds : fds[f] # b
=============================================================================
