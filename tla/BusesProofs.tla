---------------------------- MODULE BusesProofs ----------------------------
(***************************************************************************)
(* What is proved of Buses for every set of buses and of descriptors, if   *)
(* the buses are used as CarefulUse says.                                  *)
(***************************************************************************)
EXTENDS Buses, TLAPS

(***************************************************************************)
(* The inductive invariant.                                                *)
(***************************************************************************)
(* A bus holds a socket once its startup has got far enough, until it is   *)
(* shut down.                                                              *)
Holding(b) == history[b] \in {"up", "late"} \/ (pc[Main] = "slaves" /\ cur = b)

Owns(b) == sock[b] \in Fds /\ fds[sock[b]] = b

InitHold == \A b \in init : Holding(b)
HoldOwn == \A b \in Buses : Holding(b) => Owns(b)
RefusedOwn == \A b \in Buses : history[b] = "refused" => sock[b] = NoFd \/ Owns(b)
OwnedKnown ==
    \A f \in Fds, b \in Buses :
        fds[f] = b => /\ sock[b] = f /\ b \in impl
                      /\ Holding(b) \/ history[b] = "refused"
CanOwn == canfd # NoFd => fds[canfd] = Can
SocketInv == InitHold /\ HoldOwn /\ RefusedOwn /\ OwnedKnown /\ CanOwn

(* What the caller saw to at the beginning of a loop still holds of the    *)
(* buses the loop has not come to.                                         *)
LoopInv ==
    /\ pc[Main] \in {"start", "slaves"} => \A b \in todo[Main] : MayStart(b)
    /\ pc[Main] = "slaves" => cur \in todo[Main]
    /\ pc[Main] = "stop" => \A b \in todo[Main] : MayShutdown(b)
    /\ pc[Main] = "operate" => \A b \in map : history[b] = "up"
    /\ pc[Main] = "erase" => MayDiscard(cur)
    /\ cycling => pc[Main] \in {"idle", "operate"} /\ \A b \in map : history[b] = "up"
    /\ pc[Main] # "cycle"
    /\ pc[Cyclic] = "idle" \/ (pc[Cyclic] = "cycle" /\ cycling)

ManagerInv ==
    /\ \A b \in map : history[b] # "down" => b \in impl
    /\ moved = IF pc[Main] = "erase" THEN {cur} ELSE {}
    /\ \A t \in Threads : todo[t] \subseteq map
    /\ \A t \in Threads : pc[t] \in {"idle", "erase"} => todo[t] = {}

IInv == TypeOK /\ SocketInv /\ LoopInv /\ ManagerInv

USE BusesAssumption DEF Main, Cyclic, Threads, Nobody, NoFd, Junk, Histories, Failures,
    Go, Rest, CarefulUse, MayStart, MayShutdown, MayDiscard,
    kernel, state, manager, threads, vars

(***************************************************************************)
(* Types                                                                   *)
(***************************************************************************)
LEMMA TypeInit == Init => TypeOK
<1> USE DEF Init, TypeOK
<1> SUFFICES ASSUME Init PROVE TypeOK
    OBVIOUS
<1>1. fds \in [Fds -> Buses \cup {Can, Nobody}] /\ canfd \in Fds \cup {NoFd} /\ cans \in 0 .. MaxCans
    OBVIOUS
<1>2. sock \in [Buses -> Fds \cup {NoFd, Junk}] /\ impl \subseteq Buses /\ init \subseteq Buses
    OBVIOUS
<1>3. /\ asked \in [Buses -> {"NONE", "INIT", "PRE_OP", "SAFE_OP", "OPERATIONAL"}]
      /\ history \in [Buses -> Histories]
    OBVIOUS
<1>4. /\ map \subseteq Buses /\ moved \subseteq map /\ lock \in Threads \cup {Nobody}
      /\ cur \in Buses
    OBVIOUS
<1>6. cycling \in BOOLEAN
    OBVIOUS
<1>7. starts \in 0 .. MaxStarts
    OBVIOUS
<1>5. /\ pc \in [Threads -> {"idle", "start", "slaves", "operate", "stop", "cycle", "erase"}]
      /\ todo \in [Threads -> SUBSET Buses]
    OBVIOUS
<1> QED BY <1>1, <1>2, <1>3, <1>4, <1>5, <1>6, <1>7

LEMMA ClosedType ==
    ASSUME TypeOK, NEW f \in Fds \cup {NoFd, Junk}, fds' \in Closed(f)
    PROVE  fds' \in [Fds -> Buses \cup {Can, Nobody}]
BY DEF TypeOK, Closed

LEMMA GivenType ==
    ASSUME TypeOK, NEW f \in Fds \cup {NoFd}, NEW who \in Buses \cup {Can}, fds' = Given(f, who)
    PROVE  fds' \in [Fds -> Buses \cup {Can, Nobody}]
BY DEF TypeOK, Given

LEMMA NewFdType == NewFd \subseteq Fds \cup {NoFd} /\ Free \subseteq Fds
BY DEF NewFd, Free

LEMMA TypeNext == ASSUME TypeOK, [Next]_vars PROVE TypeOK'
<1> USE DEF TypeOK
<1>1. CASE CanOpen
    BY <1>1, NewFdType, GivenType DEF CanOpen
<1>2. CASE CanClose
    BY <1>2, ClosedType DEF CanClose
<1>3. CASE StartBus
    <2>0. PICK b \in Buses : Unavailable(b) \/ Refused(b) \/ EarlyFailure(b) \/ Configured(b)
        BY <1>3 DEF StartBus
    <2>1. starts' \in 0 .. MaxStarts /\ UNCHANGED <<manager, cycling>>
        BY <1>3 DEF StartBus
    <2>2. CASE Unavailable(b)
        BY <2>1, <2>2 DEF Unavailable, Fail
    <2>3. CASE Refused(b)
      <3>1. PICK f \in NewFd : Opens(b, f)
          BY <2>3 DEF Refused
      <3>2. fds' \in [Fds -> Buses \cup {Can, Nobody}]
          BY <3>1, NewFdType, GivenType DEF Opens
      <3>3. sock' \in [Buses -> Fds \cup {NoFd, Junk}]
          BY <3>1, NewFdType DEF Opens
      <3> QED BY <2>1, <2>3, <3>2, <3>3 DEF Refused, Fail
    <2>4. CASE EarlyFailure(b)
        BY <2>1, <2>4, NewFdType DEF EarlyFailure, Fail
    <2>5. CASE Configured(b)
        BY <2>1, <2>5, NewFdType, GivenType DEF Configured, Opens
    <2> QED BY <2>0, <2>2, <2>3, <2>4, <2>5
<1>4. CASE SlaveFails
    BY <1>4 DEF SlaveFails, Fail
<1>5. CASE BusUp
    BY <1>5 DEF BusUp
<1>6. CASE SetState
    BY <1>6 DEF SetState
<1>7. CASE ShutdownBus
    <2>1. PICK b \in Buses : /\ fds' \in Closed(sock[b])
                             /\ asked' \in {asked, [asked EXCEPT ![b] = "INIT"]}
                             /\ init' = init \ {b} /\ impl' = impl \ {b}
                             /\ history' = [history EXCEPT ![b] = "down"]
                             /\ todo' = [todo EXCEPT ![Main] = todo[Main] \ {b}]
        BY <1>7 DEF ShutdownBus
    <2>2. fds' \in [Fds -> Buses \cup {Can, Nobody}]
        BY <2>1, ClosedType
    <2>3. /\ init' \subseteq Buses /\ impl' \subseteq Buses
          /\ asked' \in [Buses -> {"NONE", "INIT", "PRE_OP", "SAFE_OP", "OPERATIONAL"}]
          /\ history' \in [Buses -> Histories] /\ todo' \in [Threads -> SUBSET Buses]
        BY <2>1
    <2> QED BY <1>7, <2>2, <2>3 DEF ShutdownBus
<1>8. CASE Extract
    BY <1>8 DEF Extract
<1>9. CASE Erase
    BY <1>9 DEF Erase
<1>10. CASE SwitchCyclic
    BY <1>10 DEF SwitchCyclic
<1>11. ASSUME NEW t \in Threads,
              NEW loop \in {"start", "operate", "stop", "cycle"}, Begin(t, loop)
       PROVE  TypeOK'
    BY <1>11 DEF Begin
<1>12. ASSUME NEW t \in Threads, End(t, "idle") PROVE TypeOK'
    BY <1>12 DEF End
<1>13. CASE ReadOrWrite
    BY <1>13 DEF ReadOrWrite
<1>14. CASE UNCHANGED vars
    BY <1>14
<1> QED
    BY <1>1, <1>2, <1>3, <1>4, <1>5, <1>6, <1>7, <1>8, <1>9, <1>10, <1>11, <1>12,
       <1>13, <1>14
    DEF Next, MainNext, CyclicNext, LoopEnds, StartupCommunication, SetBussesOperational,
        ShutdownAllBuses, ReadOrWriteAll

(***************************************************************************)
(* The loops and the caller                                                *)
(***************************************************************************)
LEMMA LoopNext ==
    ASSUME Careful, TypeOK, LoopInv, ManagerInv, [Next]_vars
    PROVE  LoopInv'
<1> USE DEF TypeOK, LoopInv
<1>1. CASE CanOpen \/ CanClose \/ UNCHANGED vars \/ SetState \/ ReadOrWrite
    BY <1>1 DEF CanOpen, CanClose, SetState, ReadOrWrite, Picked
<1>2. CASE StartBus
    <2>0. PICK b \in Buses : Unavailable(b) \/ Refused(b) \/ EarlyFailure(b) \/ Configured(b)
        BY <1>2 DEF StartBus
    <2>1. UNCHANGED <<manager, cycling>>
        BY <1>2 DEF StartBus
    <2>2. CASE Unavailable(b) \/ Refused(b) \/ EarlyFailure(b)
        <3>1. /\ pc[Main] = "start" /\ pc' = [pc EXCEPT ![Main] = "idle"]
            BY <2>2 DEF Unavailable, Refused, EarlyFailure, Picked, Fail
        <3> QED BY <2>1, <3>1
    <2>3. CASE Configured(b)
        BY <2>1, <2>3 DEF Configured, Picked
    <2> QED BY <2>0, <2>2, <2>3
<1>3. CASE SlaveFails
    BY <1>3 DEF SlaveFails, Fail
<1>4. CASE BusUp
    BY <1>4 DEF BusUp
<1>5. CASE ShutdownBus
    BY <1>5 DEF ShutdownBus, Picked
<1>6. CASE Extract
    BY <1>6 DEF Extract
<1>7. CASE Erase
    BY <1>7 DEF Erase, ManagerInv
<1>8. CASE SwitchCyclic
    BY <1>8 DEF SwitchCyclic
<1>9. CASE StartupCommunication \/ SetBussesOperational \/ ShutdownAllBuses
    BY <1>9 DEF StartupCommunication, SetBussesOperational, ShutdownAllBuses, Begin
<1>10. CASE ReadOrWriteAll
    BY <1>10 DEF ReadOrWriteAll, Begin
<1>11. ASSUME NEW t \in Threads, End(t, "idle") PROVE LoopInv'
    BY <1>11 DEF End
<1> QED
    BY <1>1, <1>2, <1>3, <1>4, <1>5, <1>6, <1>7, <1>8, <1>9, <1>10, <1>11
    DEF Next, MainNext, CyclicNext, LoopEnds

LEMMA ManagerNext ==
    ASSUME Careful, TypeOK, LoopInv, ManagerInv, [Next]_vars
    PROVE  ManagerInv'
<1> USE DEF TypeOK, LoopInv, ManagerInv
<1>1. CASE CanOpen \/ CanClose \/ UNCHANGED vars \/ SetState \/ ReadOrWrite
    BY <1>1 DEF CanOpen, CanClose, SetState, ReadOrWrite, Picked
<1>2. CASE StartBus
    <2>0. PICK b \in Buses : Unavailable(b) \/ Refused(b) \/ EarlyFailure(b) \/ Configured(b)
        BY <1>2 DEF StartBus
    <2>1. UNCHANGED <<manager, cycling>>
        BY <1>2 DEF StartBus
    <2>2. CASE Unavailable(b) \/ Refused(b) \/ EarlyFailure(b)
        <3>1. /\ pc[Main] = "start" /\ pc' = [pc EXCEPT ![Main] = "idle"] /\ b \in impl
              /\ impl' = impl /\ todo' = [todo EXCEPT ![Main] = {}]
              /\ history' \in {[history EXCEPT ![b] = h] : h \in Failures}
            BY <2>2 DEF Unavailable, Refused, EarlyFailure, Picked, Fail, There
        <3> QED BY <2>1, <3>1
    <2>3. CASE Configured(b)
        BY <2>1, <2>3 DEF Configured, Picked
    <2> QED BY <2>0, <2>2, <2>3
<1>3. CASE SlaveFails
  <2>1. /\ pc[Main] = "slaves" /\ pc' = [pc EXCEPT ![Main] = "idle"]
        /\ todo' = [todo EXCEPT ![Main] = {}]
        /\ UNCHANGED <<impl, map, moved>> /\ history' = [history EXCEPT ![cur] = "late"]
      BY <1>3 DEF SlaveFails, Fail
  <2> QED BY <2>1
<1>4. CASE BusUp
  <2>1. /\ pc[Main] = "slaves" /\ pc' = [pc EXCEPT ![Main] = "start"]
        /\ todo' = [todo EXCEPT ![Main] = todo[Main] \ {cur}]
        /\ UNCHANGED <<impl, map, moved>> /\ history' = [history EXCEPT ![cur] = "up"]
      BY <1>4 DEF BusUp
  <2> QED BY <2>1
<1>5. CASE ShutdownBus
    BY <1>5 DEF ShutdownBus, Picked
<1>6. CASE Extract
    BY <1>6 DEF Extract
<1>7. CASE Erase
    BY <1>7 DEF Erase
<1>8. CASE SwitchCyclic
    BY <1>8 DEF SwitchCyclic
<1>9. ASSUME NEW t \in Threads,
             NEW loop \in {"start", "operate", "stop", "cycle"}, Begin(t, loop)
      PROVE  ManagerInv'
    BY <1>9 DEF Begin
<1>10. ASSUME NEW t \in Threads, pc[t] # "erase", End(t, "idle") PROVE ManagerInv'
    BY <1>10 DEF End
<1> QED
    BY <1>1, <1>2, <1>3, <1>4, <1>5, <1>6, <1>7, <1>8, <1>9, <1>10
    DEF Next, MainNext, CyclicNext, LoopEnds, StartupCommunication, SetBussesOperational,
        ShutdownAllBuses, ReadOrWriteAll

(***************************************************************************)
(* The sockets                                                             *)
(***************************************************************************)
(* A free descriptor is given to a bus that has none.                      *)
LEMMA Opened ==
    ASSUME TypeOK, SocketInv, NEW b \in Buses, ~Holding(b), history[b] # "refused",
           NEW f \in Free, Opens(b, f), UNCHANGED canfd
    PROVE  /\ Owns(b)'
           /\ \A c \in Buses : Owns(c) => Owns(c)'
           /\ \A g \in Fds, c \in Buses :
                 fds'[g] = c => (c = b /\ g = f) \/ (c # b /\ fds[g] = c)
           /\ \A c \in Buses : c # b => sock'[c] = sock[c]
           /\ sock'[b] = f
           /\ canfd' # NoFd => fds'[canfd'] = Can
<1>1. f \in Fds /\ fds[f] = Nobody /\ f # NoFd
    BY DEF Free
<1>2. fds' = [fds EXCEPT ![f] = b] /\ sock' = [sock EXCEPT ![b] = f]
    BY <1>1 DEF Opens, Given
<1>3. \A g \in Fds : fds[g] # b
    BY DEF SocketInv, OwnedKnown
<1> QED BY <1>1, <1>2, <1>3 DEF TypeOK, SocketInv, HoldOwn, OwnedKnown, CanOwn, Owns

(* close() of a descriptor that is open takes it from its holder only.     *)
LEMMA Closes ==
    ASSUME TypeOK, NEW f \in Fds, fds' \in Closed(f)
    PROVE  fds' = [fds EXCEPT ![f] = Nobody]
<1>1. f # NoFd /\ f # Junk
    OBVIOUS
<1> QED BY <1>1, Zenon DEF Closed

LEMMA ClosesNothing ==
    ASSUME NEW f, f = NoFd, f # Junk PROVE Closed(f) = {fds}
BY Zenon DEF Closed

(* Where the sockets, init and impl stay, it is enough that nobody stops   *)
(* to hold, to be refused, or begins to.                                   *)
LEMMA SocketKept ==
    ASSUME TypeOK, SocketInv, UNCHANGED <<fds, sock, impl, init, canfd>>,
           \A b \in Buses : Holding(b)' = Holding(b),
           \A b \in Buses : (history'[b] = "refused") = (history[b] = "refused")
    PROVE  SocketInv'
<1>1. \A b \in Buses : Owns(b)' = Owns(b)
    BY DEF Owns
<1>2. InitHold' /\ CanOwn'
    BY DEF SocketInv, InitHold, CanOwn, TypeOK
<1>3. HoldOwn' /\ RefusedOwn'
    BY <1>1 DEF SocketInv, HoldOwn, RefusedOwn
<1>4. OwnedKnown'
    BY DEF SocketInv, OwnedKnown, OwnedKnown
<1> QED BY <1>2, <1>3, <1>4 DEF SocketInv

LEMMA SocketNext ==
    ASSUME Careful, TypeOK, SocketInv, LoopInv, ManagerInv, [Next]_vars
    PROVE  SocketInv'
<1>1. CASE CanOpen
  <2>1. PICK f \in NewFd : canfd' = f /\ fds' = Given(f, Can)
      BY <1>1 DEF CanOpen
  <2>2. UNCHANGED <<sock, impl, init, history, pc, cur>>
      BY <1>1 DEF CanOpen
  <2>3. CASE f = NoFd
    <3>1. fds' = fds /\ canfd' = NoFd
        BY <2>1, <2>3 DEF Given
    <3> QED BY <2>2, <3>1
        DEF SocketInv, InitHold, HoldOwn, RefusedOwn, OwnedKnown, CanOwn, Holding, Owns
  <2>4. CASE f # NoFd
    <3>1. f \in Fds /\ fds[f] = Nobody /\ fds' = [fds EXCEPT ![f] = Can]
        BY <2>1, <2>4 DEF NewFd, Free, Given
    <3>2. fds'[canfd'] = Can
        BY <2>1, <3>1 DEF TypeOK
    <3>3. \A b \in Buses : Owns(b) => Owns(b)'
        BY <2>2, <3>1 DEF TypeOK, Owns
    <3>4. \A g \in Fds, b \in Buses : fds'[g] = b => fds[g] = b
        BY <3>1 DEF TypeOK
    <3> QED BY <2>2, <3>2, <3>3, <3>4
        DEF SocketInv, InitHold, HoldOwn, RefusedOwn, OwnedKnown, CanOwn, Holding
  <2> QED BY <2>3, <2>4
<1>2. CASE CanClose
  <2>1. /\ canfd \in Fds /\ fds[canfd] = Can /\ canfd' = NoFd
        /\ UNCHANGED <<sock, impl, init, history, pc, cur>> /\ fds' \in Closed(canfd)
      BY <1>2 DEF CanClose, SocketInv, CanOwn, TypeOK
  <2>2. fds' = [fds EXCEPT ![canfd] = Nobody]
      BY <2>1, Closes
  <2>3. \A b \in Buses : Owns(b) => Owns(b)'
      BY <2>1, <2>2 DEF TypeOK, Owns
  <2>4. \A g \in Fds, b \in Buses : fds'[g] = b => fds[g] = b
      BY <2>1, <2>2 DEF TypeOK
  <2> QED BY <2>1, <2>3, <2>4
      DEF SocketInv, InitHold, HoldOwn, RefusedOwn, OwnedKnown, CanOwn, Holding
<1>3. CASE StartBus
  <2>0. PICK b \in Buses : Unavailable(b) \/ Refused(b) \/ EarlyFailure(b) \/ Configured(b)
      BY <1>3 DEF StartBus
  <2>1. pc[Main] = "start" /\ b \in impl /\ MayStart(b)
      BY <2>0 DEF Unavailable, Refused, EarlyFailure, Configured, Picked, There, LoopInv
  <2>2. ~Holding(b) /\ history[b] # "refused"
      BY <2>1 DEF Holding
  <2>3. \A g \in Fds : fds[g] # b
      BY <2>2 DEF SocketInv, OwnedKnown
  <2>4. b \notin init
      BY <2>2 DEF SocketInv, InitHold
  <2>5. CASE Unavailable(b)
    <3>1. /\ UNCHANGED <<fds, sock, impl, init, canfd, cur>>
          /\ pc' = [pc EXCEPT ![Main] = "idle"]
          /\ history' = [history EXCEPT ![b] = "unavailable"]
        BY <2>5 DEF Unavailable, Fail
    <3> QED BY <2>1, <2>2, <3>1, SocketKept DEF Holding, TypeOK
  <2>6. CASE Refused(b)
    <3>1. PICK f \in NewFd : Opens(b, f)
        BY <2>6 DEF Refused
    <3>2. /\ UNCHANGED <<impl, init, canfd, cur>>
          /\ pc' = [pc EXCEPT ![Main] = "idle"]
          /\ history' = [history EXCEPT ![b] = "refused"]
        BY <2>6 DEF Refused, Fail
    <3>3. \A c \in Buses : Holding(c)' = Holding(c)
        BY <2>1, <2>2, <3>2 DEF Holding, TypeOK
    <3>4. CASE f = NoFd
      <4>1. fds' = fds /\ sock' = [sock EXCEPT ![b] = NoFd]
          BY <3>1, <3>4 DEF Opens, Given
      <4> QED BY <2>2, <2>3, <3>2, <3>3, <4>1
          DEF SocketInv, InitHold, HoldOwn, RefusedOwn, OwnedKnown, CanOwn, Owns, TypeOK
    <3>5. CASE f # NoFd
      <4>1. f \in Free
          BY <3>1, <3>5 DEF NewFd
      <4> QED BY <2>1, <2>2, <3>1, <3>2, <3>3, <4>1, Opened
          DEF SocketInv, InitHold, HoldOwn, RefusedOwn, OwnedKnown, CanOwn, TypeOK
    <3> QED BY <3>4, <3>5
  <2>7. CASE EarlyFailure(b)
    <3>1. /\ UNCHANGED <<fds, impl, init, canfd, cur>>
          /\ pc' = [pc EXCEPT ![Main] = "idle"]
          /\ history' = [history EXCEPT ![b] = "closed"]
          /\ \A c \in Buses : c # b => sock'[c] = sock[c]
        BY <2>7 DEF EarlyFailure, Fail, TypeOK
    <3>2. \A c \in Buses : Holding(c)' = Holding(c)
        BY <2>1, <2>2, <3>1 DEF Holding, TypeOK
    <3> QED BY <2>2, <2>3, <2>4, <3>1, <3>2
        DEF SocketInv, InitHold, HoldOwn, RefusedOwn, OwnedKnown, CanOwn, Owns, TypeOK
  <2>8. CASE Configured(b)
    <3>1. PICK f \in Free : Opens(b, f)
        BY <2>8 DEF Configured
    <3>2. /\ UNCHANGED <<impl, canfd, history>> /\ cur' = b /\ init' = init \cup {b}
          /\ pc' = [pc EXCEPT ![Main] = "slaves"]
        BY <2>8 DEF Configured
    <3>3. \A c \in Buses : Holding(c)' = (Holding(c) \/ c = b)
        BY <2>1, <3>2 DEF Holding, TypeOK
    <3>4. /\ Owns(b)'
          /\ \A c \in Buses : Owns(c) => Owns(c)'
          /\ \A g \in Fds, c \in Buses :
                fds'[g] = c => (c = b /\ g = f) \/ (c # b /\ fds[g] = c)
          /\ \A c \in Buses : c # b => sock'[c] = sock[c]
          /\ sock'[b] = f
          /\ canfd' # NoFd => fds'[canfd'] = Can
        BY <2>2, <3>1, <3>2, Opened
    <3>7. InitHold'
        BY <2>1, <2>2, <3>2, <3>3, <3>4 DEF SocketInv, InitHold, TypeOK
    <3>8. HoldOwn'
        BY <2>1, <2>2, <3>2, <3>3, <3>4 DEF SocketInv, HoldOwn
    <3>9. RefusedOwn'
        BY <2>1, <2>2, <3>2, <3>3, <3>4 DEF SocketInv, RefusedOwn
    <3>10. OwnedKnown'
      <4> SUFFICES ASSUME NEW g \in Fds, NEW c \in Buses, fds'[g] = c
                   PROVE  /\ sock'[c] = g /\ c \in impl'
                          /\ Holding(c)' \/ history'[c] = "refused"
          BY DEF OwnedKnown
      <4>1. c = b => g = f /\ c \in impl'
          BY <2>1, <3>2, <3>4
      <4>2. c # b => fds[g] = c /\ sock'[c] = sock[c]
          BY <3>2, <3>3, <3>4
      <4> QED BY <4>1, <4>2, <3>2, <3>3, <3>4 DEF SocketInv, OwnedKnown
    <3>11. CanOwn'
        BY <2>1, <2>2, <3>2, <3>3, <3>4 DEF SocketInv, CanOwn
    <3> QED BY <3>7, <3>8, <3>9, <3>10, <3>11 DEF SocketInv
  <2> QED BY <2>0, <2>5, <2>6, <2>7, <2>8
<1>4. CASE SlaveFails \/ BusUp
  <2>1. /\ pc[Main] = "slaves" /\ pc'[Main] # "slaves"
        /\ history' \in {[history EXCEPT ![cur] = h] : h \in {"late", "up"}}
        /\ UNCHANGED <<fds, sock, impl, init, canfd, cur>>
      BY <1>4 DEF SlaveFails, BusUp, Fail, TypeOK
  <2>2. history[cur] # "refused"
      BY <2>1 DEF LoopInv
  <2>3. \A b \in Buses : Holding(b)' = Holding(b)
      BY <2>1 DEF Holding, TypeOK
  <2> QED BY <2>1, <2>2, <2>3, SocketKept DEF TypeOK
<1>5. CASE ShutdownBus
  <2>1. PICK b \in Buses : /\ Picked(Main, "stop", b)
                           /\ fds' \in Closed(sock[b])
                           /\ init' = init \ {b} /\ impl' = impl \ {b}
                           /\ history' = [history EXCEPT ![b] = "down"]
      BY <1>5 DEF ShutdownBus
  <2>2. UNCHANGED <<canfd, sock, pc, cur>> /\ pc[Main] = "stop" /\ MayShutdown(b)
      BY <1>5, <2>1 DEF ShutdownBus, Picked, LoopInv
  <2>3. \A c \in Buses : /\ Holding(c)' = (Holding(c) /\ c # b)
                         /\ history'[c] = "refused" => history[c] = "refused" /\ c # b
                         /\ history[c] = "refused" /\ c # b => history'[c] = "refused"
      BY <2>1, <2>2 DEF Holding, TypeOK
  <2>4. sock[b] = NoFd \/ Owns(b)
      BY <2>2 DEF SocketInv, HoldOwn, RefusedOwn, Holding
  <2>5. CASE sock[b] = NoFd
    <3>1. fds' = fds /\ \A g \in Fds : fds[g] # b
        BY <2>1, <2>5, ClosesNothing DEF SocketInv, OwnedKnown
    <3>2. \A c \in Buses : Owns(c)' = Owns(c)
        BY <2>2, <3>1 DEF Owns
    <3>7. InitHold'
        BY <2>1, <2>2, <2>3, <3>1, <3>2 DEF SocketInv, InitHold, TypeOK
    <3>8. HoldOwn'
        BY <2>1, <2>2, <2>3, <3>1, <3>2 DEF SocketInv, HoldOwn
    <3>9. RefusedOwn'
        BY <2>1, <2>2, <2>3, <3>1, <3>2 DEF SocketInv, RefusedOwn
    <3>10. OwnedKnown'
      <4> SUFFICES ASSUME NEW g \in Fds, NEW c \in Buses, fds'[g] = c
                   PROVE  /\ sock'[c] = g /\ c \in impl'
                          /\ Holding(c)' \/ history'[c] = "refused"
          BY DEF OwnedKnown
      <4>1. fds[g] = c /\ c # b
          BY <3>1
      <4>2. /\ sock[c] = g /\ c \in impl
            /\ Holding(c) \/ history[c] = "refused"
          BY <4>1 DEF SocketInv, OwnedKnown
      <4> QED BY <4>1, <4>2, <2>1, <2>2, <2>3
    <3>11. CanOwn'
        BY <2>1, <2>2, <2>3, <3>1, <3>2 DEF SocketInv, CanOwn
    <3> QED BY <3>7, <3>8, <3>9, <3>10, <3>11 DEF SocketInv
  <2>6. CASE Owns(b)
    <3>1. sock[b] \in Fds /\ fds[sock[b]] = b /\ fds' = [fds EXCEPT ![sock[b]] = Nobody]
        BY <2>1, <2>6, Closes DEF Owns
    <3>2. \A c \in Buses : c # b /\ Owns(c) => Owns(c)'
        BY <2>2, <3>1 DEF Owns, TypeOK
    <3>3. \A g \in Fds, c \in Buses : fds'[g] = c => fds[g] = c /\ c # b
        BY <3>1 DEF SocketInv, OwnedKnown, TypeOK
    <3>4. canfd # NoFd => fds'[canfd] = Can
        BY <3>1 DEF SocketInv, CanOwn, TypeOK
    <3>7. InitHold'
        BY <2>1, <2>2, <2>3, <3>2, <3>3, <3>4 DEF SocketInv, InitHold, TypeOK
    <3>8. HoldOwn'
        BY <2>1, <2>2, <2>3, <3>2, <3>3, <3>4 DEF SocketInv, HoldOwn
    <3>9. RefusedOwn'
        BY <2>1, <2>2, <2>3, <3>2, <3>3, <3>4 DEF SocketInv, RefusedOwn
    <3>10. OwnedKnown'
      <4> SUFFICES ASSUME NEW g \in Fds, NEW c \in Buses, fds'[g] = c
                   PROVE  /\ sock'[c] = g /\ c \in impl'
                          /\ Holding(c)' \/ history'[c] = "refused"
          BY DEF OwnedKnown
      <4>1. fds[g] = c /\ c # b
          BY <3>3
      <4>2. /\ sock[c] = g /\ c \in impl
            /\ Holding(c) \/ history[c] = "refused"
          BY <4>1 DEF SocketInv, OwnedKnown
      <4> QED BY <4>1, <4>2, <2>1, <2>2, <2>3
    <3>11. CanOwn'
        BY <2>1, <2>2, <2>3, <3>2, <3>3, <3>4 DEF SocketInv, CanOwn
    <3> QED BY <3>7, <3>8, <3>9, <3>10, <3>11 DEF SocketInv
  <2> QED BY <2>4, <2>5, <2>6
<1>6. CASE Erase
  <2>1. /\ UNCHANGED <<fds, sock, init, canfd, history, cur>> /\ impl' = impl \ {cur}
        /\ pc[Main] = "erase" /\ pc'[Main] = "idle"
      BY <1>6 DEF Erase, TypeOK
  <2>2. ~Holding(cur) /\ history[cur] # "refused"
      BY <2>1 DEF LoopInv, Holding
  <2>3. \A b \in Buses : Holding(b)' = Holding(b)
      BY <2>1 DEF Holding
  <2>7. InitHold'
      BY <2>1, <2>2, <2>3 DEF SocketInv, InitHold, TypeOK, Owns
  <2>8. HoldOwn'
      BY <2>1, <2>2, <2>3 DEF SocketInv, HoldOwn, Owns
  <2>9. RefusedOwn'
      BY <2>1, <2>2, <2>3 DEF SocketInv, RefusedOwn, Owns
  <2>10. OwnedKnown'
      BY <2>1, <2>2, <2>3 DEF SocketInv, OwnedKnown, Owns
  <2>11. CanOwn'
      BY <2>1, <2>2, <2>3 DEF SocketInv, CanOwn, Owns
  <2> QED BY <2>7, <2>8, <2>9, <2>10, <2>11 DEF SocketInv
<1>7. ASSUME UNCHANGED <<fds, sock, impl, init, canfd, history>>,
             pc[Main] # "slaves", pc'[Main] # "slaves"
      PROVE  SocketInv'
    BY <1>7, SocketKept DEF Holding
<1>8. ASSUME UNCHANGED <<fds, sock, impl, init, canfd, history, cur>>, pc'[Main] = pc[Main]
      PROVE  SocketInv'
    BY <1>8, SocketKept DEF Holding
<1>9. CASE Extract \/ SwitchCyclic
    BY <1>7, <1>9 DEF Extract, SwitchCyclic, TypeOK
<1>10. CASE StartupCommunication \/ SetBussesOperational \/ ShutdownAllBuses
    BY <1>7, <1>10
    DEF StartupCommunication, SetBussesOperational, ShutdownAllBuses, Begin, TypeOK
<1>11. CASE SetState \/ ReadOrWrite \/ UNCHANGED vars
    BY <1>8, <1>11 DEF SetState, ReadOrWrite
<1>12. CASE ReadOrWriteAll \/ LoopEnds(Cyclic, "cycle")
    BY <1>8, <1>12 DEF ReadOrWriteAll, LoopEnds, Begin, End, TypeOK
<1>13. ASSUME NEW loop \in {"start", "operate", "stop"}, LoopEnds(Main, loop)
       PROVE  SocketInv'
    BY <1>7, <1>13 DEF LoopEnds, End, TypeOK
<1> QED
    BY <1>1, <1>2, <1>3, <1>4, <1>5, <1>6, <1>9, <1>10, <1>11, <1>12, <1>13
    DEF Next, MainNext, CyclicNext

(***************************************************************************)
(* The theorems                                                            *)
(***************************************************************************)
LEMMA IInvInit == Init => IInv
<1> SUFFICES ASSUME Init PROVE IInv
    OBVIOUS
<1>1. TypeOK
    BY TypeInit
<1>2. SocketInv
    BY
        DEF Init, SocketInv, InitHold, HoldOwn, RefusedOwn, OwnedKnown, CanOwn, Holding
<1>3. LoopInv
    BY DEF Init, LoopInv
<1>4. ManagerInv
    BY DEF Init, ManagerInv
<1> QED BY <1>1, <1>2, <1>3, <1>4 DEF IInv

LEMMA IInvNext == ASSUME Careful, IInv, [Next]_vars PROVE IInv'
BY TypeNext, SocketNext, LoopNext, ManagerNext DEF IInv

(* Every variable keeps its type, however the buses are used.              *)
THEOREM Typed == Spec => []TypeOK
<1>1. TypeOK /\ [Next]_vars => TypeOK'
    BY TypeNext
<1> QED BY <1>1, TypeInit, PTL DEF Spec

(* With careful use nobody loses a socket, and nobody gets another's: not  *)
(* when a startup fails, nor through a number the kernel gives out again.  *)
THEOREM SocketsStay == ASSUME Careful PROVE Spec => []SocketsAgree
<1>1. IInv => SocketsAgree
    BY DEF IInv, SocketInv, InitHold, HoldOwn, OwnedKnown, CanOwn,
           SocketsAgree, HoldersHold, NoSocketLost, Owns, TypeOK
<1>2. IInv /\ [Next]_vars => IInv'
    BY IInvNext
<1> QED BY <1>1, <1>2, IInvInit, PTL DEF Spec

(* With careful use no loop over the buses calls one that is gone.         *)
THEOREM CallsMeetBuses == ASSUME Careful PROVE Spec => []NoCallOnNothing
<1>1. IInv => NoCallOnNothing
  <2> SUFFICES ASSUME IInv, NEW t \in Threads, pc[t] # "idle", NEW b \in todo[t]
               PROVE  There(b)
      BY DEF NoCallOnNothing
  <2> USE DEF IInv, TypeOK, LoopInv, ManagerInv
  <2>1. b \in map
      OBVIOUS
  <2>2. b \notin moved
    <3>1. CASE t = Main
        BY <3>1
    <3>2. CASE t = Cyclic
        BY <3>2
    <3> QED BY <3>1, <3>2
  <2>3. history[b] # "down"
    <3>1. CASE t = Main
        BY <3>1
    <3>2. CASE t = Cyclic
        BY <2>1, <3>2
    <3> QED BY <3>1, <3>2
  <2> QED BY <2>1, <2>2, <2>3 DEF There
<1>2. IInv /\ [Next]_vars => IInv'
    BY IInvNext
<1> QED BY <1>1, <1>2, IInvInit, PTL DEF Spec
=============================================================================
