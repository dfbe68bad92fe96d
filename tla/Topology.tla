------------------------------ MODULE Topology ------------------------------
(***************************************************************************)
(* How the SOEM library works out where its slaves are: ecx_config_init    *)
(* finds the parent of every slave from the number of its links, and       *)
(* ecx_configdc the time a frame takes to every slave with a distributed   *)
(* clock, from the times at which the ports of the slaves saw one frame.   *)
(*                                                                         *)
(* The network is a tree. A frame enters a slave at port 0, goes out at    *)
(* its other ports in the order 3, 1, 2, comes back at each, and leaves at *)
(* port 0; slaves are numbered in the order in which they see the frame    *)
(* first. Every slave has a clock of its own; the master reads the lower   *)
(* bits of it as a signed number (int32 in the code).                      *)
(***************************************************************************)
EXTENDS Integers, FiniteSets, Sequences

CONSTANTS
    SlaveCount, \* ec_slavecount: slaves of the network
    Delays,     \* times a frame may take over a link
    Offsets,    \* what the clock of a slave may show when it sees the frame
    HalfRange   \* clocks count from -HalfRange to HalfRange - 1 and around

ASSUME TopologyAssumption ==
    /\ SlaveCount \in Nat \ {0} /\ HalfRange \in Nat \ {0}
    /\ Delays \subseteq Nat \ {0}
    /\ Offsets \subseteq -HalfRange .. HalfRange - 1

Nodes == 1 .. SlaveCount
Ports == 0 .. 3
Rank(p) == CASE p = 3 -> 1 [] p = 1 -> 2 [] p = 2 -> 3 [] p = 0 -> 4

VARIABLES
    up,          \* network: the slave before a slave, 0 for the master
    port,        \* network: the port of up that leads to it
    delay,       \* network: the time over that link
    dc,          \* network: whether it has a distributed clock (hasdc)
    off,         \* network: what its clock shows when the frame enters it
    topology,    \* number of links with communication
    activeports, \* the ports they are at
    parent,      \* the slave found to be the one before
    consumed,    \* consumedports: ports no slave has been matched with yet
    entryport,   \* port with the lowest time stamp
    pdelay,      \* propagation delay found
    DCnext,      \* the slave with a clock after it, 0 for none
    prevDCslave, \* the slave with a clock met last
    parenthold,  \* parent whose branch has had no clock so far
    phase, visit \* the loop in progress, and its slave

network == <<up, port, delay, dc, off>>
treeVars == <<up, port, delay, dc, off, topology, activeports, parent, consumed,
              entryport, pdelay, DCnext, prevDCslave, parenthold, phase, visit>>

(***************************************************************************)
(* The network and the frame in it.                                        *)
(***************************************************************************)
Children(s) == {c \in Nodes : up[c] = s}

(* A branch is numbered to its end before the next: what comes between a   *)
(* slave and the one before it hangs on the latter, or further out.        *)
Numbered ==
    \A s \in Nodes : \A t \in up[s] + 1 .. s - 1 : up[t] >= up[s]
Wired ==
    \A s, t \in Nodes \ {1} :
        s < t /\ up[s] = up[t] => Rank(port[s]) < Rank(port[t])

(* The time from a port to the end of what is there, and back; the time    *)
(* from the frame's entry into a slave until it leaves it.                 *)
Leg(s, p, trip) ==
    IF \E c \in Children(s) : port[c] = p
    THEN LET c == CHOOSE c \in Children(s) : port[c] = p
         IN  2 * delay[c] + trip[c]
    ELSE 0
Trip ==
    LET trip[s \in Nodes] == Leg(s, 3, trip) + Leg(s, 1, trip) + Leg(s, 2, trip)
    IN  trip

(* The time from its entry until it goes out at a port, and is back there. *)
OutAt(s, p) ==
    CASE p = 3 -> 0
      [] p = 1 -> Leg(s, 3, Trip)
      [] p = 2 -> Leg(s, 3, Trip) + Leg(s, 1, Trip)
BackAt(s, p) == OutAt(s, p) + Leg(s, p, Trip)

(* Time from the master's first slave to a slave. *)
Arrival ==
    LET at[s \in Nodes] ==
            IF s = 1 THEN 0 ELSE at[up[s]] + OutAt(up[s], port[s]) + delay[s]
    IN  at

Wrapped(x) == ((x + HalfRange) % (2 * HalfRange)) - HalfRange

(* DCrtA .. DCrtD: what the ports of a slave have latched. *)
PortTime(s, p) == Wrapped(off[s] + IF p = 0 THEN 0 ELSE BackAt(s, p))

TreeInit ==
    /\ up \in [Nodes -> 0 .. SlaveCount - 1]
    /\ \A s \in Nodes : up[s] < s /\ (up[s] = 0 <=> s = 1)
    /\ Numbered
    /\ port \in [Nodes -> {1, 2, 3}]
    /\ port[1] = 1 /\ Wired
    /\ delay \in [Nodes -> Delays]
    /\ dc \in [Nodes -> BOOLEAN]
    /\ off \in [Nodes -> Offsets]
    /\ topology = [s \in Nodes |-> 0]
    /\ activeports = [s \in Nodes |-> {}]
    /\ parent = [s \in Nodes |-> 0]
    /\ consumed = [s \in Nodes |-> {}]
    /\ entryport = [s \in Nodes |-> 0]
    /\ pdelay = [s \in Nodes |-> 0]
    /\ DCnext = [s \in 0 .. SlaveCount |-> 0]
    /\ prevDCslave = 0 /\ parenthold = 0
    /\ phase = "config" /\ visit = 1

(***************************************************************************)
(* ecx_config_init, for one slave: its open ports, and the search back     *)
(* through the slaves before it. An end of line ends a branch, a slave     *)
(* with k links more than two opens k of them.                             *)
(***************************************************************************)
Links(s) == {0} \cup {port[c] : c \in Children(s)}

OpensIgnoringCross(links) == CASE links = 1 -> -1 [] links \in {3, 4} -> 1
                               [] OTHER -> 0
Opens(links) == CASE links = 1 -> -1 [] links = 3 -> 1 [] links = 4 -> 2
                  [] OTHER -> 0
Topoc(s, k) ==
    LET topoc[j \in 1 .. s] ==
            IF j = s THEN 0 ELSE Opens(topology[j]) + topoc[j + 1]
    IN  topoc[k]
IsParent(s, k) == k = 1 \/ (Topoc(s, k) >= 0 /\ topology[k] > 1)
ParentOf(s) ==
    IF s = 1 THEN 0
    ELSE CHOOSE k \in 1 .. s - 1 :
            /\ IsParent(s, k)
            /\ \A j \in k + 1 .. s - 1 : ~IsParent(s, j)

ConfigInit ==
    /\ phase = "config"
    /\ activeports' = [activeports EXCEPT ![visit] = Links(visit)]
    /\ topology' = [topology EXCEPT ![visit] = Cardinality(Links(visit))]
    /\ parent' = [parent EXCEPT ![visit] = ParentOf(visit)]
    /\ phase' = IF visit < SlaveCount THEN "config" ELSE "dc"
    /\ visit' = IF visit < SlaveCount THEN visit + 1 ELSE 1
    /\ UNCHANGED <<up, port, delay, dc, off, consumed, entryport, pdelay,
                   DCnext, prevDCslave, parenthold>>

(***************************************************************************)
(* ecx_configdc, for one slave.                                            *)
(***************************************************************************)
FirstIn(order, set, none) ==
    IF \E k \in DOMAIN order : order[k] \in set
    THEN order[CHOOSE k \in DOMAIN order :
                  order[k] \in set /\ \A j \in 1 .. k - 1 : order[j] \notin set]
    ELSE none

(* ecx_prevport *)
PrevPort(s, p) ==
    FirstIn(CASE p = 0 -> <<2, 1, 3>> [] p = 1 -> <<3, 0, 2>>
              [] p = 2 -> <<1, 3, 0>> [] p = 3 -> <<0, 2, 1>>,
            activeports[s], p)

(* ecx_parentport *)
ParentPortByNumber(ports) == FirstIn(<<1, 2, 3, 0>>, ports, 0)
ParentPort(ports) == FirstIn(<<3, 1, 2, 0>>, ports, 0)
Consume(ports) == ports \ {ParentPort(ports)}

(* The port with the lowest time stamp, the first of them in this order. *)
EntryPort(s) ==
    LET lowest == {p \in activeports[s] : \A q \in activeports[s] :
                      PortTime(s, p) <= PortTime(s, q)}
    IN  FirstIn(<<0, 3, 1, 2>>, lowest, 0)

(* The nearest slave before it with a clock (0 if there is none), and the  *)
(* slave that leads from there to it.                                      *)
DCParent(s) ==
    LET dcp[k \in 0 .. SlaveCount] ==
            IF k = 0 \/ dc[k] THEN k ELSE dcp[parent[k]]
    IN  dcp[parent[s]]
ChildTowards(s, top) ==
    LET child[k \in 0 .. SlaveCount] ==
            IF k = 0 \/ parent[k] = top THEN k ELSE child[parent[k]]
    IN  child[s]

(* Time at one port since another, as int32 arithmetic gives it. *)
Since(s, from, to) == Wrapped(PortTime(s, to) - PortTime(s, from))

Half(x) == IF x >= 0 THEN x \div 2 ELSE -((-x) \div 2)

Delay(s, entry, top, pport) ==
    LET dt3  == Since(top, PrevPort(top, pport), pport)
        own  == IF topology[s] > 1 THEN Since(s, entry, PrevPort(s, entry))
                ELSE 0
        dt1  == IF own > dt3 THEN -own ELSE own
        prev == IF ChildTowards(s, top) - top > 1
                THEN Since(top, entryport[top], PrevPort(top, pport))
                ELSE 0
        dt2  == IF prev < 0 THEN -prev ELSE prev
    IN  Half(dt3 - dt1) + dt2 + pdelay[top]

WithClock ==
    LET entry == EntryPort(visit)
        top   == DCParent(visit)
        pport == IF topology[top] = 1 THEN entryport[top]
                 ELSE ParentPort(consumed[top])
        own   == [consumed EXCEPT ![visit] = activeports[visit] \ {entry}]
    IN  /\ dc[visit]
        /\ DCnext' = [DCnext EXCEPT ![prevDCslave] = visit]
        /\ prevDCslave' = visit
        /\ parenthold' = 0
        /\ entryport' = [entryport EXCEPT ![visit] = entry]
        /\ IF top = 0
           THEN consumed' = own /\ UNCHANGED pdelay
           ELSE /\ consumed' = [own EXCEPT ![top] = Consume(@)]
                /\ pdelay' = [pdelay EXCEPT ![visit] = Delay(visit, entry, top, pport)]

WithoutClock ==
    LET branch == IF parent[visit] > 0 /\ topology[parent[visit]] > 2
                  THEN parent[visit] ELSE parenthold
        own    == [consumed EXCEPT ![visit] = activeports[visit]]
    IN  /\ ~dc[visit]
        /\ IF branch > 0 /\ topology[visit] = 1
           THEN /\ consumed' = [own EXCEPT ![branch] = Consume(@)]
                /\ parenthold' = 0
           ELSE consumed' = own /\ parenthold' = branch
        /\ UNCHANGED <<DCnext, prevDCslave, entryport, pdelay>>

ConfigDC ==
    /\ phase = "dc"
    /\ WithClock \/ WithoutClock
    /\ phase' = IF visit < SlaveCount THEN "dc" ELSE "done"
    /\ visit' = IF visit < SlaveCount THEN visit + 1 ELSE visit
    /\ UNCHANGED <<up, port, delay, dc, off, topology, activeports, parent>>

TreeNext == ConfigInit \/ ConfigDC

TreeSpec == TreeInit /\ [][TreeNext]_treeVars

(***************************************************************************)
(* Properties                                                              *)
(***************************************************************************)

(* ecx_config_init finds, from nothing but the number of links of each     *)
(* slave, the slave that really comes before it, in every tree.            *)
ParentIsRight == phase # "config" => parent = up

(* No clock passes from its largest to its smallest value while the frame  *)
(* is behind its slave, and the frame is back before half its range is     *)
(* over. The code compares the latched times as they are.                  *)
NoneWraps ==
    \A s \in Nodes : dc[s] => off[s] + Trip[s] < HalfRange /\ Trip[s] < HalfRange

(* Every slave at which the network splits has a clock.                    *)
SplitsHaveClocks == \A s \in Nodes : Cardinality(Links(s)) > 2 => dc[s]

FirstClock == CHOOSE s \in Nodes : dc[s] /\ \A t \in Nodes : dc[t] => s <= t

(* The delay written to a slave is the time a frame takes to it from the   *)
(* first slave with a clock, through whatever branches and slaves without  *)
(* clocks lie before it: it needs the right parent, the right port of the  *)
(* parent and the trips of the branches before it, all taken from clocks   *)
(* that show unrelated times.                                              *)
DelayIsRight ==
    phase = "done" /\ NoneWraps /\ SplitsHaveClocks =>
        \A s \in Nodes : dc[s] =>
            pdelay[s] = Arrival[s] - Arrival[FirstClock]
=============================================================================
