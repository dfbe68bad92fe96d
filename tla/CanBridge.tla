----------------------------- MODULE CanBridge -----------------------------
(***************************************************************************)
(* The bridge between CAN and EtherCAT: ExampleSlave moves CAN frames      *)
(* between the process data of a slave (the board) and one CanDriver per   *)
(* channel, each a socket on a virtual CAN interface. The interfaces go    *)
(* down and disappear; vcan_manager.sh creates them and brings them up.    *)
(*                                                                         *)
(* A cycle is updateRead (send what the board gave), updateWrite (put what *)
(* was collected in the cycle before into the process data, then collect   *)
(* from each channel) and the transmission of the process data.            *)
(*                                                                         *)
(* A received frame is what it carries and, only to tell frames with the   *)
(* same contents apart, its number. Number 0 is a frame that was never     *)
(* received: command_ is not initialized. All frames are standard frames:  *)
(* the process data has no room for longer ids. Of the frames to be sent   *)
(* only the number counts.                                                 *)
(***************************************************************************)
EXTENDS Integers, Sequences, SequencesExt

CONSTANTS
    CHANNELS,   \* CAN_CHANNEL_NUM; channels are numbered from 1 here
    MAXMSG,     \* MAXCANRXTXMSGSIZE: frames in the process data
    Contents,   \* what a frame can carry: id, length and data
    MaxFrames,  \* bound: frames received over all channels
    MaxBatch,   \* bound: frames to send in one cycle (17 in the code)
    MaxChanges  \* bound: interfaces that go down or are deleted

ASSUME CanBridgeAssumption ==
    /\ CHANNELS \in Nat \ {0} /\ MAXMSG \in Nat \ {0} /\ Contents # {}
    /\ {MaxFrames, MaxBatch, MaxChanges} \subseteq Nat

Channels == 1 .. CHANNELS
CanFrame == [n : 1 .. MaxFrames, what : Contents]
PdoFrame == [ch : Channels, n : 0 .. MaxFrames, what : Contents]

VARIABLES
    iface,    \* the network interface of each channel
    sock,     \* the socket of each driver; an orphan's interface is deleted
    error,    \* whether the kernel has an error for the socket's next use
    canOk,    \* can_is_ok
    queue,    \* frames received by the socket and not yet read
    command,  \* command_: the frames collected for the next cycle
    output,   \* the frames in the process data
    batch,    \* frames of reading_ still to be sent
    taken,    \* what was read from each channel in this cycle
    last,     \* number of the newest frame of each channel the board has got
    cycle,    \* where the cycle is
    chan,     \* channel to collect from next
    arrived, changes

net == <<iface, sock, error, canOk, queue>>
rx == <<command, output, taken, last, chan>>
bridgeVars == <<net, batch, rx, cycle, arrived, changes>>

BridgeTypeOK ==
    /\ iface \in [Channels -> {"up", "down", "gone"}]
    /\ sock \in [Channels -> {"closed", "bound", "orphan"}]
    /\ error \in [Channels -> BOOLEAN] /\ canOk \in [Channels -> BOOLEAN]
    /\ queue \in [Channels -> Seq(CanFrame)]
    /\ {command, output} \subseteq Seq(PdoFrame)
    /\ Len(command) <= MAXMSG /\ Len(output) <= MAXMSG
    /\ batch \in 0 .. MaxBatch
    /\ taken \subseteq Channels \X Contents
    /\ last \in [Channels -> 0 .. MaxFrames]
    /\ cycle \in {"read", "send", "collect", "ship"}
    /\ chan \in Channels
    /\ arrived \in 0 .. MaxFrames /\ changes \in 0 .. MaxChanges

(* The drivers have been opened by startup, whether that worked or not.    *)
BridgeInit ==
    /\ iface \in [Channels -> {"up", "gone"}]
    /\ sock = [c \in Channels |-> IF iface[c] = "up" THEN "bound" ELSE "closed"]
    /\ error = [c \in Channels |-> FALSE]
    /\ canOk = [c \in Channels |-> iface[c] = "up"]
    /\ queue = [c \in Channels |-> <<>>]
    /\ command \in {<<>>} \cup {<<f>> : f \in [ch : Channels, n : {0}, what : Contents]}
    /\ output = <<>> /\ batch = 0
    /\ taken = {} /\ last = [c \in Channels |-> 0]
    /\ cycle = "read" /\ chan = 1 /\ arrived = 0 /\ changes = 0

(***************************************************************************)
(* CAN bus, interfaces and the manager of the interfaces.                  *)
(***************************************************************************)
Arrive(c, w) ==
    /\ iface[c] = "up" /\ sock[c] = "bound" /\ arrived < MaxFrames
    /\ arrived' = arrived + 1
    /\ queue' = [queue EXCEPT ![c] = Append(@, [n |-> arrived + 1, what |-> w])]
    /\ UNCHANGED <<iface, sock, error, canOk, batch, rx, cycle, changes>>

IfaceLost(c, state) ==
    /\ changes < MaxChanges /\ changes' = changes + 1
    /\ iface[c] # "gone" /\ iface[c] # state
    /\ iface' = [iface EXCEPT ![c] = state]
    /\ error' = [error EXCEPT ![c] = sock[c] # "closed"]
    /\ sock' = [sock EXCEPT ![c] = IF state = "gone" /\ @ = "bound" THEN "orphan" ELSE @]
    /\ UNCHANGED <<canOk, queue, batch, rx, cycle, arrived>>

(* The manager creates a missing interface, which is down at first. *)
Manage(c) ==
    /\ \/ iface[c] = "gone" /\ iface' = [iface EXCEPT ![c] = "down"]
       \/ iface[c] = "down" /\ iface' = [iface EXCEPT ![c] = "up"]
    /\ UNCHANGED <<sock, error, canOk, queue, batch, rx, cycle, arrived, changes>>

(***************************************************************************)
(* CanDriver                                                               *)
(***************************************************************************)
(* isCanOk asks for the interface by its name, not through the socket.     *)
IsCanOk(c) == canOk[c] /\ sock[c] # "closed" /\ iface[c] = "up"

(* A read or a write of the socket fails. *)
Broken(c) == sock[c] = "orphan" \/ error[c]

(* reopenCanSocket: an interface that is down is set up if that is allowed. *)
(* What the old socket has received is lost.                               *)
NoReopen(c) ==
    /\ canOk' = [canOk EXCEPT ![c] = TRUE]
    /\ error' = [error EXCEPT ![c] = FALSE]
    /\ UNCHANGED <<sock, queue, iface>>
Reopen(c) ==
    /\ \E opened \in BOOLEAN :
          /\ iface[c] = "gone" => ~opened
          /\ iface[c] = "up" => opened
          /\ sock' = [sock EXCEPT ![c] = IF opened THEN "bound" ELSE "closed"]
          /\ canOk' = [canOk EXCEPT ![c] = opened]
          /\ iface' = [iface EXCEPT ![c] = IF opened THEN "up" ELSE @]
    /\ error' = [error EXCEPT ![c] = FALSE]
    /\ queue' = [queue EXCEPT ![c] = <<>>]

(***************************************************************************)
(* updateRead: the board's frames, none if the exchange was incomplete.    *)
(* Each is written to the socket of its channel; a driver that fails is    *)
(* reopened and the next frame is sent. Frames for a channel that does not *)
(* exist are skipped.                                                      *)
(***************************************************************************)
UpdateRead ==
    /\ cycle = "read" /\ cycle' = "send"
    /\ batch' \in 0 .. MaxBatch
    /\ UNCHANGED <<net, rx, arrived, changes>>

SendMessage(c) ==
    /\ cycle = "send" /\ batch > 0 /\ batch' = batch - 1
    /\ IsCanOk(c) /\ ~Broken(c)
    /\ UNCHANGED <<net, rx, cycle, arrived, changes>>

(* The write can fail on a sound socket too, for want of buffers. *)
SendFails(c) ==
    /\ cycle = "send" /\ batch > 0 /\ batch' = batch - 1
    /\ Reopen(c)
    /\ UNCHANGED <<rx, cycle, arrived, changes>>

(***************************************************************************)
(* updateWrite                                                             *)
(***************************************************************************)
WriteRxPdoKeeping ==
    /\ cycle = "send" /\ batch = 0 /\ cycle' = "collect" /\ chan' = 1
    /\ output' = command
    /\ UNCHANGED <<net, batch, command, taken, last, arrived, changes>>
WriteRxPdo ==
    /\ cycle = "send" /\ batch = 0 /\ cycle' = "collect" /\ chan' = 1
    /\ output' = command
    /\ command' = <<>>
    /\ UNCHANGED <<net, batch, taken, last, arrived, changes>>

(* receiveAllUniqueMessages keeps the first of frames with equal contents. *)
UniqueById(q) == IF q = <<>> THEN <<>> ELSE <<Head(q)>>
Unique(q) ==
    LET unique[k \in 0 .. Len(q)] ==
            IF k = 0 THEN <<>>
            ELSE IF \E f \in Range(unique[k - 1]) : f.what = q[k].what THEN unique[k - 1]
            ELSE Append(unique[k - 1], q[k])
    IN  unique[Len(q)]

CappedLate(s) == IF Len(s) <= MAXMSG + 1 THEN s ELSE SubSeq(s, 1, MAXMSG + 1)
Capped(s) == IF Len(s) <= MAXMSG THEN s ELSE SubSeq(s, 1, MAXMSG)

NextChannel ==
    \/ chan < CHANNELS /\ chan' = chan + 1 /\ UNCHANGED cycle
    \/ chan = CHANNELS /\ chan' = 1 /\ cycle' = "ship"

(* Without a frame it returns false, but the socket is sound. *)
Collect ==
    /\ cycle = "collect" /\ NextChannel
    /\ IsCanOk(chan) /\ ~Broken(chan)
    /\ LET new == Unique(queue[chan]) IN
       command' = Capped(command \o
           [i \in DOMAIN new |-> [ch |-> chan, n |-> new[i].n, what |-> new[i].what]])
    /\ taken' = taken \cup {<<chan, f.what>> : f \in Range(queue[chan])}
    /\ queue' = [queue EXCEPT ![chan] = <<>>]
    /\ UNCHANGED <<iface, sock, error, canOk, batch, output, last, arrived, changes>>

CollectFails ==
    /\ cycle = "collect" /\ NextChannel
    /\ ~IsCanOk(chan) \/ Broken(chan)
    /\ Reopen(chan)
    /\ UNCHANGED <<batch, command, output, taken, last, arrived, changes>>

(***************************************************************************)
(* ecx_send_processdata: the board gets the outputs, or the frame is lost. *)
(***************************************************************************)
Newest(c) ==
    {f.n : f \in {g \in Range(output) : g.ch = c}} \cup {last[c]}

Ship ==
    /\ cycle = "ship" /\ cycle' = "read"
    /\ \/ last' = [c \in Channels |->
                     CHOOSE n \in Newest(c) : \A m \in Newest(c) : m <= n]
       \/ UNCHANGED last
    /\ taken' = {}
    /\ UNCHANGED <<net, batch, command, output, chan, arrived, changes>>

Bridge ==
    \/ UpdateRead \/ \E c \in Channels : SendMessage(c) \/ SendFails(c)
    \/ WriteRxPdo \/ Collect \/ CollectFails \/ Ship

BridgeNext ==
    \/ Bridge
    \/ \E c \in Channels :
          \/ \E w \in Contents : Arrive(c, w)
          \/ \E state \in {"down", "gone"} : IfaceLost(c, state)
          \/ Manage(c)

BridgeSpec == BridgeInit /\ [][BridgeNext]_bridgeVars

(* The cycle and the manager's loop run for ever; ip link works in the end. *)
FairBridgeSpec ==
    /\ BridgeSpec
    /\ WF_bridgeVars(Bridge) /\ \A c \in Channels : WF_bridgeVars(Manage(c))

(***************************************************************************)
(* Properties                                                              *)
(***************************************************************************)
(* ExampleSlave.cpp:109, 112: the board gets each received frame at most   *)
(* once, and the frames of a channel in the order they were received,      *)
(* whatever fails or is reopened in between.                               *)
OnceInOrder ==
    cycle = "ship" =>
        \A i \in DOMAIN output : output[i].n # 0 =>
            /\ output[i].n > last[output[i].ch]
            /\ \A j \in 1 .. i - 1 :
                  output[j].ch = output[i].ch => output[j].n < output[i].n

(* ExampleSlave.cpp:116-141: what was read from the sockets in this cycle  *)
(* is in the command for the next one - once, with its channel, also when  *)
(* other channels carry the same - unless the command is full.             *)
CommandIsComplete ==
    cycle = "ship" =>
        /\ {<<f.ch, f.what>> : f \in Range(command)} \subseteq taken
        /\ \/ {<<f.ch, f.what>> : f \in Range(command)} = taken
           \/ Len(command) = MAXMSG
        /\ \A i, j \in DOMAIN command :
              command[i].ch = command[j].ch /\ command[i].what = command[j].what => i = j

Attached(c) ==
    /\ iface[c] = "up" /\ sock[c] = "bound"
    /\ canOk[c] /\ ~error[c]

(* ExampleSlave.cpp:120: once the interfaces are left alone, every driver  *)
(* ends up with a socket on the interface that exists, also one whose      *)
(* interface was deleted and created again under the same name.            *)
ChannelsRecover == <>[](\A c \in Channels : Attached(c))
=============================================================================
