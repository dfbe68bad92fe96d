---------------------------- MODULE EepromProofs ----------------------------
(***************************************************************************)
(* Who may use the EEPROMs (ControlIsKnown) and what is read from them     *)
(* (AnswersAreRight), for every number of slaves, words, fields, retries,  *)
(* refusals, faults and calls.                                             *)
(***************************************************************************)
EXTENDS Eeprom, TLAPS

Ops == {"none", "request", "collect", "read", "write", "sii", "take", "give"}
Places == {"idle", "default", "force", "grant", "give", "wait", "clear", "word",
           "command", "settle", "data", "bytes"}
CallRecord == [op : Ops, s : Slaves, w : Nat, restore : BOOLEAN, at : Places,
               tries : Nat, nacks : Nat, left : Nat]

(* Where ecx_config_init can be: in round 0 it only asks, in the last it   *)
(* asks no more.                                                           *)
Positions ==
    {p \in [field : 0 .. Fields, s : Slaves, op : {"none", "request", "collect", "sii", "give"}] :
        /\ p.op = "none" => p = Done
        /\ p.op = "request" => p.field < Fields
        /\ p.op = "collect" => p.field > 0
        /\ p.op \in {"sii", "give"} => p.field = Fields}

Owners == {"master", "pdi", "held"}
Device(s) == [owner : Owners, busy : {"no", "read", "write"}, addr : Nat,
              data : [1 .. Chunk[s] -> Int], nack : BOOLEAN]
Devices == UNION {Device(s) : s \in Slaves}

TypeOK ==
    /\ mem \in [Slaves -> [Words -> Int]]
    /\ dev \in [Slaves -> Devices] /\ \A s \in Slaves : dev[s] \in Device(s)
    /\ eep_pdi \subseteq Slaves
    /\ plan \in Positions
    /\ call \in CallRecord
    /\ calls \in Nat

(***************************************************************************)
(* What holds of a slave nothing was given up for while a call is under    *)
(* way: the flag is ahead of the slave only between the frames that change *)
(* the owner, and then it is known which way.                              *)
(***************************************************************************)
Known(s) ==
    CASE call.s = s /\ call.at = "force" -> s \in eep_pdi
      [] call.s = s /\ call.at = "grant" -> s \in eep_pdi /\ dev[s].owner = "master"
      [] call.s = s /\ call.at = "give" -> s \notin eep_pdi
      [] OTHER -> (s \in eep_pdi) <=> (dev[s].owner # "master")

ControlInv ==
    IF call.at = "default" THEN eep_pdi = {}
    ELSE \A s \in Slaves \ spoiled : Known(s)

IInv == TypeOK /\ ControlInv

Changing == {"force", "grant", "give"}
-----------------------------------------------------------------------------
(* What a frame makes of a slave's interface.                              *)
LEMMA ChunkLoaded ==
    ASSUME NEW D, NEW f \in [D -> Int]
    PROVE  [f EXCEPT ![1] = New] \in [D -> Int]
<1>1. \A a, v : v \in Int => [f EXCEPT ![a] = v] \in [D -> Int]
    OBVIOUS
<1>2. New \in Int
    BY DEF New
<1> QED BY <1>1, <1>2, Zenon

LEMMA Effects ==
    ASSUME TypeOK, NEW s \in Slaves, NEW d \in Device(s)
    PROVE  /\ Forced(d) \in Device(s) /\ Forced(d).owner = "master"
           /\ Granted(d) \in Device(s)
           /\ d.owner = "master" => Granted(d).owner = "master"
           /\ Given(d) \in Device(s) /\ Given(d).owner # "master"
           /\ Cleared(d) \in Device(s) /\ Cleared(d).owner = d.owner
           /\ Loaded(d) \in Device(s) /\ Loaded(d).owner = d.owner
           /\ Commanded(d) \in Device(s) /\ Commanded(d).owner = d.owner
<1> USE DEF Device, Owners
<1>1. Forced(d) \in Device(s) /\ Forced(d).owner = "master"
    BY DEF Forced
<1>2. Granted(d) \in Device(s) /\ (d.owner = "master" => Granted(d).owner = "master")
    BY DEF Granted
<1>3. Given(d) \in Device(s) /\ Given(d).owner # "master"
    BY DEF Given
<1>4. Cleared(d) \in Device(s) /\ Cleared(d).owner = d.owner
    BY DEF Cleared
<1>5. Commanded(d) \in Device(s) /\ Commanded(d).owner = d.owner
  <2>1. call.w \in Nat
      BY DEF TypeOK, CallRecord
  <2> QED BY <2>1 DEF Commanded
<1>6. Loaded(d) \in Device(s) /\ Loaded(d).owner = d.owner
  <2>0. d.data \in [1 .. Chunk[s] -> Int]
      OBVIOUS
  <2>1. [d.data EXCEPT ![1] = New] \in [1 .. Chunk[s] -> Int]
      BY <2>0, ChunkLoaded
  <2>2. Loaded(d) = d \/ Loaded(d) = [d EXCEPT !.data = [d.data EXCEPT ![1] = New]]
      BY DEF Loaded
  <2> QED BY <2>1, <2>2
<1> QED BY <1>1, <1>2, <1>3, <1>4, <1>5, <1>6

LEMMA ContentsType ==
    ASSUME TypeOK, NEW s \in Slaves, NEW w \in Nat
    PROVE  Contents(s, w) \in [1 .. Chunk[s] -> Int]
<1>1. \A i \in 1 .. Chunk[s] : (IF w + i - 1 \in Words THEN mem[s][w + i - 1] ELSE 0) \in Int
    BY DEF TypeOK
<1> QED BY <1>1 DEF Contents

LEMMA OneDevice ==
    ASSUME TypeOK, NEW s \in Slaves, NEW d \in Device(s),
           dev' = dev \/ dev' = [dev EXCEPT ![s] = d]
    PROVE  /\ dev' \in [Slaves -> Devices]
           /\ \A t \in Slaves : dev'[t] \in Device(t)
           /\ \A t \in Slaves \ {s} : dev'[t] = dev[t]
           /\ dev'[s] = dev[s] \/ dev'[s] = d
<1>1. d \in Devices
    BY DEF Devices
<1> QED BY <1>1 DEF TypeOK

LEMMA SlaveType == TypeOK => slave \in Slaves
BY DEF TypeOK, CallRecord, slave
-----------------------------------------------------------------------------
LEMMA IdleType == Idle \in CallRecord /\ Idle.at = "idle"
BY EepromAssumption DEF Idle, CallRecord, Slaves, Ops, Places

LEMMA CallType ==
    ASSUME NEW op \in Ops, NEW s \in Slaves, NEW w \in Nat, NEW restore \in BOOLEAN
    PROVE  /\ Call(op, s, w, restore) \in CallRecord
           /\ Call(op, s, w, restore).op = op /\ Call(op, s, w, restore).s = s
           /\ Call(op, s, w, restore).w = w /\ Call(op, s, w, restore).nacks = 0
BY IdleType DEF Call, CallRecord, Idle

LEMMA TurnType ==
    ASSUME NEW f \in 0 .. Fields, NEW s \in Slaves
    PROVE  Turn(f, s) \in Positions
<1>1. 0 < Fields /\ Fields \in Nat
    BY EepromAssumption
<1> QED BY <1>1 DEF Turn, Positions

LEMMA DoneType == Done \in Positions
<1>1. Fields \in 0 .. Fields /\ N \in Slaves
    BY EepromAssumption DEF Slaves
<1> QED BY <1>1 DEF Done, Positions

LEMMA ConfigInitType == ConfigInit \in Positions
<1>1. 0 \in 0 .. Fields /\ 1 \in Slaves
    BY EepromAssumption DEF Slaves
<1> QED BY <1>1, TurnType DEF ConfigInit

LEMMA PlanStep ==
    ASSUME NEW p \in Positions, p # Done
    PROVE  /\ After(p) \in Positions
           /\ Planned(p) \in CallRecord /\ Planned(p).nacks = 0
           /\ Planned(p).op = p.op /\ Planned(p).s = p.s
           /\ Planned(p).w \in 0 .. Fields - 1
           /\ p.op = "request" => Planned(p).w = p.field
           /\ p.op = "collect" => Planned(p).w = p.field - 1
<1>1. /\ p.op \in {"request", "collect", "sii", "give"} /\ p.s \in Slaves
      /\ p.field \in 0 .. Fields /\ Fields \in Nat /\ Fields > 0 /\ N \in Nat
    BY EepromAssumption DEF Positions
<1>2. After(p) \in Positions
  <2>1. CASE p.op \in {"collect", "sii"}
      BY <1>1, <2>1 DEF After, Positions
  <2>2. CASE p.op \in {"request", "give"} /\ p.s < N
    <3>1. p.s + 1 \in Slaves
        BY <1>1, <2>2 DEF Slaves
    <3> QED BY <1>1, <2>2, <3>1, TurnType DEF After, TurnAfter
  <2>3. CASE p.op \in {"request", "give"} /\ p.s = N /\ p.field < Fields
    <3>1. p.field + 1 \in 0 .. Fields /\ 1 \in Slaves
        BY <1>1, <2>3 DEF Slaves
    <3> QED BY <1>1, <2>3, <3>1, TurnType DEF After, TurnAfter
  <2>4. CASE p.op \in {"request", "give"} /\ p.s = N /\ ~(p.field < Fields)
      BY <1>1, <2>4, DoneType DEF After, TurnAfter
  <2> QED BY <1>1, <2>1, <2>2, <2>3, <2>4 DEF Slaves
<1>3. PICK w \in 0 .. Fields - 1 :
        /\ Planned(p) = Call(p.op, p.s, w, FALSE)
        /\ p.op = "request" => w = p.field
        /\ p.op = "collect" => w = p.field - 1
  <2>1. CASE p.op = "request"
    <3>1. p.field \in 0 .. Fields - 1 /\ Planned(p) = Call(p.op, p.s, p.field, FALSE)
        BY <1>1, <2>1 DEF Planned, Positions
    <3> QED BY <2>1, <3>1
  <2>2. CASE p.op = "collect"
    <3>1. p.field - 1 \in 0 .. Fields - 1 /\ Planned(p) = Call(p.op, p.s, p.field - 1, FALSE)
        BY <1>1, <2>2 DEF Planned, Positions
    <3> QED BY <2>2, <3>1
  <2>3. CASE p.op \notin {"request", "collect"}
    <3>1. Planned(p) = Call(p.op, p.s, 0, FALSE)
        BY <2>3, Zenon DEF Planned
    <3>2. 0 \in 0 .. Fields - 1
        BY <1>1
    <3> QED BY <2>3, <3>1, <3>2
  <2> QED BY <2>1, <2>2, <2>3
<1>4. p.op \in Ops /\ p.s \in Slaves /\ w \in Nat
    BY <1>1, <1>3 DEF Ops
<1>5. /\ Call(p.op, p.s, w, FALSE) \in CallRecord
      /\ Call(p.op, p.s, w, FALSE).op = p.op /\ Call(p.op, p.s, w, FALSE).s = p.s
      /\ Call(p.op, p.s, w, FALSE).w = w /\ Call(p.op, p.s, w, FALSE).nacks = 0
    BY <1>4, IdleType DEF Call, CallRecord, Idle
<1> QED BY <1>2, <1>3, <1>5

LEMMA StartType ==
    ASSUME NEW c \in CallRecord
    PROVE  /\ StartOf(c) \in CallRecord
           /\ \/ StartOf(c).at \notin Changing \cup {"default"}
              \/ StartOf(c).at = "force" /\ StartOf(c).s \in eep_pdi
              \/ StartOf(c).at = "give" /\ StartOf(c).s \notin eep_pdi
<1>2. MaxBytes \in Nat
    BY EepromAssumption
<1>3. CASE c.op = "sii"
    BY <1>2, <1>3 DEF StartOf, CallRecord, Changing, Places
<1>4. CASE c.op = "collect"
    BY <1>4 DEF StartOf, CallRecord, Changing, Places
<1>5. CASE c.op = "give"
    BY IdleType, <1>5 DEF StartOf, CallRecord, Changing, Places
<1>6. CASE c.op \notin {"sii", "collect", "give"}
    BY IdleType, <1>6 DEF StartOf, CallRecord, Changing, Places
<1> QED BY <1>3, <1>4, <1>5, <1>6

(***************************************************************************)
(* A step that changes neither a flag nor an owner, and does not end a     *)
(* change of owner.                                                        *)
(***************************************************************************)
Onward ==
    \/ call'.at = call.at /\ call'.s = call.s
    \/ /\ call.at \notin Changing \cup {"default"}
       /\ \/ call'.at \notin Changing \cup {"default"}
          \/ call'.at = "force" /\ call'.s \in eep_pdi
          \/ call'.at = "give" /\ call'.s \notin eep_pdi

LEMMA Quiet ==
    ASSUME IInv, TypeOK', eep_pdi' = eep_pdi, spoiled \subseteq spoiled',
           \A s \in Slaves : dev'[s].owner = dev[s].owner, Onward
    PROVE  IInv'
<1>1. CASE call'.at = call.at /\ call'.s = call.s
    BY <1>1 DEF IInv, ControlInv, Known
<1>2. CASE /\ call.at \notin Changing \cup {"default"}
           /\ \/ call'.at \notin Changing \cup {"default"}
              \/ call'.at = "force" /\ call'.s \in eep_pdi
              \/ call'.at = "give" /\ call'.s \notin eep_pdi
  <2>1. \A s \in Slaves \ spoiled : (s \in eep_pdi) <=> (dev[s].owner # "master")
      BY <1>2 DEF IInv, ControlInv, Known, Changing
  <2>2. ASSUME NEW s \in Slaves \ spoiled'
        PROVE  Known(s)'
      BY <1>2, <2>1, <2>2 DEF Known, Changing
  <2> QED BY <1>2, <2>2 DEF IInv, ControlInv, Changing
<1> QED BY <1>1, <1>2 DEF Onward

LEMMA OriginalType ==
    ASSUME NEW v \in Nat
    PROVE  \A s \in Slaves, w \in Words : Original(v, s, w) \in Int
<1>1. \A a, b, c \in Int : a + b + c + 1 \in Int
    OBVIOUS
<1>2. Slaves \subseteq Int /\ Words \subseteq Int
    BY DEF Slaves, Words
<1>3. 100 * v \in Int /\ \A s \in Int : 10 * s \in Int
    OBVIOUS
<1> QED BY <1>1, <1>2, <1>3 DEF Original

LEMMA IInvInit == Init => IInv
<1> SUFFICES ASSUME Init PROVE IInv
    OBVIOUS
<1>1. mem \in [Slaves -> [Words -> Int]]
  <2>1. \A s \in Slaves, w \in Words : Original(0, s, w) \in Int
      BY OriginalType
  <2> QED BY <2>1 DEF Init
<1>2. dev \in [Slaves -> Devices] /\ \A s \in Slaves : dev[s] \in Device(s)
  <2> PICK owners \in [Slaves -> Owners] :
          dev = [s \in Slaves |-> [owner |-> owners[s], busy |-> "no", addr |-> 0,
                                   data |-> NoChunk(s), nack |-> FALSE]]
      BY DEF Init, Owners
  <2>1. \A s \in Slaves : NoChunk(s) \in [1 .. Chunk[s] -> Int]
      BY DEF NoChunk
  <2>2. \A s \in Slaves : dev[s] \in Device(s)
      BY <2>1 DEF Device
  <2> QED BY <2>2 DEF Devices
<1>3. call \in CallRecord /\ call.at = "default"
  <2>1. call = [Idle EXCEPT !.at = "default"]
      BY DEF Init
  <2> QED BY <2>1, IdleType DEF CallRecord, Places
<1>4. plan \in Positions /\ eep_pdi = {} /\ calls = 0
    BY ConfigInitType DEF Init
<1> QED BY <1>1, <1>2, <1>3, <1>4 DEF IInv, TypeOK, ControlInv
-----------------------------------------------------------------------------
(* The slaves.                                                             *)
LEMMA FinishKeeps ==
    ASSUME IInv, NEW s \in Slaves, Finish(s)
    PROVE  IInv'
<1>0. TypeOK
    BY DEF IInv
<1>1. dev[s] \in Device(s) /\ dev[s].addr \in Nat
    BY <1>0 DEF TypeOK, Device
<1>2. UNCHANGED <<eep_pdi, plan, call, spoiled, calls>>
    BY DEF Finish
<1>3. \E d \in Device(s) : dev' = [dev EXCEPT ![s] = d] /\ d.owner = dev[s].owner
  <2>1. CASE dev' = [dev EXCEPT ![s].busy = "no", ![s].data = Contents(s, dev[s].addr)]
    <3>1. Contents(s, dev[s].addr) \in [1 .. Chunk[s] -> Int]
        BY <1>0, <1>1, ContentsType
    <3> DEFINE d == [dev[s] EXCEPT !.busy = "no", !.data = Contents(s, dev[s].addr)]
    <3>2. d \in Device(s) /\ d.owner = dev[s].owner
        BY <1>1, <3>1 DEF Device
    <3>3. dev' = [dev EXCEPT ![s] = d]
        BY <2>1, <1>0 DEF TypeOK
    <3> QED BY <3>2, <3>3
  <2>2. CASE dev' = [dev EXCEPT ![s].busy = "no"]
    <3> DEFINE d == [dev[s] EXCEPT !.busy = "no"]
    <3>1. d \in Device(s) /\ d.owner = dev[s].owner
        BY <1>1 DEF Device
    <3> QED BY <2>2, <3>1
  <2>3. CASE dev' = [dev EXCEPT ![s].busy = "no", ![s].nack = TRUE]
    <3> DEFINE d == [dev[s] EXCEPT !.busy = "no", !.nack = TRUE]
    <3>1. d \in Device(s) /\ d.owner = dev[s].owner
        BY <1>1 DEF Device
    <3>2. dev' = [dev EXCEPT ![s] = d]
        BY <2>3, <1>0 DEF TypeOK
    <3> QED BY <3>1, <3>2
  <2> QED BY <2>1, <2>2, <2>3 DEF Finish
<1>4. mem' \in [Slaves -> [Words -> Int]]
  <2>1. dev[s].data[1] \in Int
    <3>1. 1 \in 1 .. Chunk[s]
        BY EepromAssumption
    <3> QED BY <1>1, <3>1 DEF Device
  <2>2. mem \in [Slaves -> [Words -> Int]]
      BY <1>0 DEF TypeOK
  <2>3. mem' = mem \/ mem' = [mem EXCEPT ![s][dev[s].addr] = dev[s].data[1]]
      BY DEF Finish
  <2>4. [mem[s] EXCEPT ![dev[s].addr] = dev[s].data[1]] \in [Words -> Int]
      BY <2>1, <2>2
  <2> QED BY <2>2, <2>3, <2>4
<1>5. TypeOK'
    BY <1>0, <1>2, <1>3, <1>4, OneDevice DEF TypeOK
<1>6. \A t \in Slaves : dev'[t].owner = dev[t].owner
    BY <1>0, <1>3, OneDevice
<1> QED BY <1>2, <1>5, <1>6, Quiet DEF Onward

LEMMA PdiUsesKeeps ==
    ASSUME IInv, NEW s \in Slaves, PdiUses(s)
    PROVE  IInv'
<1>0. TypeOK
    BY DEF IInv
<1> DEFINE d == [dev[s] EXCEPT !.owner = IF @ = "pdi" THEN "held" ELSE "pdi",
                               !.data = Contents(s, Top)]
<1>1. dev[s] \in Device(s) /\ dev[s].owner \in {"pdi", "held"}
    BY <1>0 DEF TypeOK, PdiUses
<1>2. Contents(s, Top) \in [1 .. Chunk[s] -> Int]
    BY <1>0, EepromAssumption, ContentsType
<1>3. d \in Device(s) /\ d.owner # "master"
    BY <1>1, <1>2 DEF Device, Owners
<1>4. dev' = [dev EXCEPT ![s] = d]
    BY <1>0 DEF PdiUses, TypeOK
<1> HIDE DEF d
<1>5. UNCHANGED <<mem, eep_pdi, plan, call, spoiled, calls>>
    BY DEF PdiUses, env
<1>6. /\ dev' \in [Slaves -> Devices] /\ \A t \in Slaves : dev'[t] \in Device(t)
      /\ \A t \in Slaves \ {s} : dev'[t] = dev[t]
    BY <1>0, <1>3, <1>4, OneDevice
<1>7. TypeOK'
    BY <1>0, <1>5, <1>6 DEF TypeOK
<1>8. dev'[s].owner # "master"
    BY <1>0, <1>3, <1>4 DEF TypeOK
<1>9. ASSUME NEW t \in Slaves \ spoiled, Known(t)
      PROVE  Known(t)'
  <2>1. CASE t = s
      BY <2>1, <1>1, <1>5, <1>8, <1>9 DEF Known
  <2>2. CASE t # s
      BY <2>2, <1>5, <1>6, <1>9 DEF Known
  <2> QED BY <2>1, <2>2
<1> QED BY <1>5, <1>7, <1>9 DEF IInv, ControlInv
-----------------------------------------------------------------------------
(* A change of owner: the slave of the call is the only one concerned.     *)
LEMMA OthersKnown ==
    ASSUME IInv, call.at # "default", call'.s = call.s, spoiled \subseteq spoiled',
           \A t \in Slaves \ {slave} : dev'[t] = dev[t],
           \A t \in Slaves \ {slave} : t \in eep_pdi' <=> t \in eep_pdi
    PROVE  \A t \in Slaves \ (spoiled' \cup {slave}) : Known(t)'
BY DEF IInv, ControlInv, Known, slave

LEMMA ForceKeeps == IInv /\ ForceFromPdi => IInv'
<1> SUFFICES ASSUME IInv, ForceFromPdi PROVE IInv'
    OBVIOUS
<1> PICK o \in Outcomes :
        /\ Sends(o, Forced)
        /\ \/ Retries(o)
           \/ /\ Ended(o) /\ Go("grant") /\ Spoils(o # "ok")
              /\ NoAnswer /\ UNCHANGED <<eep_pdi, cache, plan>>
    BY DEF ForceFromPdi
<1>0. TypeOK /\ slave \in Slaves /\ call \in CallRecord /\ call.at = "force"
    BY SlaveType DEF IInv, TypeOK, ForceFromPdi, At
<1> DEFINE d == Forced(dev[slave])
<1>1. d \in Device(slave) /\ d.owner = "master"
    BY <1>0, Effects DEF TypeOK
<1>2. /\ dev' = dev \/ dev' = [dev EXCEPT ![slave] = d]
      /\ o = "ok" => dev' = [dev EXCEPT ![slave] = d]
    BY DEF Sends, Reaches
<1> HIDE DEF d
<1>3. /\ dev' \in [Slaves -> Devices] /\ \A t \in Slaves : dev'[t] \in Device(t)
      /\ \A t \in Slaves \ {slave} : dev'[t] = dev[t]
      /\ o = "ok" => dev'[slave] = d
    BY <1>0, <1>1, <1>2, OneDevice DEF TypeOK
<1>4. UNCHANGED <<mem, calls, eep_pdi, plan>> /\ spoiled \subseteq spoiled'
    BY DEF ForceFromPdi, At, Retries, Spoils
<1>5. /\ call' \in CallRecord /\ call'.s = call.s
      /\ \/ call'.at = "force"
         \/ call'.at = "grant" /\ (o = "ok" \/ slave \in spoiled')
  <2>1. CASE Retries(o)
      BY <1>0, <2>1 DEF Retries, CallRecord
  <2>2. CASE Go("grant") /\ Spoils(o # "ok")
      BY <1>0, <2>2 DEF Go, Spoils, CallRecord, Places
  <2> QED BY <2>1, <2>2
<1>6. TypeOK'
    BY <1>0, <1>3, <1>4, <1>5 DEF TypeOK
<1>7. slave \in spoiled \/ slave \in eep_pdi
    BY <1>0 DEF IInv, ControlInv, Known, slave
<1>8. \A t \in Slaves : t = slave => t \in spoiled' \/ Known(t)'
  <2> SUFFICES ASSUME NEW t \in Slaves, t = call.s
               PROVE  t \in spoiled' \/ Known(t)'
      BY DEF slave
  <2> QED BY <1>1, <1>3, <1>4, <1>5, <1>7 DEF Known, slave
<1>9. \A t \in Slaves \ (spoiled' \cup {slave}) : Known(t)'
    BY <1>0, <1>3, <1>4, <1>5, OthersKnown
<1> QED BY <1>5, <1>6, <1>8, <1>9 DEF IInv, ControlInv

LEMMA GrantKeeps == IInv /\ Grant => IInv'
<1> SUFFICES ASSUME IInv, Grant PROVE IInv'
    OBVIOUS
<1> PICK o \in Outcomes :
        /\ Sends(o, Granted)
        /\ \/ Retries(o)
           \/ /\ Ended(o) /\ eep_pdi' = eep_pdi \ {slave} /\ Spoils(o # "ok")
              /\ IF call.op = "take" THEN Ends ELSE Go("wait")
              /\ NoAnswer /\ UNCHANGED <<cache, plan>>
    BY DEF Grant
<1>0. TypeOK /\ slave \in Slaves /\ call \in CallRecord /\ call.at = "grant"
    BY SlaveType DEF IInv, TypeOK, Grant, At
<1> DEFINE d == Granted(dev[slave])
<1>1. d \in Device(slave) /\ (dev[slave].owner = "master" => d.owner = "master")
    BY <1>0, Effects DEF TypeOK
<1>2. dev' = dev \/ dev' = [dev EXCEPT ![slave] = d]
    BY DEF Sends, Reaches
<1> HIDE DEF d
<1>3. /\ dev' \in [Slaves -> Devices] /\ \A t \in Slaves : dev'[t] \in Device(t)
      /\ \A t \in Slaves \ {slave} : dev'[t] = dev[t]
      /\ dev'[slave] = dev[slave] \/ dev'[slave] = d
    BY <1>0, <1>1, <1>2, OneDevice DEF TypeOK
<1>4. /\ UNCHANGED <<mem, calls, plan>> /\ spoiled \subseteq spoiled'
      /\ eep_pdi' \subseteq Slaves
      /\ \A t \in Slaves \ {slave} : t \in eep_pdi' <=> t \in eep_pdi
    BY <1>0 DEF Grant, At, Retries, Spoils, TypeOK
<1>5. /\ call' \in CallRecord
      /\ \/ call'.at = "grant" /\ call'.s = call.s /\ eep_pdi' = eep_pdi
         \/ call'.at \notin Changing \cup {"default"} /\ slave \notin eep_pdi'
  <2>1. CASE Retries(o)
      BY <1>0, <2>1 DEF Retries, CallRecord
  <2>2. CASE eep_pdi' = eep_pdi \ {slave} /\ Ends
      BY <2>2, IdleType DEF Ends, Changing
  <2>3. CASE eep_pdi' = eep_pdi \ {slave} /\ Go("wait")
    <3>1. call' \in CallRecord /\ call'.at = "wait"
        BY <1>0, <2>3 DEF Go, CallRecord, Places
    <3> QED BY <2>3, <3>1 DEF Changing
  <2> QED BY <2>1, <2>2, <2>3
<1>6. TypeOK'
    BY <1>0, <1>3, <1>4, <1>5 DEF TypeOK
<1>7. slave \in spoiled \/ (slave \in eep_pdi /\ dev[slave].owner = "master")
    BY <1>0 DEF IInv, ControlInv, Known, slave
<1>8. \A t \in Slaves : t = slave => t \in spoiled' \/ Known(t)'
  <2> SUFFICES ASSUME NEW t \in Slaves, t = call.s
               PROVE  t \in spoiled' \/ Known(t)'
      BY DEF slave
  <2> QED BY <1>1, <1>3, <1>4, <1>5, <1>7 DEF Known, slave, Changing
<1>9. \A t \in Slaves \ (spoiled' \cup {slave}) : Known(t)'
  <2>1. \A t \in Slaves \ (spoiled \cup {slave}) :
            (t \in eep_pdi) <=> (dev[t].owner # "master")
      BY <1>0 DEF IInv, ControlInv, Known, slave
  <2> QED BY <2>1, <1>3, <1>4, <1>5 DEF Known, slave, Changing
<1> QED BY <1>5, <1>6, <1>8, <1>9 DEF IInv, ControlInv

LEMMA GiveKeeps == IInv /\ GiveToPdi => IInv'
<1> SUFFICES ASSUME IInv, GiveToPdi PROVE IInv'
    OBVIOUS
<1> PICK o \in Outcomes :
        /\ Sends(o, Given)
        /\ \/ Retries(o)
           \/ /\ Ended(o) /\ eep_pdi' = eep_pdi \cup {slave} /\ Spoils(o # "ok")
              /\ Ends /\ NoAnswer /\ UNCHANGED <<cache, plan>>
    BY DEF GiveToPdi
<1>0. TypeOK /\ slave \in Slaves /\ call \in CallRecord /\ call.at = "give"
    BY SlaveType DEF IInv, TypeOK, GiveToPdi, At
<1> DEFINE d == Given(dev[slave])
<1>1. d \in Device(slave) /\ d.owner # "master"
    BY <1>0, Effects DEF TypeOK
<1>2. /\ dev' = dev \/ dev' = [dev EXCEPT ![slave] = d]
      /\ o = "ok" => dev' = [dev EXCEPT ![slave] = d]
    BY DEF Sends, Reaches
<1> HIDE DEF d
<1>3. /\ dev' \in [Slaves -> Devices] /\ \A t \in Slaves : dev'[t] \in Device(t)
      /\ \A t \in Slaves \ {slave} : dev'[t] = dev[t]
      /\ o = "ok" => dev'[slave] = d
    BY <1>0, <1>1, <1>2, OneDevice DEF TypeOK
<1>4. /\ UNCHANGED <<mem, calls, plan>> /\ spoiled \subseteq spoiled'
      /\ eep_pdi' \subseteq Slaves
      /\ \A t \in Slaves \ {slave} : t \in eep_pdi' <=> t \in eep_pdi
    BY <1>0 DEF GiveToPdi, At, Retries, Spoils, TypeOK
<1>5. /\ call' \in CallRecord
      /\ \/ call'.at = "give" /\ call'.s = call.s /\ eep_pdi' = eep_pdi
         \/ /\ call'.at = "idle" /\ slave \in eep_pdi'
            /\ o = "ok" \/ slave \in spoiled'
  <2>1. CASE Retries(o)
      BY <1>0, <2>1 DEF Retries, CallRecord
  <2>2. CASE eep_pdi' = eep_pdi \cup {slave} /\ Ends /\ Spoils(o # "ok")
      BY <1>0, <2>2, IdleType DEF Ends, Spoils
  <2> QED BY <2>1, <2>2
<1>6. TypeOK'
    BY <1>0, <1>3, <1>4, <1>5 DEF TypeOK
<1>7. slave \in spoiled \/ slave \notin eep_pdi
    BY <1>0 DEF IInv, ControlInv, Known, slave
<1>8. \A t \in Slaves : t = slave => t \in spoiled' \/ Known(t)'
  <2> SUFFICES ASSUME NEW t \in Slaves, t = call.s
               PROVE  t \in spoiled' \/ Known(t)'
      BY DEF slave
  <2> QED BY <1>1, <1>3, <1>4, <1>5, <1>7 DEF Known, slave
<1>9. \A t \in Slaves \ (spoiled' \cup {slave}) : Known(t)'
  <2>1. \A t \in Slaves \ (spoiled \cup {slave}) :
            (t \in eep_pdi) <=> (dev[t].owner # "master")
      BY <1>0 DEF IInv, ControlInv, Known, slave
  <2> QED BY <2>1, <1>3, <1>4, <1>5 DEF Known, slave
<1> QED BY <1>5, <1>6, <1>8, <1>9 DEF IInv, ControlInv

(* Where every call begins: forced from all slaves that got the broadcast. *)
LEMMA DefaultKeeps == IInv /\ SetToDefault => IInv'
<1> SUFFICES ASSUME IInv, SetToDefault PROVE IInv'
    OBVIOUS
<1> PICK got \in SUBSET Slaves :
        /\ spoiled' = spoiled \cup (Slaves \ got)
        /\ dev' = [s \in Slaves |-> IF s \in got THEN Default(dev[s]) ELSE dev[s]]
    BY DEF SetToDefault
<1>0. TypeOK /\ eep_pdi = {} /\ UNCHANGED <<mem, calls, eep_pdi, plan>> /\ call' = Idle
    BY DEF IInv, ControlInv, SetToDefault, At, Ends
<1>1. \A s \in Slaves : /\ dev'[s] \in Device(s)
                        /\ s \in got => dev'[s].owner = "master"
  <2> SUFFICES ASSUME NEW s \in Slaves
               PROVE  /\ dev'[s] \in Device(s)
                      /\ s \in got => dev'[s].owner = "master"
      OBVIOUS
  <2>1. dev[s] \in Device(s)
      BY <1>0 DEF TypeOK
  <2>2. Forced(dev[s]) \in Device(s) /\ Forced(dev[s]).owner = "master"
      BY <1>0, <2>1, Effects
  <2>3. Default(dev[s]) \in Device(s) /\ Default(dev[s]).owner = "master"
      BY <1>0, <2>2, Effects DEF Default
  <2> QED BY <2>1, <2>3
<1>2. dev' \in [Slaves -> Devices]
    BY <1>1 DEF Devices
<1>3. TypeOK'
    BY <1>0, <1>1, <1>2, IdleType DEF TypeOK
<1>4. \A s \in Slaves \ spoiled' : Known(s)'
    BY <1>0, <1>1, IdleType DEF Known
<1> QED BY <1>0, <1>3, <1>4, IdleType DEF IInv, ControlInv
-----------------------------------------------------------------------------
(* Everything else the master does leaves flags and owners alone.          *)
LEMMA ConfigStepKeeps == IInv /\ ConfigStep => IInv'
<1> SUFFICES ASSUME IInv, ConfigStep PROVE IInv'
    OBVIOUS
<1>0. /\ TypeOK /\ call.at = "idle" /\ plan # Done
      /\ call' = StartOf(Planned(plan)) /\ plan' = After(plan)
      /\ UNCHANGED <<mem, dev, eep_pdi, spoiled, calls>>
    BY DEF IInv, ConfigStep, At
<1>1. Planned(plan) \in CallRecord /\ plan' \in Positions
    BY <1>0, PlanStep DEF TypeOK
<1>2. call' \in CallRecord /\ Onward
    BY <1>0, <1>1, StartType DEF Onward, Changing
<1>3. TypeOK'
    BY <1>0, <1>1, <1>2 DEF TypeOK
<1> QED BY <1>0, <1>2, <1>3, Quiet

LEMMA BeginKeeps == IInv /\ Begin => IInv'
<1> SUFFICES ASSUME IInv, Begin PROVE IInv'
    OBVIOUS
<1>0. /\ TypeOK /\ call.at = "idle" /\ calls' = calls + 1
      /\ UNCHANGED <<mem, dev, eep_pdi, spoiled, plan>>
    BY DEF IInv, Begin
<1>1. \E c \in CallRecord : call' = StartOf(c)
  <2>1. \A op \in Ops, s \in Slaves, w \in Nat, restore \in BOOLEAN :
            Call(op, s, w, restore) \in CallRecord
      BY CallType
  <2>2. Words \subseteq Nat
      BY EepromAssumption DEF Words
  <2>3. CASE \E op \in {"read", "write"}, s \in Slaves, w \in Words :
                call' = StartOf(Call(op, s, w, FALSE))
      BY <2>1, <2>2, <2>3 DEF Ops
  <2>4. CASE \E s \in Slaves : call' = StartOf(Search(s, s \in eep_pdi))
    <3> PICK s \in Slaves : call' = StartOf(Search(s, s \in eep_pdi))
        BY <2>4
    <3>1. \A restore \in BOOLEAN : Search(s, restore) \in CallRecord
        BY <2>1 DEF Ops, Search
    <3>2. (s \in eep_pdi) \in BOOLEAN
        OBVIOUS
    <3>3. Search(s, s \in eep_pdi) \in CallRecord
        BY <3>1, <3>2, Zenon
    <3> QED BY <3>3
  <2>5. CASE \E op \in {"take", "give"}, s \in Slaves : call' = StartOf(Call(op, s, 0, FALSE))
      BY <2>1, <2>5 DEF Ops
  <2> QED BY <2>3, <2>4, <2>5 DEF Begin
<1>2. call' \in CallRecord /\ Onward
    BY <1>0, <1>1, StartType DEF Onward, Changing
<1>3. TypeOK'
    BY <1>0, <1>2 DEF TypeOK
<1> QED BY <1>0, <1>2, <1>3, Quiet

LEMMA RestartKeeps == IInv /\ Restart => IInv'
<1> SUFFICES ASSUME IInv, Restart PROVE IInv'
    OBVIOUS
<1>0. /\ TypeOK /\ calls' = calls + 1 /\ calls \in Nat
      /\ mem' = [s \in Slaves |-> [w \in Words |-> Original(calls, s, w)]]
      /\ dev' = [s \in Slaves |-> [dev[s] EXCEPT !.busy = "no"]]
      /\ eep_pdi' = {} /\ plan' = ConfigInit
      /\ call' = [Idle EXCEPT !.at = "default"]
    BY DEF IInv, TypeOK, Restart
<1>1. mem' \in [Slaves -> [Words -> Int]]
  <2>1. \A s \in Slaves, w \in Words : Original(calls, s, w) \in Int
      BY <1>0, OriginalType
  <2> QED BY <1>0, <2>1
<1>2. \A s \in Slaves : dev'[s] \in Device(s)
  <2>1. \A s \in Slaves : dev[s] \in Device(s)
      BY <1>0 DEF TypeOK
  <2> QED BY <1>0, <2>1 DEF Device
<1>3. dev' \in [Slaves -> Devices]
    BY <1>0, <1>2 DEF Devices
<1>4. call' \in CallRecord /\ call'.at = "default"
    BY <1>0, IdleType DEF CallRecord, Places
<1>5. TypeOK'
    BY <1>0, <1>1, <1>2, <1>3, <1>4, ConfigInitType DEF TypeOK
<1> QED BY <1>0, <1>4, <1>5 DEF IInv, ControlInv

(* What the ends of the commands do to the call.                           *)
Moves ==
    /\ call' \in CallRecord
    /\ \/ call'.at = call.at /\ call'.s = call.s
       \/ call'.at \notin Changing \cup {"default"}
    /\ UNCHANGED <<eep_pdi, plan>>

LEMMA GoMoves ==
    ASSUME TypeOK, NEW to \in Places \ (Changing \cup {"default"}), Go(to),
           UNCHANGED <<eep_pdi, plan>>
    PROVE  Moves
BY DEF Go, Moves, TypeOK, CallRecord

LEMMA EndsMoves ==
    ASSUME Ends, UNCHANGED <<eep_pdi, plan>>
    PROVE  Moves
BY IdleType DEF Ends, Moves, Changing

LEMMA AttemptPlace == Attempt \in Places \ (Changing \cup {"default"})
BY DEF Attempt, Places, Changing

LEMMA RetriesMoves ==
    ASSUME TypeOK, NEW o, Retries(o)
    PROVE  Moves /\ spoiled' = spoiled
<1>1. /\ call' = [call EXCEPT !.tries = @ + 1]
      /\ UNCHANGED <<eep_pdi, plan, spoiled>>
    BY DEF Retries
<1>2. call \in CallRecord
    BY DEF TypeOK
<1>3. call' \in CallRecord /\ call'.at = call.at /\ call'.s = call.s
    BY <1>1, <1>2 DEF CallRecord
<1> QED BY <1>1, <1>3 DEF Moves

LEMMA ReturnsMoves ==
    ASSUME TypeOK, NEW chunk, Returns(chunk)
    PROVE  Moves
<1>1. CASE call.op = "sii"
  <2>1. call' = [call EXCEPT !.at = "bytes", !.tries = 0, !.nacks = 0]
      BY <1>1 DEF Returns
  <2>2. call' \in CallRecord /\ call'.at = "bytes"
      BY <2>1 DEF TypeOK, CallRecord, Places
  <2> QED BY <2>2 DEF Returns, Moves, Changing
<1>2. CASE call.op # "sii"
    BY <1>2, EndsMoves DEF Returns
<1> QED BY <1>1, <1>2

LEMMA FailsMoves ==
    ASSUME TypeOK, Fails
    PROVE  Moves
<1>1. CASE call.op \in {"write", "request"}
    BY <1>1, EndsMoves DEF Fails
<1>2. CASE call.op \notin {"write", "request"}
    BY <1>2, ReturnsMoves DEF Fails
<1> QED BY <1>1, <1>2

LEMMA AgainMoves ==
    ASSUME TypeOK, AgainOrFails
    PROVE  Moves
<1>1. CASE call.nacks > 0
    BY <1>1, GoMoves, AttemptPlace DEF AgainOrFails
<1>2. CASE ~(call.nacks > 0)
    BY <1>2, FailsMoves DEF AgainOrFails
<1> QED BY <1>1, <1>2

LEMMA ReadyMoves ==
    ASSUME TypeOK, NEW nack, ReadyForCommand(nack)
    PROVE  Moves
BY GoMoves, AttemptPlace DEF ReadyForCommand, Places, Changing

LEMMA SettledMoves ==
    ASSUME TypeOK, NEW nack, Settled(nack)
    PROVE  Moves
<1>1. CASE nack /\ call.op # "collect"
  <2>1. Refused
      BY <1>1 DEF Settled
  <2>2. CASE call.nacks + 1 < NACKS
    <3>1. /\ call' = [call EXCEPT !.at = Attempt, !.tries = 0, !.nacks = @ + 1]
          /\ UNCHANGED <<eep_pdi, plan>>
        BY <2>1, <2>2 DEF Refused
    <3>2. call' \in CallRecord /\ call'.at = Attempt
      <4>1. call \in CallRecord
          BY DEF TypeOK
      <4>2. \A to \in Places, n \in Nat :
               LET c == [call EXCEPT !.at = to, !.tries = 0, !.nacks = n]
               IN  c \in CallRecord /\ c.at = to
          BY <4>1 DEF CallRecord
      <4>3. call.nacks + 1 \in Nat
          BY <4>1 DEF CallRecord
      <4>4. call' = [call EXCEPT !.at = Attempt, !.tries = 0, !.nacks = call.nacks + 1]
          BY <3>1
      <4> QED BY <4>2, <4>3, <4>4, AttemptPlace
    <3> QED BY <3>1, <3>2, AttemptPlace DEF Moves
  <2>3. CASE ~(call.nacks + 1 < NACKS)
      BY <2>1, <2>3, FailsMoves DEF Refused
  <2> QED BY <2>2, <2>3
<1>2. CASE call.op = "write" /\ ~nack
  <2>1. Ends /\ UNCHANGED <<eep_pdi, plan>>
      BY <1>2 DEF Settled
  <2> QED BY <2>1, EndsMoves
<1>3. CASE ~(nack /\ call.op # "collect") /\ ~(call.op = "write" /\ ~nack)
  <2>1. /\ call' = [call EXCEPT !.at = "data", !.tries = 0, !.nacks = 0]
        /\ UNCHANGED <<eep_pdi, plan>>
      BY <1>3 DEF Settled
  <2>2. call' \in CallRecord /\ call'.at = "data"
      BY <2>1 DEF TypeOK, CallRecord, Places
  <2> QED BY <2>1, <2>2 DEF Moves, Changing
<1> QED BY <1>1, <1>2, <1>3

LEMMA MovesKeep ==
    ASSUME IInv, call.at \notin Changing \cup {"default"}, Moves,
           UNCHANGED <<mem, calls>>, spoiled \subseteq spoiled',
           NEW d \in Device(slave), d.owner = dev[slave].owner,
           dev' = dev \/ dev' = [dev EXCEPT ![slave] = d]
    PROVE  IInv'
<1>0. TypeOK /\ slave \in Slaves
    BY SlaveType DEF IInv
<1>1. /\ dev' \in [Slaves -> Devices] /\ \A t \in Slaves : dev'[t] \in Device(t)
      /\ \A t \in Slaves : dev'[t].owner = dev[t].owner
    BY <1>0, OneDevice
<1>2. TypeOK'
    BY <1>0, <1>1 DEF TypeOK, Moves
<1>3. Onward /\ eep_pdi' = eep_pdi
    BY DEF Moves, Onward
<1> QED BY <1>1, <1>2, <1>3, Quiet

LEMMA SelfDevice == TypeOK => slave \in Slaves /\ dev[slave] \in Device(slave)
BY SlaveType DEF TypeOK

(* The two waits, whatever they do when the EEPROM is ready or too late.   *)
LEMMA WaitKeeps == IInv /\ Wait => IInv'
<1> SUFFICES ASSUME IInv, Wait PROVE IInv'
    OBVIOUS
<1>0. /\ TypeOK /\ call.at \notin Changing \cup {"default"}
      /\ UNCHANGED <<mem, calls, dev>> /\ spoiled \subseteq spoiled'
    BY DEF IInv, Wait, At, Waits, Spoils, Changing
<1>1. ASSUME NEW nack, ReadyForCommand(nack)
      PROVE  Moves
    BY <1>0, <1>1, ReadyMoves
<1>2. Fails => Moves
    BY <1>0, FailsMoves
<1>3. UNCHANGED <<call, eep_pdi, plan>> => Moves
    BY <1>0 DEF Moves, TypeOK
<1>4. Moves
    BY <1>1, <1>2, <1>3 DEF Wait, Waits
<1> QED BY <1>0, <1>4, SelfDevice, MovesKeep

LEMMA SettleKeeps == IInv /\ Settle => IInv'
<1> SUFFICES ASSUME IInv, Settle PROVE IInv'
    OBVIOUS
<1>0. /\ TypeOK /\ call.at \notin Changing \cup {"default"}
      /\ UNCHANGED <<mem, calls, dev>> /\ spoiled \subseteq spoiled'
    BY DEF IInv, Settle, At, Waits, Spoils, Changing
<1>1. ASSUME NEW nack, Settled(nack)
      PROVE  Moves
    BY <1>0, <1>1, SettledMoves
<1>2. AgainOrFails => Moves
    BY <1>0, AgainMoves
<1>3. UNCHANGED <<call, eep_pdi, plan>> => Moves
    BY <1>0 DEF Moves, TypeOK
<1>4. Moves
    BY <1>1, <1>2, <1>3 DEF Settle, Waits
<1> QED BY <1>0, <1>4, SelfDevice, MovesKeep

LEMMA ClearKeeps == IInv /\ Clear => IInv'
<1> SUFFICES ASSUME IInv, Clear PROVE IInv'
    OBVIOUS
<1>0. /\ TypeOK /\ call.at \notin Changing \cup {"default"} /\ Go(Attempt)
      /\ UNCHANGED <<mem, calls, eep_pdi, plan, spoiled>>
      /\ dev' = dev \/ dev' = [dev EXCEPT ![slave] = Cleared(dev[slave])]
    BY DEF IInv, Clear, At, Sends, Changing
<1>1. Moves
    BY <1>0, GoMoves, AttemptPlace
<1>2. Cleared(dev[slave]) \in Device(slave) /\ Cleared(dev[slave]).owner = dev[slave].owner
    BY <1>0, SelfDevice, Effects
<1> QED BY <1>0, <1>1, <1>2, MovesKeep

LEMMA WordKeeps == IInv /\ Word => IInv'
<1> SUFFICES ASSUME IInv, Word PROVE IInv'
    OBVIOUS
<1> PICK o \in Outcomes :
        /\ Sends(o, Loaded)
        /\ \/ Retries(o)
           \/ /\ Ended(o) /\ Go("command") /\ Spoils(o # "ok")
              /\ NoAnswer /\ UNCHANGED <<eep_pdi, cache, plan>>
    BY DEF Word
<1>0. /\ TypeOK /\ call.at \notin Changing \cup {"default"} /\ UNCHANGED <<mem, calls>>
      /\ dev' = dev \/ dev' = [dev EXCEPT ![slave] = Loaded(dev[slave])]
    BY DEF IInv, Word, At, Sends, Changing
<1>1. Moves /\ spoiled \subseteq spoiled'
  <2>1. CASE Retries(o)
      BY <1>0, <2>1, RetriesMoves
  <2>2. CASE Go("command") /\ Spoils(o # "ok") /\ UNCHANGED <<eep_pdi, plan>>
    <3>1. "command" \in Places \ (Changing \cup {"default"})
        BY DEF Places, Changing
    <3> QED BY <1>0, <2>2, <3>1, GoMoves DEF Spoils
  <2> QED BY <2>1, <2>2
<1>2. Loaded(dev[slave]) \in Device(slave) /\ Loaded(dev[slave]).owner = dev[slave].owner
    BY <1>0, SelfDevice, Effects
<1> QED BY <1>0, <1>1, <1>2, MovesKeep

LEMMA CommandKeeps == IInv /\ Command => IInv'
<1> SUFFICES ASSUME IInv, Command PROVE IInv'
    OBVIOUS
<1> PICK o \in Outcomes :
        /\ Sends(o, Commanded)
        /\ \/ Retries(o)
           \/ /\ Ended(o) /\ Spoils(o # "ok")
              /\ IF Truthy(o) /\ call.op # "request"
                 THEN Go("settle") /\ NoAnswer /\ UNCHANGED <<eep_pdi, cache, plan>>
                 ELSE AgainOrFails
    BY DEF Command
<1>0. /\ TypeOK /\ call.at \notin Changing \cup {"default"} /\ UNCHANGED <<mem, calls>>
      /\ dev' = dev \/ dev' = [dev EXCEPT ![slave] = Commanded(dev[slave])]
    BY DEF IInv, Command, At, Sends, Changing
<1>1. Moves /\ spoiled \subseteq spoiled'
  <2>1. CASE Retries(o)
      BY <1>0, <2>1, RetriesMoves
  <2>2. CASE Go("settle") /\ Spoils(o # "ok") /\ UNCHANGED <<eep_pdi, plan>>
    <3>1. "settle" \in Places \ (Changing \cup {"default"})
        BY DEF Places, Changing
    <3> QED BY <1>0, <2>2, <3>1, GoMoves DEF Spoils
  <2>3. CASE AgainOrFails /\ Spoils(o # "ok")
      BY <1>0, <2>3, AgainMoves DEF Spoils
  <2> QED BY <2>1, <2>2, <2>3
<1>2. Commanded(dev[slave]) \in Device(slave) /\ Commanded(dev[slave]).owner = dev[slave].owner
    BY <1>0, SelfDevice, Effects
<1> QED BY <1>0, <1>1, <1>2, MovesKeep

LEMMA DataKeeps == IInv /\ Data => IInv'
<1> SUFFICES ASSUME IInv, Data PROVE IInv'
    OBVIOUS
<1> PICK o \in Outcomes :
        /\ Sends(o, Unchanged)
        /\ \/ Retries(o)
           \/ /\ Ended(o) /\ Spoils(o # "ok")
              /\ Returns(IF o = "ok" THEN dev[slave].data ELSE NoChunk(slave))
    BY DEF Data
<1>0. /\ TypeOK /\ call.at \notin Changing \cup {"default"} /\ UNCHANGED <<mem, calls>>
      /\ dev' = dev \/ dev' = [dev EXCEPT ![slave] = dev[slave]]
    BY DEF IInv, Data, At, Sends, Unchanged, Changing
<1>1. Moves /\ spoiled \subseteq spoiled'
  <2>1. CASE Retries(o)
      BY <1>0, <2>1, RetriesMoves
  <2>2. CASE Spoils(o # "ok") /\ \E chunk : Returns(chunk)
      BY <1>0, <2>2, ReturnsMoves DEF Spoils
  <2> QED BY <2>1, <2>2
<1> QED BY <1>0, <1>1, SelfDevice, MovesKeep

LEMMA GetByteKeeps == IInv /\ GetByte => IInv'
<1> SUFFICES ASSUME IInv, GetByte PROVE IInv'
    OBVIOUS
<1>0. /\ TypeOK /\ call \in CallRecord /\ call.at = "bytes" /\ call.left > 0
      /\ UNCHANGED <<mem, calls, dev, eep_pdi, plan, spoiled>>
    BY DEF IInv, TypeOK, GetByte, At
<1>1. call.left - 1 \in Nat
    BY <1>0 DEF CallRecord
<1>2. call' \in CallRecord /\ Onward
  <2>1. CASE call' = [call EXCEPT !.left = @ - 1]
      BY <1>0, <1>1, <2>1 DEF CallRecord, Onward
  <2>2. CASE \E w \in Words :
                call' = [call EXCEPT !.w = w, !.left = @ - 1, !.tries = 0, !.nacks = 0,
                                     !.at = IF slave \in eep_pdi THEN "force" ELSE "wait"]
    <3> PICK w \in Words :
           call' = [call EXCEPT !.w = w, !.left = @ - 1, !.tries = 0, !.nacks = 0,
                                !.at = IF slave \in eep_pdi THEN "force" ELSE "wait"]
        BY <2>2
    <3>1. w \in Nat
        BY EepromAssumption DEF Words
    <3>2. \A to \in Places, n \in Nat :
             LET c == [call EXCEPT !.w = w, !.left = n, !.tries = 0, !.nacks = 0, !.at = to]
             IN  c \in CallRecord /\ c.at = to /\ c.s = call.s
        BY <1>0, <3>1 DEF CallRecord
    <3>3. {"force", "wait"} \subseteq Places
        BY DEF Places
    <3>4. /\ call' \in CallRecord /\ call'.s = slave
          /\ \/ call'.at = "force" /\ slave \in eep_pdi
             \/ call'.at = "wait"
        BY <1>1, <3>2, <3>3, ZenonT(30) DEF slave
    <3> QED BY <1>0, <3>4 DEF Onward, Changing
  <2> QED BY <2>1, <2>2 DEF GetByte
<1>3. TypeOK'
    BY <1>0, <1>2 DEF TypeOK
<1> QED BY <1>0, <1>2, <1>3, Quiet

LEMMA FoundKeeps == IInv /\ Found => IInv'
<1> SUFFICES ASSUME IInv, Found PROVE IInv'
    OBVIOUS
<1>0. /\ TypeOK /\ call \in CallRecord /\ call.at = "bytes"
      /\ UNCHANGED <<mem, calls, dev, eep_pdi, plan, spoiled>>
    BY DEF IInv, TypeOK, Found, At
<1>1. call' \in CallRecord /\ Onward
  <2>1. CASE slave \notin eep_pdi /\ Go("give")
    <3>1. call' \in CallRecord /\ call'.at = "give" /\ call'.s = slave
        BY <1>0, <2>1 DEF Go, CallRecord, Places, slave
    <3> QED BY <1>0, <2>1, <3>1 DEF Onward, Changing
  <2>2. CASE Ends
      BY <1>0, <2>2, IdleType DEF Ends, Onward, Changing
  <2> QED BY <2>1, <2>2 DEF Found
<1>2. TypeOK'
    BY <1>0, <1>1 DEF TypeOK
<1> QED BY <1>0, <1>1, <1>2, Quiet
-----------------------------------------------------------------------------
LEMMA IInvNext == IInv /\ [Next]_vars => IInv'
<1> SUFFICES ASSUME IInv, [Next]_vars PROVE IInv'
    OBVIOUS
<1>1. CASE Master
    BY <1>1, ConfigStepKeeps, DefaultKeeps, ForceKeeps, GrantKeeps, GiveKeeps, WaitKeeps,
       ClearKeeps, WordKeeps, CommandKeeps, SettleKeeps, DataKeeps, GetByteKeeps, FoundKeeps
       DEF Master
<1>2. CASE Begin \/ Restart
    BY <1>2, BeginKeeps, RestartKeeps
<1>3. CASE \E s \in Slaves : Finish(s) \/ PdiUses(s)
    BY <1>3, FinishKeeps, PdiUsesKeeps
<1>4. CASE UNCHANGED vars
    BY <1>4 DEF vars, env, IInv, TypeOK, ControlInv, Known
<1> QED BY <1>1, <1>2, <1>3, <1>4 DEF Next

(* Between calls the master knows who can use the EEPROM of each slave no  *)
(* retry and no wait was given up for: whatever the searches, the retried  *)
(* frames and the slaves that take and hold their EEPROM have done before  *)
(* (eep_pdi, as ecx_eeprom2master and ecx_eeprom2pdi keep it).             *)
THEOREM ControlKnown == Spec => []ControlIsKnown
<1>1. IInv => ControlIsKnown
    BY DEF IInv, ControlInv, Known, ControlIsKnown
<1> QED BY <1>1, IInvInit, IInvNext, PTL DEF Spec
-----------------------------------------------------------------------------
(***************************************************************************)
(* What is read. Of which slaves ecx_config_init has asked for a field and *)
(* not collected it when it is at p, and which field that is.              *)
(***************************************************************************)
Asked(p, s) ==
    /\ p.op # "none"
    /\ \/ s < p.s /\ p.field < Fields
       \/ s > p.s /\ p.field > 0
       \/ s = p.s /\ p.op = "collect"
Field(p, s) == IF s < p.s THEN p.field ELSE p.field - 1

(* In the last round nothing is asked for any more, and slaves may get     *)
(* their EEPROMs.                                                          *)
Released == plan.op = "none" \/ plan.field = Fields

Work == {"wait", "clear", "word", "command", "settle", "data"}
InCall(s) == call.op # "none" /\ call.s = s

CallInv ==
    /\ call.op = "none" <=> call.at \in {"idle", "default"}
    /\ call.at = "default" => plan = ConfigInit
    /\ call.op \notin {"none", "request"} => ~Asked(plan, call.s)
    /\ call.op = "request" => /\ Asked(plan, call.s) /\ call.w = Field(plan, call.s)
                              /\ call.at \notin {"settle", "data"}
    /\ call.op \in {"give", "sii"} => Released
    /\ call.at = "give" => call.op \in {"give", "sii"}
    /\ call.at = "bytes" => call.op = "sii"
    /\ call.op = "sii" /\ call.at \notin {"bytes", "give"} => esislave = call.s
    /\ call.at \in Work => call.s \notin eep_pdi
    /\ call.w \in Words /\ call.nacks < NACKS

FlagInv ==
    /\ eep_pdi # {} => Released
    /\ \A s \in eep_pdi : ~Asked(plan, s)

CacheInv ==
    /\ DOMAIN esimap \subseteq Words
    /\ esislave \in Slaves \ spoiled =>
          \A w \in DOMAIN esimap : esimap[w] = mem[esislave][w] \/ <<esislave, w>> \in written

Shown == FlagInv /\ CacheInv /\ AnswersAreRight

(***************************************************************************)
(* What the interface of a slave nothing was given up for holds: nothing   *)
(* is under way, or what the call in progress has commanded, or the field  *)
(* that has been asked for.                                                *)
(***************************************************************************)
Free(s) == dev[s].busy = "no"
Reading(s, w) ==
    \/ dev[s].busy = "read" /\ dev[s].addr = w
    \/ Free(s) /\ (dev[s].nack \/ dev[s].data = Contents(s, w))
Writing(s, w) ==
    \/ dev[s].busy = "write" /\ dev[s].addr = w /\ dev[s].data[1] = New
    \/ Free(s) /\ (dev[s].nack \/ mem[s][w] = New)
Sent(s) ==
    /\ dev[s].busy = IF call.op = "write" THEN "write" ELSE "read"
    /\ dev[s].addr = call.w

Worked(s) ==
    CASE call.at = "command" ->
            (Free(s) \/ Sent(s)) /\ (call.op = "write" => dev[s].data[1] = New)
      [] call.at = "settle" ->
            IF call.op = "write" THEN Writing(s, call.w) ELSE Reading(s, call.w)
      [] call.at = "data" -> Free(s) /\ dev[s].data = Contents(s, call.w)
      [] OTHER -> Free(s)

DevInv(s) ==
    CASE InCall(s) -> Worked(s)
      [] ~InCall(s) /\ Asked(plan, s) -> Reading(s, Field(plan, s))
      [] OTHER -> Free(s)

AnswerInv == CallInv /\ Shown /\ \A s \in Slaves \ spoiled : DevInv(s)
-----------------------------------------------------------------------------
LEMMA Sizes ==
    /\ Fields \in Nat /\ Fields > 0 /\ Fields <= Top + 1 /\ Top \in Nat /\ N \in Nat /\ N > 0
    /\ NACKS \in Nat /\ NACKS > 0 /\ \A s \in Slaves : Chunk[s] \in Nat /\ Chunk[s] > 0
BY EepromAssumption

(* One call of ecx_config_init changes what has been asked of its slave.   *)
LEMMA PlanAsks ==
    ASSUME NEW p \in Positions, p # Done
    PROVE  /\ \A t \in Slaves \ {p.s} : /\ Asked(After(p), t) <=> Asked(p, t)
                                        /\ Asked(p, t) => Field(After(p), t) = Field(p, t)
           /\ Asked(p, p.s) <=> p.op = "collect"
           /\ Field(p, p.s) = p.field - 1
           /\ Asked(After(p), p.s) <=> p.op = "request"
           /\ p.op = "request" => Field(After(p), p.s) = p.field
           /\ p.field = Fields => After(p).op = "none" \/ After(p).field = Fields
<1>1. /\ p.op \in {"request", "collect", "sii", "give"} /\ p.s \in 1 .. N
      /\ p.field \in 0 .. Fields /\ Fields \in Nat /\ Fields > 0 /\ N \in Nat
      /\ p.op = "request" => p.field < Fields
      /\ p.op = "collect" => p.field > 0
      /\ p.op \in {"sii", "give"} => p.field = Fields
    BY Sizes DEF Positions, Slaves
<1>2. CASE p.op \in {"collect", "sii"}
  <2>1. /\ After(p).s = p.s /\ After(p).field = p.field
        /\ After(p).op \in {"request", "sii", "give"}
        /\ After(p).op = "request" => p.field < Fields
      BY <1>1, <1>2 DEF After, Positions
  <2> QED BY <1>1, <1>2, <2>1 DEF Asked, Field, Slaves
<1>3. CASE p.op \in {"request", "give"} /\ p.s < N
  <2>1. /\ After(p).s = p.s + 1 /\ After(p).field = p.field
        /\ After(p).op = IF p.field = 0 THEN "request" ELSE "collect"
      BY <1>1, <1>3 DEF After, TurnAfter, Turn
  <2> QED BY <1>1, <1>3, <2>1 DEF Asked, Field, Slaves
<1>4. CASE p.op \in {"request", "give"} /\ p.s = N /\ p.field < Fields
  <2>1. After(p).s = 1 /\ After(p).field = p.field + 1 /\ After(p).op = "collect"
      BY <1>1, <1>4 DEF After, TurnAfter, Turn
  <2> QED BY <1>1, <1>4, <2>1 DEF Asked, Field, Slaves
<1>5. CASE p.op \in {"request", "give"} /\ p.s = N /\ ~(p.field < Fields)
  <2>1. After(p) = Done /\ p.field = Fields /\ p.op = "give"
      BY <1>1, <1>5 DEF After, TurnAfter
  <2> QED BY <1>1, <1>5, <2>1 DEF Asked, Field, Slaves, Done
<1> QED BY <1>1, <1>2, <1>3, <1>4, <1>5

LEMMA NothingAsked == \A t \in Slaves : ~Asked(ConfigInit, t) /\ ~Asked(Done, t)
BY Sizes DEF Asked, ConfigInit, Turn, Done, Slaves

LEMMA WordRead ==
    ASSUME NEW s \in Slaves, NEW w \in Words, NEW i \in 1 .. Chunk[s], w + i - 1 \in Words
    PROVE  Contents(s, w)[i] = mem[s][w + i - 1]
BY DEF Contents

LEMMA FirstWord ==
    ASSUME NEW s \in Slaves, NEW w \in Words
    PROVE  Contents(s, w)[1] = mem[s][w]
<1>1. 1 \in 1 .. Chunk[s] /\ w + 1 - 1 = w
    BY Sizes DEF Words
<1> QED BY <1>1, WordRead

LEMMA SameContents == mem' = mem => \A s, w : Contents(s, w)' = Contents(s, w)
BY DEF Contents

(***************************************************************************)
(* What the steps of a call have in common.                                *)
(***************************************************************************)
LEMMA CallFacts ==
    ASSUME IInv, AnswerInv, call.at \notin {"idle", "default"}
    PROVE  /\ TypeOK /\ call \in CallRecord /\ call.op # "none" /\ slave \in Slaves
           /\ call.w \in Words /\ call.nacks \in Nat
           /\ \A s \in Slaves : InCall(s) <=> s = slave
           /\ \A s \in Slaves : s = slave => s \in spoiled \/ Worked(s)
<1>1. TypeOK /\ call \in CallRecord /\ slave \in Slaves
    BY SlaveType DEF IInv, TypeOK
<1>2. call.op # "none" /\ call.w \in Words /\ call.nacks \in Nat
    BY <1>1 DEF AnswerInv, CallInv, CallRecord
<1>3. \A s \in Slaves : InCall(s) <=> s = slave
    BY <1>2 DEF InCall, slave
<1>4. \A s \in Slaves : s = slave => s \in spoiled \/ Worked(s)
    BY <1>3 DEF AnswerInv, DevInv
<1> QED BY <1>1, <1>2, <1>3, <1>4

LEMMA OwnSlave ==
    ASSUME AnswerInv, plan' = plan, mem' = mem, spoiled \subseteq spoiled',
           NEW s \in Slaves, call.op # "none", call.s = s, call'.op = "none" \/ call'.s = s,
           \A t \in Slaves \ {s} : dev'[t] = dev[t],
           CallInv', Shown', s \in spoiled' \/ DevInv(s)'
    PROVE  AnswerInv'
<1>1. ASSUME NEW t \in Slaves \ (spoiled' \cup {s})
      PROVE  DevInv(t)'
  <2>1. ~InCall(t) /\ ~InCall(t)'
      BY DEF InCall
  <2>2. DevInv(t) /\ dev'[t] = dev[t]
      BY DEF AnswerInv
  <2>3. Asked(plan, t)' = Asked(plan, t) /\ Field(plan, t)' = Field(plan, t)
      BY DEF Asked, Field
  <2>4. Free(t)' = Free(t) /\ Reading(t, Field(plan, t))' = Reading(t, Field(plan, t))
      BY <2>2, <2>3, SameContents DEF Free, Reading
  <2> QED BY <2>1, <2>2, <2>3, <2>4 DEF DevInv
<1> QED BY <1>1 DEF AnswerInv

LEMMA ShownStays ==
    ASSUME Shown, UNCHANGED <<plan, mem, written, cache>>, eep_pdi' \subseteq eep_pdi,
           spoiled \subseteq spoiled', NoAnswer
    PROVE  Shown'
<1>1. FlagInv'
    BY DEF Shown, FlagInv, Released
<1>2. CacheInv'
    BY DEF Shown, CacheInv, cache
<1>3. AnswersAreRight'
    BY DEF NoAnswer, Silent, AnswersAreRight, Slaves
<1> QED BY <1>1, <1>2, <1>3 DEF Shown
(* How a call goes on: at another place, or not at all.                    *)
Onto(s, to) ==
    /\ call'.op = call.op /\ call'.s = s /\ call'.w = call.w /\ call'.nacks < NACKS
    /\ call'.at = to

LEMMA GoesOnto ==
    ASSUME call \in CallRecord, call.nacks < NACKS, NEW to, Go(to)
    PROVE  Onto(slave, to)
BY DEF Go, Onto, CallRecord, slave

LEMMA RetriesOnto ==
    ASSUME call \in CallRecord, call.nacks < NACKS, NEW o, Retries(o)
    PROVE  Onto(slave, call.at)
BY DEF Retries, Onto, CallRecord, slave

LEMMA WorksOn ==
    ASSUME CallInv, UNCHANGED <<plan, eep_pdi, esislave>>, call.at \in Work,
           NEW to \in Work, Onto(slave, to),
           call.op = "request" => to \notin {"settle", "data"}
    PROVE  CallInv'
<1>1. /\ call'.op = call.op /\ call'.s = call.s /\ call'.w = call.w /\ call'.at = to
      /\ call'.nacks < NACKS
    BY DEF Onto, slave
<1>2. to \notin {"idle", "default", "give", "bytes"} /\ call.at \notin {"idle", "default", "give", "bytes"}
    BY DEF Work
<1>3. /\ Asked(plan, call.s)' = Asked(plan, call.s) /\ Field(plan, call.s)' = Field(plan, call.s)
      /\ Released' = Released
    BY <1>1 DEF Asked, Field, Released
<1> QED BY <1>1, <1>2, <1>3 DEF CallInv

LEMMA EndsCall ==
    ASSUME call' = Idle
    PROVE  CallInv' /\ call'.op = "none"
<1>1. Idle.op = "none" /\ Idle.at = "idle" /\ Idle.w = 0 /\ Idle.nacks = 0
    BY DEF Idle
<1>2. 0 \in Words /\ 0 < NACKS
    BY Sizes DEF Words
<1> QED BY <1>1, <1>2 DEF CallInv, Work

(* The interface of the slave of a call that ends.                         *)
LEMMA EndedDev ==
    ASSUME CallInv, call.op # "none", call' = Idle, plan' = plan,
           NEW s \in Slaves, call.s = s,
           Free(s)' \/ (call.op = "request" /\ \E w : w = call.w /\ Reading(s, w)'),
           call.op = "request" => \E w : w = call.w /\ Reading(s, w)'
    PROVE  DevInv(s)'
<1>1. ~InCall(s)'
    BY EndsCall DEF InCall
<1>2. Asked(plan, s)' = Asked(plan, s) /\ Field(plan, s)' = Field(plan, s)
    BY DEF Asked, Field
<1>3. CASE call.op = "request"
  <2>1. Asked(plan, s) /\ call.w = Field(plan, s)
      BY <1>3 DEF CallInv
  <2>2. PICK w : w = call.w /\ Reading(s, w)'
      BY <1>3
  <2>3. Reading(s, Field(plan, s))'
      BY <1>2, <2>1, <2>2 DEF Reading
  <2> QED BY <1>1, <1>2, <2>1, <2>3 DEF DevInv
<1>4. CASE call.op # "request"
  <2>1. ~Asked(plan, s)
      BY <1>4 DEF CallInv
  <2> QED BY <1>1, <1>2, <1>4, <2>1 DEF DevInv
<1> QED BY <1>3, <1>4

(* An answer that is right, or to a call that was given up.                *)
LEMMA ReturnsShown ==
    ASSUME IInv, AnswerInv, call.at \in Work, NEW chunk, Returns(chunk),
           slave \in spoiled' \/ chunk = Contents(slave, call.w),
           UNCHANGED <<mem, written>>, spoiled \subseteq spoiled'
    PROVE  CallInv' /\ Shown'
<1>1. /\ TypeOK /\ call \in CallRecord /\ slave \in Slaves /\ call.w \in Words
      /\ call.op # "none" /\ UNCHANGED <<eep_pdi, esislave, plan>>
      /\ call.at \notin {"idle", "default", "give", "bytes"}
    BY CallFacts DEF Work, Returns
<1>2. CallInv'
  <2>1. CASE call.op = "sii"
    <3>1. call' = [call EXCEPT !.at = "bytes", !.tries = 0, !.nacks = 0]
        BY <2>1 DEF Returns
    <3>2. /\ call'.op = "sii" /\ call'.s = call.s /\ call'.w = call.w /\ call'.at = "bytes"
          /\ call'.nacks = 0
        BY <1>1, <2>1, <3>1 DEF CallRecord
    <3>3. Asked(plan, call.s)' = Asked(plan, call.s) /\ Released' = Released
        BY <1>1, <3>2 DEF Asked, Released
    <3> QED BY <1>1, <2>1, <3>2, <3>3, Sizes DEF AnswerInv, CallInv, Work
  <2>2. CASE call.op # "sii"
      BY <2>2, EndsCall DEF Returns, Ends
  <2> QED BY <2>1, <2>2
<1>3. FlagInv'
    BY <1>1 DEF AnswerInv, Shown, FlagInv, Released
<1>4. CacheInv'
  <2>1. CASE call.op # "sii"
      BY <1>1, <2>1 DEF AnswerInv, Shown, CacheInv, Returns
  <2>2. CASE call.op = "sii"
    <3>1. esislave = slave /\ DOMAIN esimap \subseteq Words
        BY <1>1, <2>2 DEF AnswerInv, CallInv, Shown, CacheInv, slave
    <3>2. Cached(chunk)
        BY <2>2 DEF Returns
    <3>3. DOMAIN esimap' \subseteq Words
        BY <3>1, <3>2 DEF Cached
    <3>4. ASSUME slave \notin spoiled', NEW w \in DOMAIN esimap'
          PROVE  esimap'[w] = mem[slave][w] \/ <<slave, w>> \in written
      <4>1. CASE w - call.w \in 0 .. Chunk[slave] - 1
        <5>1. w \in Words /\ w \in Nat /\ call.w \in Nat
            BY <1>1, <3>3, <3>4, Sizes DEF Words
        <5>2. esimap'[w] = chunk[w - call.w + 1]
            BY <3>2, <3>4, <4>1 DEF Cached
        <5>3. w - call.w + 1 \in 1 .. Chunk[slave] /\ call.w + (w - call.w + 1) - 1 = w
            BY <1>1, <4>1, <5>1, Sizes
        <5>4. chunk[w - call.w + 1] = mem[slave][w]
            BY <1>1, <3>4, <5>1, <5>3, WordRead
        <5> QED BY <5>2, <5>4
      <4>2. CASE w - call.w \notin 0 .. Chunk[slave] - 1
        <5>1. w \in DOMAIN esimap /\ esimap'[w] = esimap[w]
            BY <3>2, <3>4, <4>2 DEF Cached
        <5> QED BY <1>1, <3>1, <3>4, <5>1 DEF AnswerInv, Shown, CacheInv
      <4> QED BY <4>1, <4>2
    <3> QED BY <1>1, <3>1, <3>3, <3>4 DEF CacheInv
  <2> QED BY <2>1, <2>2
<1>5. AnswersAreRight'
  <2>1. ans'.s = slave /\ ans'.w = call.w /\ ans'.value = chunk[1]
      BY DEF Returns, Answer
  <2>2. slave \in spoiled' \/ chunk[1] = mem[slave][call.w]
      BY <1>1, FirstWord
  <2> QED BY <2>1, <2>2 DEF AnswersAreRight
<1> QED BY <1>2, <1>3, <1>4, <1>5 DEF Shown
LEMMA FailsShown ==
    ASSUME IInv, AnswerInv, call.at \in Work, Fails,
           slave \in spoiled' \/ call.op = "request",
           UNCHANGED <<mem, written>>, spoiled \subseteq spoiled'
    PROVE  CallInv' /\ Shown' /\ plan' = plan
<1>1. CASE call.op \in {"write", "request"}
  <2>1. Ends /\ NoAnswer /\ UNCHANGED <<eep_pdi, cache, plan>>
      BY <1>1 DEF Fails
  <2> QED BY <2>1, EndsCall, ShownStays DEF AnswerInv, Ends
<1>2. CASE call.op \notin {"write", "request"}
  <2>1. Returns(NoChunk(slave)) /\ slave \in spoiled'
      BY <1>2 DEF Fails
  <2> QED BY <2>1, ReturnsShown DEF Returns
<1> QED BY <1>1, <1>2

(* Where a call that has failed or returned is.                            *)
LEMMA FailsWhere ==
    ASSUME IInv, AnswerInv, Fails
    PROVE  call'.op = "none" \/ call'.s = slave
<1>1. ASSUME NEW chunk, Returns(chunk)
      PROVE  call'.op = "none" \/ call'.s = slave
    BY <1>1, EndsCall, SlaveType DEF Returns, Ends, slave, IInv, TypeOK, CallRecord
<1> QED BY <1>1, EndsCall DEF Fails, Ends

(* A call whose slave owns nothing any more: the master has its EEPROM.    *)
LEMMA MasterOwns ==
    ASSUME IInv, AnswerInv, call.at \in Work
    PROVE  \A s \in Slaves \ spoiled : s = slave => dev[s].owner = "master"
<1>1. slave \notin eep_pdi
    BY DEF AnswerInv, CallInv, slave
<1>2. call.at \notin {"default", "force", "grant", "give"}
    BY DEF Work
<1> QED BY <1>1, <1>2 DEF IInv, ControlInv, Known, slave
-----------------------------------------------------------------------------
(* A frame to the slave of the call.                                       *)
LEMMA FrameSent ==
    ASSUME TypeOK, NEW s \in Slaves, s = slave, NEW d, NEW o,
           dev' = IF Reaches(o) THEN [dev EXCEPT ![s] = d] ELSE dev
    PROVE  /\ \A t \in Slaves \ {s} : dev'[t] = dev[t]
           /\ dev'[s] = dev[s] \/ dev'[s] = d
           /\ o = "ok" => dev'[s] = d
BY DEF TypeOK, Reaches

LEMMA ForceAnswers == IInv /\ AnswerInv /\ ForceFromPdi => AnswerInv'
<1> SUFFICES ASSUME IInv, AnswerInv, ForceFromPdi PROVE AnswerInv'
    OBVIOUS
<1> PICK o \in Outcomes :
        /\ Sends(o, Forced)
        /\ \/ Retries(o)
           \/ /\ Ended(o) /\ Go("grant") /\ Spoils(o # "ok")
              /\ NoAnswer /\ UNCHANGED <<eep_pdi, cache, plan>>
    BY DEF ForceFromPdi
<1>0. call.at = "force" /\ UNCHANGED <<mem, written, calls>>
    BY DEF ForceFromPdi, At
<1> PICK s \in Slaves : s = slave
    BY <1>0, CallFacts
<1>1. TypeOK /\ call \in CallRecord /\ call.op # "none" /\ (s \in spoiled \/ Free(s))
    BY <1>0, CallFacts DEF Worked
<1>2. /\ \A t \in Slaves \ {s} : dev'[t] = dev[t]
      /\ dev'[s].busy = dev[s].busy
  <2>1. dev[s] \in Device(s) /\ Forced(dev[s]).busy = dev[s].busy
      BY <1>1 DEF TypeOK, Device, Forced
  <2> QED BY <1>1, <2>1, FrameSent DEF Sends
<1>3. /\ Onto(s, "force") \/ Onto(s, "grant")
      /\ NoAnswer /\ UNCHANGED <<eep_pdi, cache, plan>> /\ spoiled \subseteq spoiled'
    BY <1>0, <1>1, GoesOnto, RetriesOnto DEF AnswerInv, CallInv, Retries, Spoils
<1>4. CallInv'
  <2>1. /\ Asked(plan, call.s)' = Asked(plan, call.s) /\ Field(plan, call.s)' = Field(plan, call.s)
        /\ Released' = Released
      BY <1>3 DEF Asked, Field, Released, Onto, slave
  <2> QED BY <1>0, <1>1, <1>3, <2>1 DEF AnswerInv, CallInv, Onto, Work, slave, cache
<1>5. Shown'
    BY <1>0, <1>3, ShownStays DEF AnswerInv
<1>6. s \in spoiled' \/ DevInv(s)'
    BY <1>1, <1>2, <1>3 DEF DevInv, InCall, Worked, Free, Onto
<1> QED BY <1>0, <1>1, <1>2, <1>3, <1>4, <1>5, <1>6, OwnSlave DEF Onto, slave

LEMMA GrantAnswers == IInv /\ AnswerInv /\ Grant => AnswerInv'
<1> SUFFICES ASSUME IInv, AnswerInv, Grant PROVE AnswerInv'
    OBVIOUS
<1> PICK o \in Outcomes :
        /\ Sends(o, Granted)
        /\ \/ Retries(o)
           \/ /\ Ended(o) /\ eep_pdi' = eep_pdi \ {slave} /\ Spoils(o # "ok")
              /\ IF call.op = "take" THEN Ends ELSE Go("wait")
              /\ NoAnswer /\ UNCHANGED <<cache, plan>>
    BY DEF Grant
<1>0. call.at = "grant" /\ UNCHANGED <<mem, written, calls>>
    BY DEF Grant, At
<1> PICK s \in Slaves : s = slave
    BY <1>0, CallFacts
<1>1. TypeOK /\ call \in CallRecord /\ call.op # "none" /\ (s \in spoiled \/ Free(s))
    BY <1>0, CallFacts DEF Worked
<1>2. /\ \A t \in Slaves \ {s} : dev'[t] = dev[t]
      /\ dev'[s].busy = dev[s].busy
  <2>1. dev[s] \in Device(s) /\ Granted(dev[s]).busy = dev[s].busy
      BY <1>1 DEF TypeOK, Device, Granted
  <2> QED BY <1>1, <2>1, FrameSent DEF Sends
<1>3. /\ \/ Onto(s, "grant")
         \/ Onto(s, "wait") /\ s \notin eep_pdi'
         \/ call.op = "take" /\ call' = Idle
      /\ NoAnswer /\ UNCHANGED <<cache, plan>> /\ spoiled \subseteq spoiled'
      /\ eep_pdi' \subseteq eep_pdi
    BY <1>0, <1>1, GoesOnto, RetriesOnto DEF AnswerInv, CallInv, Retries, Spoils, Ends
<1>4. CallInv'
  <2>1. CASE Onto(s, "grant") \/ (Onto(s, "wait") /\ s \notin eep_pdi')
    <3>1. /\ Asked(plan, call.s)' = Asked(plan, call.s) /\ Field(plan, call.s)' = Field(plan, call.s)
          /\ Released' = Released
        BY <1>3, <2>1 DEF Asked, Field, Released, Onto, slave
    <3> QED BY <1>0, <1>1, <1>3, <2>1, <3>1 DEF AnswerInv, CallInv, Onto, Work, slave, cache
  <2> QED BY <1>3, <2>1, EndsCall
<1>5. Shown'
    BY <1>0, <1>3, ShownStays DEF AnswerInv
<1>6. s \in spoiled' \/ DevInv(s)'
  <2>1. CASE Onto(s, "grant") \/ Onto(s, "wait")
      BY <1>1, <1>2, <1>3, <2>1 DEF DevInv, InCall, Worked, Free, Onto
  <2>2. CASE call.op = "take" /\ call' = Idle
    <3>1. s \in spoiled' \/ Free(s)'
        BY <1>1, <1>2, <1>3 DEF Free
    <3> QED BY <1>1, <1>3, <2>2, <3>1, EndedDev DEF AnswerInv, slave
  <2> QED BY <1>3, <2>1, <2>2
<1>7. call'.op = "none" \/ call'.s = s
    BY <1>3, EndsCall DEF Onto
<1> QED BY <1>0, <1>1, <1>2, <1>3, <1>4, <1>5, <1>6, <1>7, OwnSlave DEF slave

LEMMA GiveAnswers == IInv /\ AnswerInv /\ GiveToPdi => AnswerInv'
<1> SUFFICES ASSUME IInv, AnswerInv, GiveToPdi PROVE AnswerInv'
    OBVIOUS
<1> PICK o \in Outcomes :
        /\ Sends(o, Given)
        /\ \/ Retries(o)
           \/ /\ Ended(o) /\ eep_pdi' = eep_pdi \cup {slave} /\ Spoils(o # "ok")
              /\ Ends /\ NoAnswer /\ UNCHANGED <<cache, plan>>
    BY DEF GiveToPdi
<1>0. call.at = "give" /\ UNCHANGED <<mem, written, calls>>
    BY DEF GiveToPdi, At
<1> PICK s \in Slaves : s = slave
    BY <1>0, CallFacts
<1>1. /\ TypeOK /\ call \in CallRecord /\ call.op \in {"give", "sii"} /\ (s \in spoiled \/ Free(s))
      /\ Released /\ ~Asked(plan, s)
    BY <1>0, CallFacts DEF Worked, AnswerInv, CallInv, slave
<1>2. /\ \A t \in Slaves \ {s} : dev'[t] = dev[t]
      /\ dev'[s].busy = dev[s].busy
  <2>1. dev[s] \in Device(s) /\ Given(dev[s]).busy = dev[s].busy
      BY <1>1 DEF TypeOK, Device, Given
  <2> QED BY <1>1, <2>1, FrameSent DEF Sends
<1>3. /\ \/ Onto(s, "give") /\ eep_pdi' = eep_pdi
         \/ eep_pdi' = eep_pdi \cup {s} /\ call' = Idle
      /\ NoAnswer /\ UNCHANGED <<cache, plan>> /\ spoiled \subseteq spoiled'
    BY <1>0, <1>1, GoesOnto, RetriesOnto DEF AnswerInv, CallInv, Retries, Spoils, Ends
<1>4. CallInv'
  <2>1. CASE Onto(s, "give")
    <3>1. Asked(plan, call.s)' = Asked(plan, call.s) /\ Released' = Released
        BY <1>3, <2>1 DEF Asked, Released, Onto, slave
    <3> QED BY <1>0, <1>1, <1>3, <2>1, <3>1 DEF AnswerInv, CallInv, Onto, Work, slave
  <2> QED BY <1>3, <2>1, EndsCall
<1>5. Shown'
  <2>1. FlagInv'
      BY <1>1, <1>3 DEF AnswerInv, Shown, FlagInv, Released, Asked
  <2>2. CacheInv' /\ AnswersAreRight'
      BY <1>0, <1>3 DEF AnswerInv, Shown, CacheInv, cache, NoAnswer, Silent, AnswersAreRight, Slaves
  <2> QED BY <2>1, <2>2 DEF Shown
<1>6. s \in spoiled' \/ DevInv(s)'
  <2>1. CASE Onto(s, "give")
      BY <1>1, <1>2, <1>3, <2>1 DEF DevInv, InCall, Worked, Free, Onto
  <2>2. CASE call' = Idle
    <3>1. s \in spoiled' \/ Free(s)'
        BY <1>1, <1>2, <1>3 DEF Free
    <3> QED BY <1>1, <1>3, <2>2, <3>1, EndedDev DEF AnswerInv, slave
  <2> QED BY <1>3, <2>1, <2>2
<1>7. call'.op = "none" \/ call'.s = s
    BY <1>3, EndsCall DEF Onto
<1> QED BY <1>0, <1>1, <1>2, <1>3, <1>4, <1>5, <1>6, <1>7, OwnSlave DEF slave
-----------------------------------------------------------------------------
LEMMA WaitAnswers == IInv /\ AnswerInv /\ Wait => AnswerInv'
<1> SUFFICES ASSUME IInv, AnswerInv, Wait PROVE AnswerInv'
    OBVIOUS
<1>0. call.at = "wait" /\ UNCHANGED <<mem, written, calls, dev>> /\ call.at \in Work
    BY DEF Wait, At, Waits, Work
<1> PICK s \in Slaves : s = slave
    BY <1>0, CallFacts
<1>1. /\ TypeOK /\ call \in CallRecord /\ call.op # "none" /\ (s \in spoiled \/ Free(s))
      /\ call.s = s /\ CallInv /\ call.nacks < NACKS
    BY <1>0, CallFacts DEF Worked, AnswerInv, CallInv, slave
<1>2. spoiled \subseteq spoiled'
    BY DEF Wait, Waits, Spoils
<1>3. ASSUME CallInv', Shown', plan' = plan, call'.op = "none" \/ call'.s = s,
             s \in spoiled' \/ DevInv(s)'
      PROVE  AnswerInv'
    BY <1>0, <1>1, <1>2, <1>3, OwnSlave
<1>4. ASSUME NEW nack, ReadyForCommand(nack)
      PROVE  AnswerInv'
  <2>1. PICK to \in {"clear", "word", "command"} :
           Go(to) /\ (to = "command" => call.op # "write")
      BY <1>4 DEF ReadyForCommand, Attempt
  <2>2. Onto(s, to)
      BY <1>1, <2>1, GoesOnto
  <2>3. NoAnswer /\ UNCHANGED <<eep_pdi, cache, plan>>
      BY <1>4 DEF ReadyForCommand
  <2>4. CallInv'
      BY <1>0, <1>1, <2>1, <2>2, <2>3, WorksOn DEF Work, cache, slave
  <2>5. Shown'
      BY <1>0, <1>2, <2>3, ShownStays DEF AnswerInv
  <2>6. s \in spoiled' \/ DevInv(s)'
      BY <1>0, <1>1, <1>2, <2>1, <2>2 DEF DevInv, InCall, Worked, Free, Onto
  <2> QED BY <1>3, <2>2, <2>3, <2>4, <2>5, <2>6 DEF Onto
<1>5. ASSUME Spoils(TRUE), Fails
      PROVE  AnswerInv'
  <2>1. s \in spoiled'
      BY <1>5 DEF Spoils
  <2> QED BY <1>0, <1>2, <1>3, <1>5, <2>1, FailsShown, FailsWhere
<1>6. ASSUME UNCHANGED <<call, eep_pdi, cache, plan, spoiled>>, NoAnswer
      PROVE  AnswerInv'
  <2>1. CallInv' /\ (s \in spoiled' \/ DevInv(s)')
      BY <1>0, <1>1, <1>6 DEF AnswerInv, CallInv, DevInv, InCall, Worked, Free, Asked, Field, Released, cache
  <2>2. Shown'
      BY <1>0, <1>6, ShownStays DEF AnswerInv
  <2> QED BY <1>1, <1>3, <1>6, <2>1, <2>2
<1> QED BY <1>4, <1>5, <1>6 DEF Wait, Waits

LEMMA ClearAnswers == IInv /\ AnswerInv /\ Clear => AnswerInv'
<1> SUFFICES ASSUME IInv, AnswerInv, Clear PROVE AnswerInv'
    OBVIOUS
<1>0. call.at = "clear" /\ UNCHANGED <<mem, written, calls>> /\ call.at \in Work
    BY DEF Clear, At, Work
<1> PICK s \in Slaves : s = slave
    BY <1>0, CallFacts
<1>1. /\ TypeOK /\ call \in CallRecord /\ call.op # "none" /\ (s \in spoiled \/ Free(s))
      /\ call.s = s /\ CallInv /\ call.nacks < NACKS
    BY <1>0, CallFacts DEF Worked, AnswerInv, CallInv, slave
<1>2. PICK o \in Outcomes : Sends(o, Cleared)
    BY DEF Clear
<1>3. /\ \A t \in Slaves \ {s} : dev'[t] = dev[t]
      /\ dev'[s].busy = dev[s].busy
  <2>1. dev[s] \in Device(s) /\ Cleared(dev[s]).busy = dev[s].busy
      BY <1>1 DEF TypeOK, Device, Cleared
  <2> QED BY <1>1, <1>2, <2>1, FrameSent DEF Sends
<1>4. PICK to \in {"word", "command"} : Onto(s, to) /\ (to = "command" => call.op # "write")
    BY <1>1, GoesOnto DEF Clear, Attempt
<1>5. NoAnswer /\ UNCHANGED <<eep_pdi, cache, plan, spoiled>>
    BY DEF Clear
<1>6. CallInv'
    BY <1>0, <1>1, <1>4, <1>5, WorksOn DEF Work, cache, slave
<1>7. Shown'
    BY <1>0, <1>5, ShownStays DEF AnswerInv
<1>8. s \in spoiled' \/ DevInv(s)'
    BY <1>1, <1>3, <1>4, <1>5 DEF DevInv, InCall, Worked, Free, Onto
<1> QED BY <1>0, <1>1, <1>3, <1>4, <1>5, <1>6, <1>7, <1>8, OwnSlave DEF Onto

LEMMA WordAnswers == IInv /\ AnswerInv /\ Word => AnswerInv'
<1> SUFFICES ASSUME IInv, AnswerInv, Word PROVE AnswerInv'
    OBVIOUS
<1> PICK o \in Outcomes :
        /\ Sends(o, Loaded)
        /\ \/ Retries(o)
           \/ /\ Ended(o) /\ Go("command") /\ Spoils(o # "ok")
              /\ NoAnswer /\ UNCHANGED <<eep_pdi, cache, plan>>
    BY DEF Word
<1>0. call.at = "word" /\ UNCHANGED <<mem, written, calls>> /\ call.at \in Work
    BY DEF Word, At, Work
<1> PICK s \in Slaves : s = slave
    BY <1>0, CallFacts
<1>1. /\ TypeOK /\ call \in CallRecord /\ call.op # "none" /\ (s \in spoiled \/ Free(s))
      /\ call.s = s /\ CallInv /\ call.nacks < NACKS
    BY <1>0, CallFacts DEF Worked, AnswerInv, CallInv, slave
<1>2. /\ Loaded(dev[s]).busy = dev[s].busy
      /\ Takes(dev[s]) => Loaded(dev[s]).data[1] = New
  <2>1. dev[s] \in Device(s) /\ 1 \in 1 .. Chunk[s]
      BY <1>1, Sizes DEF TypeOK
  <2> QED BY <2>1 DEF Device, Loaded
<1>3. /\ \A t \in Slaves \ {s} : dev'[t] = dev[t]
      /\ dev'[s].busy = dev[s].busy
      /\ o = "ok" => dev'[s] = Loaded(dev[s])
    BY <1>1, <1>2, FrameSent DEF Sends
<1>4. s \in spoiled \/ Takes(dev[s])
    BY <1>0, <1>1, MasterOwns DEF Takes, Free
<1>5. /\ \/ Onto(s, "word")
         \/ Onto(s, "command") /\ (o = "ok" \/ s \in spoiled')
      /\ NoAnswer /\ UNCHANGED <<eep_pdi, cache, plan>> /\ spoiled \subseteq spoiled'
    BY <1>0, <1>1, GoesOnto, RetriesOnto DEF Retries, Spoils
<1>6. CallInv'
    BY <1>0, <1>1, <1>5, WorksOn DEF Work, cache, slave
<1>7. Shown'
    BY <1>0, <1>5, ShownStays DEF AnswerInv
<1>8. s \in spoiled' \/ DevInv(s)'
    BY <1>1, <1>2, <1>3, <1>4, <1>5 DEF DevInv, InCall, Worked, Free, Onto
<1> QED BY <1>0, <1>1, <1>3, <1>5, <1>6, <1>7, <1>8, OwnSlave DEF Onto

LEMMA CommandAnswers == IInv /\ AnswerInv /\ Command => AnswerInv'
<1> SUFFICES ASSUME IInv, AnswerInv, Command PROVE AnswerInv'
    OBVIOUS
<1> PICK o \in Outcomes :
        /\ Sends(o, Commanded)
        /\ \/ Retries(o)
           \/ /\ Ended(o) /\ Spoils(o # "ok")
              /\ IF Truthy(o) /\ call.op # "request"
                 THEN Go("settle") /\ NoAnswer /\ UNCHANGED <<eep_pdi, cache, plan>>
                 ELSE AgainOrFails
    BY DEF Command
<1>0. call.at = "command" /\ UNCHANGED <<mem, written, calls>> /\ call.at \in Work
    BY DEF Command, At, Work
<1> PICK s \in Slaves, w \in Words : s = slave /\ w = call.w
    BY <1>0, CallFacts
<1>1. /\ TypeOK /\ call \in CallRecord /\ call.op # "none"
      /\ call.s = s /\ CallInv /\ call.nacks < NACKS
      /\ \/ s \in spoiled
         \/ (Free(s) \/ Sent(s)) /\ (call.op = "write" => dev[s].data[1] = New)
    BY <1>0, CallFacts DEF Worked, AnswerInv, CallInv, slave
<1> DEFINE kind == IF call.op = "write" THEN "write" ELSE "read"
<1>2. \/ s \in spoiled
      \/ /\ Commanded(dev[s]).busy = kind /\ Commanded(dev[s]).addr = w
         /\ Commanded(dev[s]).data = dev[s].data
  <2>1. s \in spoiled \/ Takes(dev[s]) \/ Sent(s)
      BY <1>0, <1>1, MasterOwns DEF Takes, Free
  <2>2. dev[s] \in Device(s)
      BY <1>1 DEF TypeOK
  <2>3. CASE Takes(dev[s])
      BY <2>2, <2>3 DEF Commanded, Device
  <2>4. CASE ~Takes(dev[s]) /\ Sent(s)
      BY <2>2, <2>4 DEF Commanded, Sent
  <2> QED BY <2>1, <2>3, <2>4
<1>3. /\ \A t \in Slaves \ {s} : dev'[t] = dev[t]
      /\ dev'[s] = dev[s] \/ dev'[s] = Commanded(dev[s])
      /\ o = "ok" => dev'[s] = Commanded(dev[s])
    BY <1>1, FrameSent DEF Sends
<1>4. \/ s \in spoiled
      \/ /\ Free(s)' \/ (dev'[s].busy = kind /\ dev'[s].addr = w)
         /\ call.op = "write" => dev'[s].data[1] = New
         /\ o = "ok" => dev'[s].busy = kind /\ dev'[s].addr = w
    BY <1>1, <1>2, <1>3 DEF Free, Sent
<1>5. spoiled \subseteq spoiled' /\ UNCHANGED plan
  <2>1. AgainOrFails => UNCHANGED plan
      BY DEF AgainOrFails, Fails, Returns
  <2> QED BY <2>1 DEF Retries, Spoils
<1>6. ASSUME CallInv', Shown', call'.op = "none" \/ call'.s = s, s \in spoiled' \/ DevInv(s)'
      PROVE  AnswerInv'
    BY <1>0, <1>1, <1>3, <1>5, <1>6, OwnSlave
<1>7. ASSUME NoAnswer, UNCHANGED <<eep_pdi, cache>>, Onto(s, "command")
      PROVE  AnswerInv'
  <2>1. CallInv'
      BY <1>0, <1>1, <1>5, <1>7, WorksOn DEF Work, cache, slave
  <2>2. Shown'
      BY <1>0, <1>5, <1>7, ShownStays DEF AnswerInv
  <2>3. s \in spoiled' \/ DevInv(s)'
      BY <1>1, <1>4, <1>5, <1>7 DEF DevInv, InCall, Worked, Free, Sent, Onto
  <2> QED BY <1>6, <1>7, <2>1, <2>2, <2>3 DEF Onto
<1>8. CASE Retries(o)
    BY <1>0, <1>1, <1>7, <1>8, RetriesOnto DEF Retries
<1>9. CASE Spoils(o # "ok") /\ Go("settle") /\ call.op # "request"
           /\ NoAnswer /\ UNCHANGED <<eep_pdi, cache, plan>>
  <2>1. Onto(s, "settle")
      BY <1>1, <1>9, GoesOnto
  <2>2. CallInv'
      BY <1>0, <1>1, <1>9, <2>1, WorksOn DEF Work, cache, slave
  <2>3. Shown'
      BY <1>0, <1>5, <1>9, ShownStays DEF AnswerInv
  <2>4. o = "ok" \/ s \in spoiled'
      BY <1>9 DEF Spoils
  <2>5. s \in spoiled' \/ DevInv(s)'
      BY <1>1, <1>4, <1>5, <2>1, <2>4 DEF DevInv, InCall, Worked, Reading, Writing, Onto
  <2> QED BY <1>6, <2>1, <2>2, <2>3, <2>5 DEF Onto
<1>10. CASE Spoils(o # "ok") /\ AgainOrFails /\ ~(Truthy(o) /\ call.op # "request")
  <2>1. (o = "ok" /\ call.op = "request") \/ s \in spoiled'
      BY <1>10 DEF Spoils, Truthy
  <2>2. CASE call.nacks > 0
    <3>1. Go(Attempt) /\ NoAnswer /\ UNCHANGED <<eep_pdi, cache>>
        BY <1>10, <2>2 DEF AgainOrFails
    <3>2. CASE call.op # "write"
        BY <1>1, <1>7, <3>1, <3>2, GoesOnto DEF Attempt
    <3>3. CASE call.op = "write"
      <4>1. Onto(s, "word") /\ s \in spoiled'
          BY <1>1, <2>1, <3>1, <3>3, GoesOnto DEF Attempt
      <4>2. CallInv'
          BY <1>0, <1>1, <1>5, <3>1, <3>3, <4>1, WorksOn DEF Work, cache, slave
      <4>3. Shown'
          BY <1>0, <1>5, <3>1, ShownStays DEF AnswerInv
      <4> QED BY <1>6, <4>1, <4>2, <4>3 DEF Onto
    <3> QED BY <3>2, <3>3
  <2>3. CASE ~(call.nacks > 0)
    <3>1. Fails
        BY <1>10, <2>3 DEF AgainOrFails
    <3>2. CallInv' /\ Shown' /\ (call'.op = "none" \/ call'.s = s)
        BY <1>0, <1>5, <2>1, <3>1, FailsShown, FailsWhere
    <3>3. s \in spoiled' \/ DevInv(s)'
      <4> SUFFICES ASSUME s \notin spoiled'
                   PROVE  DevInv(s)'
          OBVIOUS
      <4>1. o = "ok" /\ call.op = "request" /\ call' = Idle
          BY <2>1, <3>1 DEF Fails, Ends
      <4>2. Reading(s, w)'
          BY <1>4, <1>5, <4>1 DEF Reading
      <4> QED BY <1>1, <1>5, <4>1, <4>2, EndedDev
    <3> QED BY <1>6, <3>2, <3>3
  <2> QED BY <2>2, <2>3
<1> QED BY <1>8, <1>9, <1>10
LEMMA SettledHow ==
    ASSUME NEW nack, Settled(nack)
    PROVE  /\ nack /\ call.op # "collect" => Refused
           /\ ~nack /\ call.op = "write" =>
                  Answer(call.w, New, "write") /\ Ends /\ UNCHANGED <<eep_pdi, cache, plan>>
           /\ ~(nack /\ call.op # "collect") /\ ~(call.op = "write" /\ ~nack) =>
                  /\ call' = [call EXCEPT !.at = "data", !.tries = 0, !.nacks = 0]
                  /\ NoAnswer /\ UNCHANGED <<eep_pdi, cache, plan>>
BY DEF Settled

LEMMA SettleAnswers == IInv /\ AnswerInv /\ Settle => AnswerInv'
<1> SUFFICES ASSUME IInv, AnswerInv, Settle PROVE AnswerInv'
    OBVIOUS
<1>0. call.at = "settle" /\ UNCHANGED <<mem, written, calls, dev>> /\ call.at \in Work
    BY DEF Settle, At, Waits, Work
<1> PICK s \in Slaves, w \in Words : s = slave /\ w = call.w
    BY <1>0, CallFacts
<1>1. /\ TypeOK /\ call \in CallRecord /\ call.op \notin {"none", "request"}
      /\ call.s = s /\ CallInv /\ call.nacks < NACKS /\ call.nacks \in Nat
      /\ s \in spoiled \/ (IF call.op = "write" THEN Writing(s, w) ELSE Reading(s, w))
    BY <1>0, CallFacts DEF Worked, AnswerInv, CallInv, slave
<1>2. spoiled \subseteq spoiled'
    BY DEF Settle, Waits, Spoils
<1>3. plan' = plan
  <2>1. Fails => plan' = plan
      BY DEF Fails, Returns
  <2>2. AgainOrFails => plan' = plan
      BY <2>1 DEF AgainOrFails
  <2>3. \A nack : Settled(nack) => plan' = plan
      BY <2>1 DEF Settled, Refused
  <2> QED BY <2>2, <2>3 DEF Settle, Waits
<1>4. ASSUME CallInv', Shown', call'.op = "none" \/ call'.s = s, s \in spoiled' \/ DevInv(s)'
      PROVE  AnswerInv'
    BY <1>0, <1>1, <1>2, <1>3, <1>4, OwnSlave
<1>5. ASSUME NEW to \in {"word", "command", "data"}, Onto(s, to),
             s \in spoiled' \/ Free(s),
             to = "command" => call.op # "write",
             to = "data" => s \in spoiled' \/ dev[s].data = Contents(s, w),
             NoAnswer, UNCHANGED <<eep_pdi, cache>>
      PROVE  AnswerInv'
  <2>1. CallInv'
      BY <1>0, <1>1, <1>3, <1>5, WorksOn DEF Work, cache, slave
  <2>2. Shown'
      BY <1>0, <1>2, <1>3, <1>5, ShownStays DEF AnswerInv
  <2>3. Free(s)' = Free(s) /\ Contents(s, w)' = Contents(s, w)
      BY <1>0, SameContents DEF Free
  <2>4. s \in spoiled' \/ DevInv(s)'
      BY <1>0, <1>1, <1>5, <2>3 DEF DevInv, InCall, Worked, Onto
  <2> QED BY <1>4, <1>5, <2>1, <2>2, <2>4 DEF Onto
<1>6. ASSUME Fails, s \in spoiled'
      PROVE  AnswerInv'
    BY <1>0, <1>2, <1>4, <1>6, FailsShown, FailsWhere
<1>7. ASSUME NEW nack, nack \in BOOLEAN, Settled(nack),
             s \in spoiled' \/ (Free(s) /\ nack = dev[s].nack /\ ~GivesUp(nack))
      PROVE  AnswerInv'
  <2>1. CASE nack /\ call.op # "collect"
    <3>1. Refused
        BY <1>7, <2>1, SettledHow
    <3>2. CASE call.nacks + 1 < NACKS
      <4>1. PICK to \in {"word", "command"} : to = Attempt /\ (to = "command" => call.op # "write")
          BY DEF Attempt
      <4>2. call' = [call EXCEPT !.at = to, !.tries = 0, !.nacks = call.nacks + 1]
          BY <3>1, <3>2, <4>1 DEF Refused
      <4>3. Onto(s, to)
          BY <1>1, <3>2, <4>2 DEF Onto, CallRecord
      <4>4. NoAnswer /\ UNCHANGED <<eep_pdi, cache>>
          BY <3>1, <3>2 DEF Refused
      <4> QED BY <1>5, <1>7, <4>1, <4>3, <4>4
    <3>3. CASE ~(call.nacks + 1 < NACKS)
      <4>1. call.nacks + 1 = NACKS
          BY <1>1, <3>3, Sizes
      <4>2. s \in spoiled'
          BY <1>0, <1>7, <2>1, <4>1 DEF GivesUp
      <4> QED BY <1>6, <3>1, <3>3, <4>2 DEF Refused
    <3> QED BY <3>2, <3>3
  <2>2. CASE call.op = "write" /\ ~nack
    <3>1. Answer(call.w, New, "write") /\ call' = Idle /\ UNCHANGED <<eep_pdi, cache, plan>>
        BY <1>7, <2>2, SettledHow DEF Ends
    <3>2. s \in spoiled' \/ (Free(s) /\ mem[s][w] = New)
        BY <1>1, <1>2, <1>7, <2>2 DEF Writing, Free
    <3>3. CallInv' /\ call'.op = "none"
        BY <3>1, EndsCall
    <3>4. FlagInv' /\ CacheInv'
        BY <1>0, <1>2, <3>1 DEF AnswerInv, Shown, FlagInv, Released, CacheInv, cache
    <3>5. AnswersAreRight'
        BY <1>0, <3>1, <3>2 DEF Answer, AnswersAreRight
    <3>6. s \in spoiled' \/ DevInv(s)'
      <4>1. s \in spoiled' \/ Free(s)'
          BY <1>0, <3>2 DEF Free
      <4> QED BY <1>1, <1>3, <2>2, <3>1, <4>1, EndedDev
    <3> QED BY <1>4, <3>3, <3>4, <3>5, <3>6 DEF Shown
  <2>3. CASE ~(nack /\ call.op # "collect") /\ ~(call.op = "write" /\ ~nack)
    <3>1. /\ call' = [call EXCEPT !.at = "data", !.tries = 0, !.nacks = 0]
          /\ NoAnswer /\ UNCHANGED <<eep_pdi, cache, plan>>
        BY <1>7, <2>3, SettledHow
    <3>2. Onto(s, "data")
        BY <1>1, <3>1, Sizes DEF Onto, CallRecord
    <3>3. s \in spoiled' \/ (Free(s) /\ dev[s].data = Contents(s, w))
      <4>1. CASE nack
          BY <1>0, <1>7, <2>3, <4>1 DEF GivesUp
      <4>2. CASE ~nack
          BY <1>1, <1>2, <1>7, <2>3, <4>2 DEF Reading, Free
      <4> QED BY <4>1, <4>2
    <3> QED BY <1>5, <3>1, <3>2, <3>3
  <2> QED BY <2>1, <2>2, <2>3
<1>8. ASSUME Spoils(TRUE), AgainOrFails
      PROVE  AnswerInv'
  <2>1. s \in spoiled'
      BY <1>8 DEF Spoils
  <2>2. CASE call.nacks > 0
    <3>1. PICK to \in {"word", "command"} : to = Attempt /\ (to = "command" => call.op # "write")
        BY DEF Attempt
    <3>2. Onto(s, to) /\ NoAnswer /\ UNCHANGED <<eep_pdi, cache>>
        BY <1>1, <1>8, <2>2, <3>1, GoesOnto DEF AgainOrFails
    <3> QED BY <1>5, <2>1, <3>1, <3>2
  <2>3. CASE ~(call.nacks > 0)
      BY <1>6, <1>8, <2>1, <2>3 DEF AgainOrFails
  <2> QED BY <2>2, <2>3
<1>9. ASSUME UNCHANGED <<call, eep_pdi, cache, plan, spoiled>>, NoAnswer
      PROVE  AnswerInv'
  <2>1. CallInv'
      BY <1>0, <1>1, <1>9 DEF CallInv, Asked, Field, Released, cache
  <2>2. Shown'
      BY <1>0, <1>9, ShownStays DEF AnswerInv
  <2>3. s \in spoiled' \/ DevInv(s)'
      BY <1>0, <1>1, <1>9, SameContents DEF DevInv, InCall, Worked, Reading, Writing, Free
  <2> QED BY <1>1, <1>4, <1>9, <2>1, <2>2, <2>3
<1>10. dev[s].nack \in BOOLEAN
    BY <1>1 DEF TypeOK, Device
<1>11. ASSUME dev[slave].busy = "no", Settled(dev[slave].nack), Spoils(GivesUp(dev[slave].nack))
       PROVE  AnswerInv'
  <2>1. s \in spoiled' \/ ~GivesUp(dev[s].nack)
      BY <1>11 DEF Spoils
  <2> QED BY <1>7, <1>10, <1>11, <2>1 DEF Free
<1>12. ASSUME Spoils(TRUE), Settled(FALSE)
       PROVE  AnswerInv'
  <2>1. s \in spoiled' /\ FALSE \in BOOLEAN
      BY <1>12 DEF Spoils
  <2> QED BY <1>7, <1>12, <2>1
<1> QED BY <1>8, <1>9, <1>11, <1>12 DEF Settle, Waits

LEMMA DataAnswers == IInv /\ AnswerInv /\ Data => AnswerInv'
<1> SUFFICES ASSUME IInv, AnswerInv, Data PROVE AnswerInv'
    OBVIOUS
<1> PICK o \in Outcomes :
        /\ Sends(o, Unchanged)
        /\ \/ Retries(o)
           \/ /\ Ended(o) /\ Spoils(o # "ok")
              /\ Returns(IF o = "ok" THEN dev[slave].data ELSE NoChunk(slave))
    BY DEF Data
<1>0. call.at = "data" /\ UNCHANGED <<mem, written, calls>> /\ call.at \in Work
    BY DEF Data, At, Work
<1> PICK s \in Slaves, w \in Words : s = slave /\ w = call.w
    BY <1>0, CallFacts
<1>1. /\ TypeOK /\ call \in CallRecord /\ call.op \notin {"none", "request"}
      /\ call.s = s /\ CallInv /\ call.nacks < NACKS
      /\ s \in spoiled \/ (Free(s) /\ dev[s].data = Contents(s, w))
    BY <1>0, CallFacts DEF Worked, AnswerInv, CallInv, slave
<1>2. dev' = dev
    BY <1>1 DEF Sends, Unchanged, TypeOK
<1>3. ASSUME spoiled \subseteq spoiled', plan' = plan, CallInv', Shown',
             call'.op = "none" \/ call'.s = s, s \in spoiled' \/ DevInv(s)'
      PROVE  AnswerInv'
    BY <1>0, <1>1, <1>2, <1>3, OwnSlave
<1>4. CASE Retries(o)
  <2>1. Onto(s, "data") /\ NoAnswer /\ UNCHANGED <<spoiled, eep_pdi, cache, plan>>
      BY <1>0, <1>1, <1>4, RetriesOnto DEF Retries
  <2>2. CallInv'
      BY <1>0, <1>1, <2>1, WorksOn DEF Work, cache, slave
  <2>3. Shown'
      BY <1>0, <2>1, ShownStays DEF AnswerInv
  <2>4. s \in spoiled' \/ DevInv(s)'
      BY <1>0, <1>1, <1>2, <2>1, SameContents DEF DevInv, InCall, Worked, Free, Onto
  <2> QED BY <1>3, <2>1, <2>2, <2>3, <2>4 DEF Onto
<1>5. CASE Spoils(o # "ok") /\ Returns(IF o = "ok" THEN dev[slave].data ELSE NoChunk(slave))
  <2> DEFINE chunk == IF o = "ok" THEN dev[slave].data ELSE NoChunk(slave)
  <2>1. Returns(chunk) /\ spoiled \subseteq spoiled' /\ plan' = plan
      BY <1>5 DEF Spoils, Returns
  <2>2. s \in spoiled' \/ chunk = Contents(s, w)
      BY <1>1, <1>5 DEF Spoils
  <2> HIDE DEF chunk
  <2>3. CallInv' /\ Shown'
      BY <1>0, <2>1, <2>2, ReturnsShown
  <2>4. s \in spoiled' \/ Free(s)'
      BY <1>1, <1>2, <2>1 DEF Free
  <2>5. CASE call.op = "sii"
    <3>1. call' = [call EXCEPT !.at = "bytes", !.tries = 0, !.nacks = 0]
        BY <2>1, <2>5 DEF Returns
    <3>2. call'.s = s /\ call'.op = "sii" /\ call'.at = "bytes"
        BY <1>1, <2>5, <3>1 DEF CallRecord
    <3>3. s \in spoiled' \/ DevInv(s)'
        BY <2>4, <3>2 DEF DevInv, InCall, Worked
    <3> QED BY <1>3, <2>1, <2>3, <3>2, <3>3
  <2>6. CASE call.op # "sii"
    <3>1. call' = Idle /\ call'.op = "none"
        BY <2>1, <2>6, EndsCall DEF Returns, Ends
    <3>2. s \in spoiled' \/ DevInv(s)'
        BY <1>1, <2>1, <2>4, <3>1, EndedDev
    <3> QED BY <1>3, <2>1, <2>3, <3>1, <3>2
  <2> QED BY <2>5, <2>6
<1> QED BY <1>4, <1>5

LEMMA GetByteAnswers == IInv /\ AnswerInv /\ GetByte => AnswerInv'
<1> SUFFICES ASSUME IInv, AnswerInv, GetByte PROVE AnswerInv'
    OBVIOUS
<1>0. /\ call.at = "bytes" /\ UNCHANGED <<mem, dev, eep_pdi, plan, spoiled>>
      /\ esislave' = slave /\ written' = IF slave = esislave THEN written ELSE {}
    BY DEF GetByte, At
<1> PICK s \in Slaves : s = slave
    BY <1>0, CallFacts
<1>1. /\ TypeOK /\ call \in CallRecord /\ call.op = "sii" /\ (s \in spoiled \/ Free(s))
      /\ call.s = s /\ CallInv /\ call.nacks < NACKS /\ call.w \in Words
    BY <1>0, CallFacts DEF Worked, AnswerInv, CallInv, slave
<1>2. esimap' = Kept /\ DOMAIN Kept \subseteq Words
  <2>1. DOMAIN <<>> = {}
      OBVIOUS
  <2> QED BY <2>1 DEF GetByte, Kept, AnswerInv, Shown, CacheInv
<1>3. ASSUME NEW w \in DOMAIN Kept, s \notin spoiled
      PROVE  Kept[w] = mem[s][w] \/ <<s, w>> \in written'
  <2>1. s = esislave /\ Kept = esimap
    <3>1. DOMAIN <<>> = {}
        OBVIOUS
    <3> QED BY <1>3, <3>1 DEF Kept
  <2> QED BY <1>0, <1>3, <2>1 DEF AnswerInv, Shown, CacheInv
<1>4. /\ call'.op = "sii" /\ call'.s = s /\ call'.nacks < NACKS /\ call'.w \in Words
      /\ \/ call'.at = "bytes" \/ call'.at = "force"
         \/ call'.at = "wait" /\ s \notin eep_pdi
  <2>1. PICK w \in Words :
           \/ call' = [call EXCEPT !.left = @ - 1]
           \/ call' = [call EXCEPT !.w = w, !.left = @ - 1, !.tries = 0, !.nacks = 0,
                                   !.at = IF slave \in eep_pdi THEN "force" ELSE "wait"]
      BY DEF GetByte
  <2>2. CASE call' = [call EXCEPT !.left = @ - 1]
      BY <1>0, <1>1, <2>2 DEF CallRecord
  <2>3. CASE call' = [call EXCEPT !.w = w, !.left = @ - 1, !.tries = 0, !.nacks = 0,
                                  !.at = IF slave \in eep_pdi THEN "force" ELSE "wait"]
      BY <1>0, <1>1, <2>3, Sizes DEF CallRecord
  <2> QED BY <2>1, <2>2, <2>3
<1>5. CallInv'
  <2>1. Asked(plan, s)' = Asked(plan, s) /\ Released' = Released
      BY <1>0 DEF Asked, Released
  <2> QED BY <1>0, <1>1, <1>4, <2>1 DEF CallInv, Work
<1>6. FlagInv'
    BY <1>0 DEF AnswerInv, Shown, FlagInv, Released
<1>7. CacheInv'
    BY <1>0, <1>2, <1>3 DEF CacheInv
<1>8. AnswersAreRight'
  <2>1. \/ NoAnswer
        \/ \E w \in DOMAIN Kept : Answer(w, Kept[w], "cache")
      BY DEF GetByte
  <2>2. CASE NoAnswer
      BY <2>2 DEF NoAnswer, Silent, AnswersAreRight, Slaves
  <2>3. CASE \E w \in DOMAIN Kept : Answer(w, Kept[w], "cache")
      BY <1>0, <1>3, <2>3 DEF Answer, AnswersAreRight
  <2> QED BY <2>1, <2>2, <2>3
<1>9. s \in spoiled' \/ DevInv(s)'
    BY <1>0, <1>1, <1>4 DEF DevInv, InCall, Worked, Free
<1> QED BY <1>0, <1>1, <1>4, <1>5, <1>6, <1>7, <1>8, <1>9, OwnSlave DEF Shown

LEMMA FoundAnswers == IInv /\ AnswerInv /\ Found => AnswerInv'
<1> SUFFICES ASSUME IInv, AnswerInv, Found PROVE AnswerInv'
    OBVIOUS
<1>0. /\ call.at = "bytes" /\ UNCHANGED <<mem, written, dev, eep_pdi, cache, plan, spoiled>>
      /\ NoAnswer /\ (Go("give") \/ call' = Idle)
    BY DEF Found, At, Ends
<1> PICK s \in Slaves : s = slave
    BY <1>0, CallFacts
<1>1. /\ TypeOK /\ call \in CallRecord /\ call.op = "sii" /\ (s \in spoiled \/ Free(s))
      /\ call.s = s /\ CallInv /\ call.nacks < NACKS
    BY <1>0, CallFacts DEF Worked, AnswerInv, CallInv, slave
<1>2. Onto(s, "give") \/ call' = Idle
    BY <1>0, <1>1, GoesOnto
<1>3. CallInv'
  <2>1. CASE Onto(s, "give")
    <3>1. Asked(plan, s)' = Asked(plan, s) /\ Released' = Released
        BY <1>0 DEF Asked, Released
    <3> QED BY <1>1, <2>1, <3>1 DEF CallInv, Onto, Work
  <2> QED BY <1>2, <2>1, EndsCall
<1>4. Shown'
    BY <1>0, ShownStays DEF AnswerInv
<1>5. s \in spoiled' \/ DevInv(s)'
  <2>1. s \in spoiled' \/ Free(s)'
      BY <1>0, <1>1 DEF Free
  <2>2. CASE Onto(s, "give")
      BY <1>1, <2>1, <2>2 DEF DevInv, InCall, Worked, Onto
  <2>3. CASE call' = Idle
      BY <1>0, <1>1, <2>1, <2>3, EndedDev
  <2> QED BY <1>2, <2>2, <2>3
<1>6. call'.op = "none" \/ call'.s = s
    BY <1>2, EndsCall DEF Onto
<1> QED BY <1>0, <1>1, <1>3, <1>4, <1>5, <1>6, OwnSlave
-----------------------------------------------------------------------------
(* Between calls.                                                          *)
LEMMA DefaultAnswers == IInv /\ AnswerInv /\ SetToDefault => AnswerInv'
<1> SUFFICES ASSUME IInv, AnswerInv, SetToDefault PROVE AnswerInv'
    OBVIOUS
<1> PICK got \in SUBSET Slaves :
        /\ spoiled' = spoiled \cup (Slaves \ got)
        /\ dev' = [s \in Slaves |-> IF s \in got THEN Default(dev[s]) ELSE dev[s]]
    BY DEF SetToDefault
<1>1. /\ TypeOK /\ call.at = "default" /\ call.op = "none" /\ call' = Idle /\ plan = ConfigInit
      /\ UNCHANGED <<mem, written, eep_pdi, cache, plan>> /\ NoAnswer
    BY DEF IInv, AnswerInv, CallInv, SetToDefault, At, Ends
<1>2. CallInv' /\ call'.op = "none"
    BY <1>1, EndsCall
<1>3. Shown'
    BY <1>1, ShownStays DEF AnswerInv
<1>4. ASSUME NEW s \in Slaves \ spoiled'
      PROVE  DevInv(s)'
  <2>1. ~InCall(s) /\ ~InCall(s)' /\ ~Asked(plan, s) /\ ~Asked(plan, s)'
      BY <1>1, <1>2, NothingAsked DEF InCall
  <2>2. Free(s)
      BY <1>4, <2>1 DEF AnswerInv, DevInv
  <2>3. dev'[s].busy = dev[s].busy
    <3>1. dev[s] \in Device(s)
        BY <1>1 DEF TypeOK
    <3>2. Default(dev[s]).busy = dev[s].busy
        BY <3>1 DEF Default, Forced, Granted, Device
    <3> QED BY <3>2
  <2> QED BY <2>1, <2>2, <2>3 DEF DevInv, Free
<1> QED BY <1>2, <1>3, <1>4 DEF AnswerInv

(* How a call starts.                                                      *)
LEMMA StartHow ==
    ASSUME NEW c \in CallRecord, c.nacks = 0
    PROVE  \/ StartOf(c) = Idle
           \/ /\ StartOf(c).op = c.op /\ StartOf(c).s = c.s /\ StartOf(c).w = c.w
              /\ StartOf(c).nacks < NACKS
              /\ \/ c.op = "sii" /\ StartOf(c).at = "bytes"
                 \/ c.op = "collect" /\ StartOf(c).at = "settle"
                 \/ c.op = "give" /\ StartOf(c).at = "give"
                 \/ c.op \notin {"sii", "collect", "give"} /\ c.s \in eep_pdi /\ StartOf(c).at = "force"
                 \/ c.op \notin {"sii", "collect", "give"} /\ c.s \notin eep_pdi /\ StartOf(c).at = "wait"
<1>0. 0 < NACKS
    BY Sizes
<1>1. CASE c.op = "sii"
  <2>1. StartOf(c) = [c EXCEPT !.at = "bytes", !.left = MaxBytes]
      BY <1>1, Zenon DEF StartOf
  <2> QED BY <1>0, <1>1, <2>1 DEF CallRecord
<1>2. CASE c.op = "collect"
  <2>1. StartOf(c) = [c EXCEPT !.at = "settle"]
      BY <1>2, Zenon DEF StartOf
  <2> QED BY <1>0, <1>2, <2>1 DEF CallRecord
<1>3. CASE c.op = "give"
  <2>1. StartOf(c) = IF c.s \in eep_pdi THEN Idle ELSE [c EXCEPT !.at = "give"]
      BY <1>3, Zenon DEF StartOf
  <2>2. CASE c.s \notin eep_pdi
      BY <1>0, <1>3, <2>1, <2>2 DEF CallRecord
  <2> QED BY <2>1, <2>2
<1>4. CASE c.op \notin {"sii", "collect", "give"}
    BY <1>4, Sizes DEF StartOf, CallRecord
<1> QED BY <1>1, <1>2, <1>3, <1>4

(* ... and that it never is Idle if it reads or searches.                  *)
LEMMA StartNotIdle ==
    ASSUME NEW c \in CallRecord, c.op \in {"request", "collect", "sii"}
    PROVE  StartOf(c).op = c.op
BY DEF StartOf, CallRecord

LEMMA ConfigStepAnswers == IInv /\ AnswerInv /\ ConfigStep => AnswerInv'
<1> SUFFICES ASSUME IInv, AnswerInv, ConfigStep PROVE AnswerInv'
    OBVIOUS
<1>0. /\ TypeOK /\ call.op = "none" /\ plan \in Positions /\ plan # Done
      /\ plan' = After(plan) /\ NoAnswer
      /\ UNCHANGED <<mem, written, dev, eep_pdi, cache, spoiled>>
      /\ CallInv /\ FlagInv
    BY DEF IInv, TypeOK, AnswerInv, CallInv, Shown, ConfigStep, At
<1> PICK c \in CallRecord : c = Planned(plan) /\ call' = StartOf(c)
    BY <1>0, PlanStep DEF ConfigStep
<1>1. /\ c.nacks = 0 /\ c.op = plan.op /\ c.s = plan.s /\ c.w \in Words
      /\ c.op \in {"request", "collect", "sii", "give"} /\ c.s \in Slaves
      /\ c.op = "request" => c.w = plan.field /\ plan.field # Fields
      /\ c.op = "collect" => c.w = plan.field - 1
      /\ c.op \in {"sii", "give"} => plan.field = Fields
      /\ plan.op # "none"
  <2>2. plan.op = "request" => plan.field # Fields
      BY <1>0, Sizes DEF Positions
  <2>1. \A w \in 0 .. Fields - 1 : w \in Words
      BY Sizes DEF Words
  <2> QED BY <1>0, <2>1, <2>2, PlanStep DEF Positions
<1>2. /\ \A t \in Slaves \ {c.s} : /\ Asked(plan', t) <=> Asked(plan, t)
                                   /\ Asked(plan, t) => Field(plan', t) = Field(plan, t)
      /\ Asked(plan, c.s) <=> c.op = "collect"
      /\ Field(plan, c.s) = plan.field - 1
      /\ Asked(plan', c.s) <=> c.op = "request"
      /\ c.op = "request" => Field(plan', c.s) = plan.field
      /\ plan.field = Fields => plan'.op = "none" \/ plan'.field = Fields
    BY <1>0, <1>1, PlanAsks
<1>3. \/ call' = Idle /\ c.op = "give"
      \/ /\ call'.op = c.op /\ call'.s = c.s /\ call'.w = c.w /\ call'.nacks < NACKS
         /\ \/ c.op = "sii" /\ call'.at = "bytes"
            \/ c.op = "collect" /\ call'.at = "settle"
            \/ c.op = "give" /\ call'.at = "give"
            \/ c.op = "request" /\ call'.at = "wait"
  <2>1. c.op = "request" => eep_pdi = {}
      BY <1>0, <1>1 DEF FlagInv, Released
  <2>2. Idle.op = "none"
      BY DEF Idle
  <2> QED BY <1>1, <2>1, <2>2, StartHow, StartNotIdle
<1>4. CallInv'
  <2>1. CASE call' = Idle
      BY <2>1, EndsCall
  <2>2. CASE call' # Idle
    <3>1. c.op = "collect" => c.s \notin eep_pdi
        BY <1>0, <1>2 DEF FlagInv
    <3>2. c.op = "request" => c.s \notin eep_pdi
        BY <1>0, <1>1 DEF FlagInv, Released
    <3>3. c.op \in {"sii", "give"} => Released'
        BY <1>1, <1>2 DEF Released
    <3> QED BY <1>0, <1>1, <1>2, <1>3, <2>2, <3>1, <3>2, <3>3 DEF CallInv, Work
  <2> QED BY <2>1, <2>2
<1>5. Shown'
  <2>1. FlagInv'
    <3>1. eep_pdi # {} => plan.field = Fields
        BY <1>0, <1>1 DEF FlagInv, Released
    <3>2. eep_pdi # {} => Released'
        BY <1>2, <3>1 DEF Released
    <3>3. \A t \in eep_pdi : ~Asked(plan', t)
        BY <1>0, <1>1, <1>2, <3>1 DEF FlagInv, TypeOK
    <3> QED BY <1>0, <3>2, <3>3 DEF FlagInv
  <2>2. CacheInv' /\ AnswersAreRight'
      BY <1>0 DEF AnswerInv, Shown, CacheInv, cache, NoAnswer, Silent, AnswersAreRight, Slaves
  <2> QED BY <2>1, <2>2 DEF Shown
<1>6. ASSUME NEW t \in Slaves \ spoiled'
      PROVE  DevInv(t)'
  <2>1. ~InCall(t) /\ DevInv(t)
      BY <1>0, <1>6 DEF InCall, AnswerInv
  <2>2. Free(t)' = Free(t) /\ \A w : Reading(t, w)' = Reading(t, w)
      BY <1>0, SameContents DEF Free, Reading
  <2>3. CASE t # c.s
    <3>1. ~InCall(t)'
        BY <1>3, <2>3, EndsCall DEF InCall
    <3> PICK f : f = Field(plan, t)
        OBVIOUS
    <3>2. Asked(plan, t) => Reading(t, f)'
        BY <2>1, <2>2 DEF DevInv
    <3>4. Asked(plan, t) => Field(plan, t)' = f
        BY <1>2, <2>3 DEF Field
    <3>5. Asked(plan, t)' <=> Asked(plan, t)
        BY <1>2, <2>3 DEF Asked
    <3>6. Asked(plan, t) => Reading(t, Field(plan, t))'
        BY <3>2, <3>4 DEF Reading
    <3>3. ~Asked(plan, t) => Free(t)'
        BY <2>1, <2>2 DEF DevInv
    <3> QED BY <3>1, <3>3, <3>5, <3>6 DEF DevInv
  <2>4. CASE t = c.s /\ call' = Idle
    <3>1. ~InCall(t)' /\ Free(t)' /\ ~Asked(plan', t)
        BY <1>2, <1>3, <2>1, <2>2, <2>4, EndsCall DEF InCall, DevInv
    <3> QED BY <3>1 DEF DevInv
  <2>5. CASE t = c.s /\ call' # Idle /\ c.op # "collect"
    <3>1. InCall(t)' /\ Free(t)' /\ call'.at \in {"bytes", "give", "wait"}
        BY <1>1, <1>2, <1>3, <2>1, <2>2, <2>5 DEF InCall, DevInv
    <3> QED BY <3>1 DEF DevInv, Worked
  <2>6. CASE t = c.s /\ call' # Idle /\ c.op = "collect"
    <3>1. InCall(t)' /\ call'.at = "settle" /\ call'.op = "collect" /\ call'.w = Field(plan, t)
        BY <1>1, <1>2, <1>3, <2>6 DEF InCall
    <3>2. Reading(t, Field(plan, t))
        BY <1>2, <2>1, <2>6 DEF DevInv
    <3> QED BY <1>0, <2>2, <3>1, <3>2, SameContents DEF DevInv, Worked, Reading, Free
  <2> QED BY <2>3, <2>4, <2>5, <2>6
<1> QED BY <1>4, <1>5, <1>6 DEF AnswerInv

LEMMA BeginAnswers == IInv /\ AnswerInv /\ Begin => AnswerInv'
<1> SUFFICES ASSUME IInv, AnswerInv, Begin PROVE AnswerInv'
    OBVIOUS
<1>0. /\ TypeOK /\ call.op = "none" /\ plan = Done /\ NoAnswer
      /\ UNCHANGED <<mem, written, dev, eep_pdi, cache, plan, spoiled>>
    BY DEF IInv, AnswerInv, CallInv, Begin
<1>1. PICK c \in CallRecord :
        /\ call' = StartOf(c) /\ c.nacks = 0 /\ c.w \in Words
        /\ c.op \in {"read", "write", "sii", "take", "give"}
  <2>0. Words \subseteq Nat
      BY Sizes DEF Words
  <2>1. ASSUME NEW op \in Ops, NEW s \in Slaves, NEW w \in Words
        PROVE  /\ Call(op, s, w, FALSE) \in CallRecord
               /\ Call(op, s, w, FALSE).op = op /\ Call(op, s, w, FALSE).w = w
               /\ Call(op, s, w, FALSE).nacks = 0
      BY <2>0, IdleType DEF Call, CallRecord, Idle
  <2>2. 0 \in Words /\ {"read", "write", "sii", "take", "give"} \subseteq Ops
      BY Sizes DEF Words, Ops
  <2>3. CASE \E op \in {"read", "write"}, s \in Slaves, w \in Words :
                call' = StartOf(Call(op, s, w, FALSE))
    <3> PICK op \in {"read", "write"}, s \in Slaves, w \in Words :
            call' = StartOf(Call(op, s, w, FALSE))
        BY <2>3
    <3>1. op \in Ops /\ op \in {"read", "write", "sii", "take", "give"}
        BY <2>2
    <3>2. /\ Call(op, s, w, FALSE) \in CallRecord
          /\ Call(op, s, w, FALSE).op = op /\ Call(op, s, w, FALSE).w = w
          /\ Call(op, s, w, FALSE).nacks = 0
        BY <2>1, <3>1
    <3> QED BY <3>1, <3>2
  <2>4. CASE \E s \in Slaves : call' = StartOf(Search(s, s \in eep_pdi))
    <3> PICK s \in Slaves : call' = StartOf(Search(s, s \in eep_pdi))
        BY <2>4
    <3>1. \A restore \in BOOLEAN :
             /\ Search(s, restore) \in CallRecord
             /\ Search(s, restore).op = "sii" /\ Search(s, restore).w \in Words
             /\ Search(s, restore).nacks = 0
        BY <2>0, <2>2, CallType DEF Search
    <3>2. (s \in eep_pdi) \in BOOLEAN
        OBVIOUS
    <3>3. /\ Search(s, s \in eep_pdi) \in CallRecord
          /\ Search(s, s \in eep_pdi).op = "sii" /\ Search(s, s \in eep_pdi).w \in Words
          /\ Search(s, s \in eep_pdi).nacks = 0
        BY <3>1, <3>2, Zenon
    <3> QED BY <3>3
  <2>5. CASE \E op \in {"take", "give"}, s \in Slaves : call' = StartOf(Call(op, s, 0, FALSE))
    <3> PICK op \in {"take", "give"}, s \in Slaves : call' = StartOf(Call(op, s, 0, FALSE))
        BY <2>5
    <3>1. op \in Ops /\ op \in {"read", "write", "sii", "take", "give"}
        BY <2>2
    <3>2. /\ Call(op, s, 0, FALSE) \in CallRecord
          /\ Call(op, s, 0, FALSE).op = op /\ Call(op, s, 0, FALSE).w = 0
          /\ Call(op, s, 0, FALSE).nacks = 0
        BY <2>1, <2>2, <3>1
    <3> QED BY <2>2, <3>1, <3>2
  <2> QED BY <2>3, <2>4, <2>5 DEF Begin
<1>2. \/ call' = Idle
      \/ /\ call'.op = c.op /\ call'.s = c.s /\ call'.w = c.w /\ call'.nacks < NACKS
         /\ \/ c.op = "sii" /\ call'.at = "bytes"
            \/ c.op = "give" /\ call'.at = "give"
            \/ c.op \notin {"sii", "give"} /\ call'.at = "force"
            \/ c.op \notin {"sii", "give"} /\ call'.at = "wait" /\ c.s \notin eep_pdi
    BY <1>1, StartHow
<1>3. c.s \in Slaves /\ ~Asked(plan', c.s) /\ Released'
    BY <1>0, NothingAsked DEF CallRecord, Released, Done
<1>4. CallInv'
  <2>1. CASE call' = Idle
      BY <2>1, EndsCall
  <2>2. CASE call' # Idle
      BY <1>0, <1>1, <1>2, <1>3, <2>2 DEF CallInv, Work
  <2> QED BY <2>1, <2>2
<1>5. Shown'
    BY <1>0, ShownStays DEF AnswerInv
<1>6. ASSUME NEW t \in Slaves \ spoiled'
      PROVE  DevInv(t)'
  <2>1. ~Asked(plan, t) /\ ~Asked(plan', t) /\ ~InCall(t)
      BY <1>0, <1>6, NothingAsked DEF InCall
  <2>2. Free(t)'
      BY <1>0, <1>6, <2>1 DEF AnswerInv, DevInv, Free
  <2>3. InCall(t)' => call'.at \in {"bytes", "give", "force", "wait"}
      BY <1>2, EndsCall DEF InCall
  <2> QED BY <2>1, <2>2, <2>3 DEF DevInv, Worked
<1> QED BY <1>4, <1>5, <1>6 DEF AnswerInv

(* A call that starts with the bus.                                        *)
LEMMA Fresh ==
    ASSUME plan' = ConfigInit, call' = [Idle EXCEPT !.at = "default"],
           eep_pdi' = {}, esislave' = 0, esimap' = <<>>, NoAnswer,
           \A s \in Slaves : dev'[s].busy = "no"
    PROVE  AnswerInv'
<1>1. /\ call'.op = "none" /\ call'.at = "default" /\ call'.w \in Words /\ call'.nacks < NACKS
    BY Sizes DEF Idle, Words
<1>2. CallInv'
    BY <1>1 DEF CallInv, Work
<1>3. Shown'
  <2>1. DOMAIN <<>> = {} /\ 0 \notin Slaves
      BY DEF Slaves
  <2> QED BY <2>1 DEF Shown, FlagInv, CacheInv, AnswersAreRight, NoAnswer, Silent
<1>4. ASSUME NEW s \in Slaves
      PROVE  DevInv(s)'
    BY <1>1, NothingAsked DEF DevInv, InCall, Free
<1> QED BY <1>2, <1>3, <1>4 DEF AnswerInv

LEMMA RestartAnswers == IInv /\ AnswerInv /\ Restart => AnswerInv'
<1> SUFFICES ASSUME IInv, Restart PROVE AnswerInv'
    OBVIOUS
<1>1. \A s \in Slaves : dev'[s].busy = "no"
  <2>1. \A s \in Slaves : dev[s] \in Device(s)
      BY DEF IInv, TypeOK
  <2> QED BY <2>1 DEF Restart, Device
<1> QED BY <1>1, Fresh DEF Restart
-----------------------------------------------------------------------------
(* The slaves.                                                             *)
LEMMA FinishAnswers ==
    ASSUME IInv, AnswerInv, NEW s \in Slaves, Finish(s)
    PROVE  AnswerInv'
<1>0. /\ TypeOK /\ UNCHANGED <<eep_pdi, cache, plan, call, spoiled>> /\ NoAnswer
      /\ ~Free(s)
    BY DEF IInv, Finish, NoAnswer, Free
<1>1. dev[s] \in Device(s) /\ dev \in [Slaves -> Devices] /\ mem \in [Slaves -> [Words -> Int]]
    BY <1>0 DEF TypeOK
<1>2. CallInv' /\ FlagInv'
    BY <1>0 DEF AnswerInv, CallInv, Shown, FlagInv, Asked, Field, Released, cache
<1>3. AnswersAreRight'
    BY <1>0 DEF NoAnswer, Silent, AnswersAreRight, Slaves
<1>4. \/ mem' = mem /\ written' = written
      \/ /\ mem' = [mem EXCEPT ![s][dev[s].addr] = dev[s].data[1]]
         /\ written' = written \cup {<<s, dev[s].addr>>}
    BY DEF Finish
<1>5. CacheInv'
  <2>1. \A t \in Slaves, w \in Words : mem'[t][w] = mem[t][w] \/ <<t, w>> \in written'
      BY <1>1, <1>4
  <2>2. written \subseteq written'
      BY <1>4
  <2> QED BY <1>0, <2>1, <2>2 DEF AnswerInv, Shown, CacheInv, cache
<1>6. ASSUME NEW t \in Slaves \ spoiled', t # s
      PROVE  DevInv(t)'
  <2>1. dev'[t] = dev[t] /\ mem'[t] = mem[t]
      BY <1>1, <1>4, <1>6 DEF Finish
  <2>2. \A w : Contents(t, w)' = Contents(t, w)
      BY <2>1 DEF Contents
  <2>3. DevInv(t)
      BY <1>0, <1>6 DEF AnswerInv
  <2>4. Asked(plan, t)' = Asked(plan, t) /\ Field(plan, t)' = Field(plan, t)
      BY <1>0 DEF Asked, Field
  <2> QED BY <1>0, <2>1, <2>2, <2>3, <2>4 DEF DevInv, InCall, Worked, Reading, Writing, Sent, Free
<1>7. ASSUME s \notin spoiled'
      PROVE  DevInv(s)'
  <2>1. DevInv(s)
      BY <1>0, <1>7 DEF AnswerInv
  <2>2. Asked(plan, s)' = Asked(plan, s) /\ Field(plan, s)' = Field(plan, s)
        /\ InCall(s)' = InCall(s)
      BY <1>0 DEF Asked, Field, InCall
  <2>3. CASE /\ dev[s].busy = "read" /\ mem' = mem
             /\ dev' = [dev EXCEPT ![s].busy = "no", ![s].data = Contents(s, dev[s].addr)]
    <3>1. dev'[s].busy = "no" /\ dev'[s].data = Contents(s, dev[s].addr)
        BY <1>1, <2>3 DEF Device
    <3>2. \A w : Contents(s, w)' = Contents(s, w)
        BY <2>3, SameContents
    <3> QED BY <1>0, <2>1, <2>2, <2>3, <3>1, <3>2
        DEF DevInv, Worked, Reading, Writing, Sent, Free
  <2>4. CASE /\ dev[s].busy = "write" /\ dev' = [dev EXCEPT ![s].busy = "no"]
             /\ mem' = [mem EXCEPT ![s][dev[s].addr] = dev[s].data[1]]
    <3>1. dev'[s].busy = "no" /\ dev'[s].data = dev[s].data
        BY <1>1, <2>4 DEF Device
    <3>2. /\ InCall(s) /\ call.op = "write" /\ call.at \in {"command", "settle"}
          /\ dev[s].addr = call.w /\ dev[s].data[1] = New /\ call.w \in Words
        BY <1>0, <2>1, <2>4 DEF DevInv, Worked, Reading, Writing, Sent, Free, AnswerInv, CallInv
    <3>3. mem'[s][call.w] = New
        BY <1>1, <2>4, <3>2
    <3> QED BY <1>0, <2>2, <3>1, <3>2, <3>3 DEF DevInv, Worked, Writing, Free
  <2>5. CASE mem' = mem /\ dev' = [dev EXCEPT ![s].busy = "no", ![s].nack = TRUE]
    <3>1. dev'[s].busy = "no" /\ dev'[s].nack /\ dev'[s].data = dev[s].data
        BY <1>1, <2>5 DEF Device
    <3> QED BY <1>0, <2>1, <2>2, <3>1 DEF DevInv, Worked, Reading, Writing, Sent, Free
  <2> QED BY <2>3, <2>4, <2>5 DEF Finish
<1> QED BY <1>2, <1>3, <1>5, <1>6, <1>7 DEF AnswerInv, Shown

LEMMA PdiUsesAnswers ==
    ASSUME IInv, AnswerInv, NEW s \in Slaves, PdiUses(s)
    PROVE  AnswerInv'
<1>0. /\ TypeOK /\ UNCHANGED <<mem, written, eep_pdi, cache, plan, call, spoiled>> /\ NoAnswer
      /\ Free(s) /\ dev[s].owner # "master"
    BY DEF IInv, PdiUses, NoAnswer, Free, env
<1>1. dev[s] \in Device(s) /\ dev \in [Slaves -> Devices]
    BY <1>0 DEF TypeOK
<1>2. CallInv'
    BY <1>0 DEF AnswerInv, CallInv, Asked, Field, Released, cache
<1>3. Shown'
    BY <1>0, ShownStays DEF AnswerInv
<1>4. \A t \in Slaves : Asked(plan, t)' = Asked(plan, t) /\ Field(plan, t)' = Field(plan, t)
                        /\ InCall(t)' = InCall(t)
    BY <1>0 DEF Asked, Field, InCall
<1>5. ASSUME NEW t \in Slaves \ spoiled', t # s
      PROVE  DevInv(t)'
  <2>1. dev'[t] = dev[t] /\ DevInv(t)
      BY <1>0, <1>1, <1>5 DEF PdiUses, AnswerInv
  <2> QED BY <1>0, <1>4, <2>1, SameContents DEF DevInv, Worked, Reading, Writing, Sent, Free
<1>6. ASSUME s \notin spoiled'
      PROVE  DevInv(s)'
  <2>1. Free(s)' /\ DevInv(s)
      BY <1>0, <1>1, <1>6 DEF PdiUses, AnswerInv, Free, Device
  <2>2. ~InCall(s) => ~Asked(plan, s)
    <3> SUFFICES ASSUME ~InCall(s), Asked(plan, s)
                 PROVE  FALSE
        OBVIOUS
    <3>1. s \notin eep_pdi
        BY DEF AnswerInv, Shown, FlagInv
    <3>2. call.at # "default"
        BY NothingAsked DEF AnswerInv, CallInv
    <3>3. call.s = s /\ call.at \in {"force", "grant", "give"} => InCall(s)
        BY DEF AnswerInv, CallInv, InCall
    <3> QED BY <1>0, <1>6, <3>1, <3>2, <3>3 DEF IInv, ControlInv, Known
  <2>3. InCall(s) => call.at \notin Work
      BY <1>0, <1>6, MasterOwns DEF InCall, slave
  <2> QED BY <1>0, <1>4, <2>1, <2>2, <2>3 DEF DevInv, Worked, Work
<1> QED BY <1>2, <1>3, <1>5, <1>6 DEF AnswerInv
-----------------------------------------------------------------------------
LEMMA AnswerInit == Init => AnswerInv
<1> SUFFICES ASSUME Init PROVE AnswerInv
    OBVIOUS
<1>1. /\ call.op = "none" /\ call.at = "default" /\ call.w \in Words /\ call.nacks < NACKS
    BY Sizes DEF Init, Idle, Words
<1>2. CallInv
    BY <1>1 DEF Init, CallInv, Work
<1>3. Shown
  <2>1. DOMAIN <<>> = {} /\ 0 \notin Slaves
      BY DEF Slaves
  <2> QED BY <2>1 DEF Init, Shown, FlagInv, CacheInv, AnswersAreRight, Silent
<1>4. ASSUME NEW s \in Slaves
      PROVE  DevInv(s)
  <2>1. dev[s].busy = "no" /\ ~Asked(plan, s)
      BY NothingAsked DEF Init
  <2> QED BY <1>1, <2>1 DEF DevInv, InCall, Free
<1> QED BY <1>2, <1>3, <1>4 DEF AnswerInv

LEMMA AnswerNext == IInv /\ AnswerInv /\ [Next]_vars => AnswerInv'
<1> SUFFICES ASSUME IInv, AnswerInv, [Next]_vars PROVE AnswerInv'
    OBVIOUS
<1>1. CASE Master
    BY <1>1, ConfigStepAnswers, DefaultAnswers, ForceAnswers, GrantAnswers, GiveAnswers,
       WaitAnswers, ClearAnswers, WordAnswers, CommandAnswers, SettleAnswers, DataAnswers,
       GetByteAnswers, FoundAnswers
       DEF Master
<1>2. CASE Begin \/ Restart
    BY <1>2, BeginAnswers, RestartAnswers
<1>3. CASE \E s \in Slaves : Finish(s) \/ PdiUses(s)
    BY <1>3, FinishAnswers, PdiUsesAnswers
<1>4. CASE UNCHANGED vars
  <2>1. UNCHANGED <<mem, written, dev, eep_pdi, esislave, esimap, plan, call, ans, spoiled>>
      BY <1>4 DEF vars, cache, env
  <2>2. CallInv' /\ Shown'
      BY <2>1 DEF AnswerInv, CallInv, Shown, FlagInv, CacheInv, AnswersAreRight, Asked, Field, Released
  <2>3. \A s \in Slaves \ spoiled' : DevInv(s)'
      BY <2>1, SameContents
      DEF AnswerInv, DevInv, InCall, Worked, Reading, Writing, Sent, Free, Asked, Field
  <2> QED BY <2>2, <2>3 DEF AnswerInv
<1> QED BY <1>1, <1>2, <1>3, <1>4 DEF Next

(* Every call returns what the EEPROM holds at the word asked for, and a   *)
(* write that reports success has been done, for slaves no retry and no    *)
(* wait was given up for (ecx_readeeprom, ecx_writeeeprom, ecx_readeeprom1 *)
(* and 2, ecx_siigetbyte), however many frames are lost and commands       *)
(* refused on the way.                                                     *)
THEOREM AnswersRight == Spec => []AnswersAreRight
<1>1. AnswerInv => AnswersAreRight
    BY DEF AnswerInv, Shown
<1> QED BY <1>1, IInvInit, IInvNext, AnswerInit, AnswerNext, PTL DEF Spec
=============================================================================
