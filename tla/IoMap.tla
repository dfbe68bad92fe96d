------------------------------- MODULE IoMap -------------------------------
(***************************************************************************)
(* How the SOEM library lays out the process data of all slaves in one IO  *)
(* map (ecx_config_map_group) and cuts that map into frames                *)
(* (ecx_main_send_processdata).                                            *)
(*                                                                         *)
(* A slave keeps its outputs, and its inputs, in the memory of one or more *)
(* sync managers. Every stretch of that memory is given an FMMU, which     *)
(* places it in the map. A slave with at least eight bits of a direction   *)
(* gets whole bytes, another one the next free bits. All outputs lie       *)
(* before all inputs. The map is divided into segments that fit a frame.   *)
(*                                                                         *)
(* Positions are counted in bits of the map: LogAddr is pos \div 8 and     *)
(* BitPos is pos % 8 in the code.                                          *)
(***************************************************************************)
EXTENDS Integers, FiniteSets, Sequences, FiniteSetsExt

CONSTANTS
    N,           \* slaves of the bus
    Types,       \* kinds of slaves: the process data their EEPROM describes
    Assigned,    \* process data a slave may have been given over CoE instead
    MaxSegment,  \* EC_MAXLRWDATA - EC_FIRSTDCDATAGRAM: bytes of a segment
    MaxSegments  \* EC_MAXIOSEGMENTS

(* A description gives, for each direction, the sync managers in the order *)
(* of their numbers: the bits in it, and whether there is a gap between    *)
(* the memory of the one before and its own.                               *)
Dirs == {"out", "in"}
SyncManager == [bits : Nat \ {0}, gap : BOOLEAN]

ASSUME IoMapAssumption ==
    /\ N \in Nat \ {0} /\ MaxSegment \in Nat \ {0} /\ MaxSegments \in Nat \ {0}
    /\ Types \cup Assigned \subseteq [Dirs -> Seq(SyncManager)]

(* What the first k numbers of a sequence add up to, and all of them.      *)
Sums(seq) ==
    LET sum[k \in 0 .. Len(seq)] == IF k = 0 THEN 0 ELSE sum[k - 1] + seq[k] IN sum
Total(seq) == Sums(seq)[Len(seq)]

Slaves == 1 .. N
None == [d \in Dirs |-> <<>>]

VARIABLES
    type,      \* eep_man, eep_id, eep_rev: the kind of a slave
    own,       \* the process data a slave really exchanges
    found,     \* the process data the master thinks it exchanges
    lrw,       \* ~blockLRW of the group
    pc,        \* the loop in progress
    slave,     \* its slave
    smc,       \* the next sync manager of the slave
    done,      \* FMMUdone: bytes of the slave mapped
    pos,       \* LogAddr and BitPos
    mark,      \* oLogAddr
    fmmus,     \* the FMMUs programmed
    IOsegment, \* sizes of the segments completed (currentsegment is their number)
    size,      \* segmentsize
    group,     \* Obytes, Ibytes, Isegment, Ioffset, outputsWKC, inputsWKC
    turn,      \* LogAdr, length and currentsegment of the send loops
    frames     \* the frames sent

config == <<type, own, lrw>>
mapping == <<smc, done, fmmus>>
segments == <<mark, IOsegment, size>>
sending == <<turn, frames>>
vars == <<config, found, pc, slave, mapping, pos, segments, group, sending>>

Init ==
    /\ type \in [Slaves -> Types]
    /\ own \in [Slaves -> Types \cup Assigned]
    /\ \A s \in Slaves : own[s] \in Assigned \cup {type[s]}
    /\ lrw \in BOOLEAN
    /\ found = [s \in Slaves |-> None]
    /\ pc = "coe" /\ slave = 1
    /\ smc = 1 /\ done = 0 /\ fmmus = {}
    /\ pos = 0 /\ mark = 0 /\ IOsegment = <<>> /\ size = 0
    /\ group = [Obytes |-> 0, Ibytes |-> 0, Isegment |-> 0, Ioffset |-> 0,
                outputsWKC |-> 0, inputsWKC |-> 0]
    /\ turn = [adr |-> 0, length |-> 0, seg |-> 1] /\ frames = <<>>

(***************************************************************************)
(* ecx_config_find_mappings                                                *)
(***************************************************************************)
NextSlave(loop, after) ==
    IF slave < N THEN pc' = loop /\ slave' = slave + 1
                 ELSE pc' = after /\ slave' = 1

(* ecx_map_coe_soe: the slave is asked, and may fail to answer. *)
MapCoe ==
    /\ pc = "coe"
    /\ \/ found' = [found EXCEPT ![slave] = own[slave]]
       \/ UNCHANGED found
    /\ NextSlave("coe", "sii")
    /\ UNCHANGED <<config, mapping, pos, segments, group, sending>>

(* ecx_lookup_mapping takes the first slave before it of the same kind. *)
Alike(s) == {t \in 1 .. s - 1 : type[t] = type[s]}

(* ecx_map_sii *)
MapSii ==
    /\ pc = "sii"
    /\ found' = [found EXCEPT ![slave] =
                    IF @ # None THEN @
                    ELSE IF Alike(slave) # {} /\ found[Min(Alike(slave))] # None
                         THEN found[Min(Alike(slave))]
                         ELSE type[slave]]
    /\ NextSlave("sii", "out")
    /\ UNCHANGED <<config, mapping, pos, segments, group, sending>>

(***************************************************************************)
(* ecx_config_create_output_mappings and ecx_config_create_input_mappings: *)
(* one turn of the loop, which programs one FMMU.                          *)
(***************************************************************************)
SMlength(sm) == (sm.bits + 7) \div 8
Bits(sms) == Total([k \in DOMAIN sms |-> sms[k].bits])

(* Obytes of a slave: 0 for one that is bit oriented. *)
WholeBytes(bits) == IF bits > 7 THEN (bits + 7) \div 8 ELSE 0

(* ByteCount and BitCount go on from one FMMU of the slave to the next. *)
ByteCount(sms, last) == Sums([k \in DOMAIN sms |-> SMlength(sms[k])])[last]

(* The last of the sync managers that go on where the one before ends. *)
LastIgnoringGap(sms, from) ==
    Min({k \in from .. Len(sms) : k = Len(sms) \/ 8 * ByteCount(sms, k) >= Bits(sms)})
Last(sms, from) ==
    Min({k \in from .. Len(sms) :
            \/ k = Len(sms)
            \/ sms[k + 1].gap
            \/ 8 * ByteCount(sms, k) >= Bits(sms)})

ByteDown(x) == (x \div 8) * 8
ByteUp(x) == ((x + 7) \div 8) * 8

Fmmu(from, length) ==
    [slave |-> slave, dir |-> pc, sm |-> smc, from |-> from, length |-> length]

BitOriented(bits) ==
    /\ bits < 8
    /\ fmmus' = fmmus \cup {Fmmu(pos, bits)}
    /\ pos' = pos + bits
    /\ done' = done + ((pos + bits - 1) \div 8) - (pos \div 8) + 1

ByteOriented(bits, count) ==
    LET rest == WholeBytes(bits) - done
        len  == IF count > rest THEN rest ELSE count
    IN  /\ bits > 7
        /\ fmmus' = fmmus \cup {Fmmu(ByteUp(pos), 8 * len)}
        /\ pos' = ByteUp(pos) + 8 * len
        /\ done' = done + len

CreateMapping ==
    LET sms   == found[slave][pc]
        last  == Last(sms, smc)
    IN  /\ pc \in Dirs
        /\ smc <= Len(sms) /\ done < (Bits(sms) + 7) \div 8
        /\ BitOriented(Bits(sms)) \/ ByteOriented(Bits(sms), ByteCount(sms, last))
        /\ smc' = last + 1
        /\ UNCHANGED <<config, found, pc, slave, segments, group, sending>>

(***************************************************************************)
(* ecx_config_map_group                                                    *)
(***************************************************************************)
(* Bytes that do not fit the segment open a new one, as long as there are  *)
(* segments.                                                               *)
AccountUnbounded(diff) ==
    IF size + diff <= MaxSegment THEN size' = size + diff /\ UNCHANGED IOsegment
    ELSE size' = diff /\ IOsegment' = Append(IOsegment, size)
AccountSplitting(diff) ==
    IF size + diff <= MaxSegment THEN size' = size + diff /\ UNCHANGED IOsegment
    ELSE IF Len(IOsegment) < MaxSegments - 1
         THEN size' = size + diff - MaxSegment /\ IOsegment' = Append(IOsegment, MaxSegment)
         ELSE UNCHANGED <<size, IOsegment>>
Account(diff) ==
    IF size + diff <= MaxSegment THEN size' = size + diff /\ UNCHANGED IOsegment
    ELSE IF Len(IOsegment) < MaxSegments - 1
         THEN size' = diff /\ IOsegment' = Append(IOsegment, size)
         ELSE UNCHANGED <<size, IOsegment>>

SlaveMapped ==
    LET sms == found[slave][pc]
        wkc == IF pc = "out" THEN "outputsWKC" ELSE "inputsWKC"
    IN  /\ pc \in Dirs
        /\ ~(smc <= Len(sms) /\ done < (Bits(sms) + 7) \div 8)
        /\ IF sms = <<>> THEN UNCHANGED <<segments, group>>
           ELSE /\ Account((pos \div 8) - mark)
                /\ mark' = pos \div 8
                /\ group' = [group EXCEPT ![wkc] = @ + 1]
        /\ smc' = 1 /\ done' = 0
        /\ NextSlave(pc, IF pc = "out" THEN "outputs" ELSE "inputs")
        /\ UNCHANGED <<config, found, pos, fmmus, sending>>

(* The last byte is closed if it has been begun. *)
Pad ==
    /\ pos' = ByteUp(pos)
    /\ mark' = pos' \div 8
    /\ IF pos % 8 = 0 THEN UNCHANGED <<size, IOsegment>> ELSE Account(1)

OutputsMapped ==
    /\ pc = "outputs"
    /\ Pad
    /\ group' = [group EXCEPT !.Obytes = pos' \div 8,
                              !.Isegment = Len(IOsegment'), !.Ioffset = size']
    /\ pc' = "in"
    /\ UNCHANGED <<config, found, slave, mapping, sending>>

InputsMapped ==
    /\ pc = "inputs"
    /\ Pad
    /\ group' = [group EXCEPT !.Ibytes = (pos' \div 8) - group.Obytes]
    /\ pc' = "mapped"
    /\ UNCHANGED <<config, found, slave, mapping, sending>>

nsegments == Len(IOsegment) + 1
SegmentSize(k) == IF k < nsegments THEN IOsegment[k] ELSE size

(***************************************************************************)
(* ecx_main_send_processdata. With LRW the whole map goes out and comes    *)
(* back; without, the inputs are read first and then the outputs written.  *)
(***************************************************************************)
Inputs == [adr |-> group.Obytes, length |-> group.Ibytes, seg |-> group.Isegment + 1]
Outputs == [adr |-> 0, length |-> group.Obytes, seg |-> 1]
Whole == [adr |-> 0, length |-> group.Obytes + group.Ibytes, seg |-> 1]

Start(cmd, loop) == pc' = cmd /\ turn' = loop
StartOutputs ==
    IF group.Obytes > 0 THEN Start("LWR", Outputs) ELSE pc' = "sent" /\ UNCHANGED turn

Send ==
    /\ pc = "mapped"
    /\ IF group.Obytes + group.Ibytes = 0 THEN pc' = "sent" /\ UNCHANGED turn
       ELSE IF lrw THEN Start("LRW", Whole)
       ELSE IF group.Ibytes > 0 THEN Start("LRD", Inputs)
       ELSE StartOutputs
    /\ UNCHANGED <<config, found, slave, mapping, pos, segments, group, frames>>

SublengthWithoutOffset == SegmentSize(turn.seg)
Sublength ==
    LET whole == SegmentSize(turn.seg)
    IN  CASE pc = "LRD" -> IF turn.seg = group.Isegment + 1
                           THEN whole - group.Ioffset ELSE whole
          [] pc = "LWR" -> IF turn.length < whole THEN turn.length ELSE whole
          [] pc = "LRW" -> whole

SendFrame ==
    LET rest == turn.length - Sublength
    IN  /\ pc \in {"LRD", "LWR", "LRW"}
        /\ frames' = Append(frames, [cmd |-> pc, adr |-> turn.adr, length |-> Sublength])
        /\ IF rest # 0 /\ turn.seg < nsegments
           THEN /\ turn' = [adr |-> turn.adr + Sublength, length |-> rest,
                            seg |-> turn.seg + 1]
                /\ UNCHANGED pc
           ELSE IF pc = "LRD" THEN StartOutputs
           ELSE pc' = "sent" /\ UNCHANGED turn
        /\ UNCHANGED <<config, found, slave, mapping, pos, segments, group>>

Next ==
    \/ MapCoe \/ MapSii
    \/ CreateMapping \/ SlaveMapped \/ OutputsMapped \/ InputsMapped
    \/ Send \/ SendFrame

Spec == Init /\ [][Next]_vars

TypeOK ==
    /\ found \in [Slaves -> [Dirs -> Seq(SyncManager)]]
    /\ pc \in {"coe", "sii", "outputs", "inputs", "mapped",
              "LRD", "LWR", "LRW", "sent"} \cup Dirs
    /\ slave \in Slaves /\ smc \in Nat \ {0} /\ done \in Nat
    /\ pos \in Nat /\ mark \in Nat
    /\ fmmus \subseteq [slave : Slaves, dir : Dirs, sm : Nat \ {0},
                        from : Nat, length : Nat]
    /\ IOsegment \in Seq(Nat) /\ Len(IOsegment) < MaxSegments
    /\ size \in Nat
    /\ group \in [{"Obytes", "Ibytes", "Isegment", "Ioffset",
                   "outputsWKC", "inputsWKC"} -> Nat]
    /\ turn \in [adr : Nat, length : Int, seg : 1 .. MaxSegments]
    /\ frames \in Seq([cmd : {"LRD", "LWR", "LRW"}, adr : Nat, length : Nat])

(***************************************************************************)
(* Properties                                                              *)
(***************************************************************************)

(* No bit of the IO map belongs to two sync managers, of one slave or of   *)
(* two: a slave would write its inputs over those of another.              *)
Before(f, g) == f.from + f.length <= g.from
Disjoint == \A f, g \in fmmus : f = g \/ Before(f, g) \/ Before(g, f)

Gaps(sms) == Cardinality({k \in DOMAIN sms : k > 1 /\ sms[k].gap})
OfWholeBytes(sms) == \A k \in DOMAIN sms : sms[k].bits % 8 = 0

Connect(sms, from, to) ==
    /\ \A k \in from + 1 .. to : ~sms[k].gap
    /\ to = Len(sms) \/ sms[to + 1].gap
MapsWhatConnects(f) ==
    LET sms == found[f.slave][f.dir]
    IN  OfWholeBytes(sms) =>
            \E to \in f.sm .. Len(sms) :
                /\ Connect(sms, f.sm, to)
                /\ f.length = 8 * (ByteCount(sms, to) - ByteCount(sms, f.sm - 1))

(* ethercatconfig.c:944: "if addresses from more SM connect use one FMMU   *)
(* otherwise break up in multiple FMMU": an FMMU maps the memory of the    *)
(* sync managers that connect, and no more than that, for a slave whose    *)
(* memory has at most one gap. From the second gap on it maps more, as     *)
(* ByteCount is not reset.                                                 *)
BreaksUpOnce ==
    \A f \in fmmus : Gaps(found[f.slave][f.dir]) < 2 => MapsWhatConnects(f)

(* The frames of a command carry every byte of their part of the map once  *)
(* - if there are segments enough: with the last one in use, what does not *)
(* fit it is not counted - and none is longer than the line takes, if      *)
(* every slave's part is shorter than that.                                *)
Area(cmd) ==
    LET first == IF cmd = "LRD" THEN group.Obytes ELSE 0
        after == IF cmd = "LWR" THEN group.Obytes ELSE group.Obytes + group.Ibytes
    IN  first .. after - 1
Carried(k) == frames[k].adr .. frames[k].adr + frames[k].length - 1
Cmds == IF lrw THEN {"LRW"} ELSE {"LRD", "LWR"}
Enough == nsegments < MaxSegments
FramesCarryAll ==
    pc = "sent" =>
        /\ Enough => \A cmd \in Cmds :
              LET mine == {k \in DOMAIN frames : frames[k].cmd = cmd}
              IN  /\ UNION {Carried(k) : k \in mine} = Area(cmd)
                  /\ \A j, k \in mine : j # k => Carried(j) \cap Carried(k) = {}
        /\ (\A s \in Slaves, d \in Dirs : Bits(found[s][d]) <= 8 * (MaxSegment - 1)) =>
              \A k \in DOMAIN frames : frames[k].length <= MaxSegment

(* The working counter: a slave adds one to a frame that reads from it and *)
(* two (one for LWR, which the code doubles) to one that writes to it.     *)
Meets(s, d, frame) ==
    \E f \in fmmus : /\ f.slave = s /\ f.dir = d
                     /\ f.from < 8 * (frame.adr + frame.length)
                     /\ f.from + f.length > 8 * frame.adr
Adds(s, frame) ==
    (IF frame.cmd # "LWR" /\ Meets(s, "in", frame) THEN 1 ELSE 0)
    + (IF frame.cmd # "LRD" /\ Meets(s, "out", frame) THEN 2 ELSE 0)
AddsInAll(s) == Total([k \in DOMAIN frames |-> Adds(s, frames[k])])
Wkc(answering) == Total([s \in Slaves |-> IF s \in answering THEN AddsInAll(s) ELSE 0])
Expected == group.outputsWKC * 2 + group.inputsWKC

OnlyBytes ==
    \A s \in Slaves, d \in Dirs : found[s][d] = <<>> \/ Bits(found[s][d]) > 7

(* The working counter reaches what the bus expects if all slaves answer,  *)
(* and stays below it if one of them is missing, however the map has been  *)
(* cut into frames; with slaves of less than a byte only if it has not.    *)
MissingIsNoticed ==
    pc = "sent" /\ Enough /\ (OnlyBytes \/ nsegments = 1) =>
        /\ Wkc(Slaves) = Expected
        /\ \A s \in Slaves : found[s] # None => Wkc(Slaves \ {s}) < Expected
=============================================================================
