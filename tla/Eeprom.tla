------------------------------- MODULE Eeprom -------------------------------
(***************************************************************************)
(* Reading and writing the EEPROM (SII) of the slaves: the commands of     *)
(* ethercatmain.c, frame by frame, as ecx_config_init and the functions    *)
(* behind the interface call them, with lost frames, slow and refusing     *)
(* EEPROMs, and a slave that uses its EEPROM itself when it may.           *)
(*                                                                         *)
(* A word of the model is what is asked for at one address; a slave        *)
(* answers with Chunk[s] of them (eep_8byte). The AP functions             *)
(* are the FP functions with another address and are not told apart.       *)
(***************************************************************************)
EXTENDS Integers, Sequences

CONSTANTS
    N,          \* slaves
    Top,        \* last word of an EEPROM
    Chunk,      \* words a slave sends at a time
    Fields,     \* fields config_init asks all slaves for (their words: 0 ..)
    RETRIES,    \* EC_DEFAULTRETRIES
    NACKS,      \* refusals after which a command is given up
    MaxFaults,  \* bound: lost frames, refusals and expired waits
    MaxBytes,   \* bound: words a search of the SII reads
    MaxCalls    \* bound: calls after the configuration

Slaves == 1 .. N
Words == 0 .. Top

ASSUME EepromAssumption ==
    /\ N \in Nat \ {0} /\ {Top, RETRIES, NACKS, MaxFaults, MaxBytes, MaxCalls} \subseteq Nat
    /\ Chunk \in [Slaves -> Nat \ {0}] /\ Fields \in 1 .. Top + 1 /\ NACKS > 0

(* Contents of the EEPROMs, all different; 0 is what a failed read returns *)
(* and New what is written.                                                *)
Original(v, s, w) == 100 * v + 10 * s + w + 1
New == 99
NoChunk(s) == [i \in 1 .. Chunk[s] |-> 0]

VARIABLES
    mem,      \* the EEPROM of each slave
    dev,      \* its interface: owner, command in progress, address, data, nack
    eep_pdi,  \* slaves whose EEPROM the master believes to be the slave's own
    esislave, \* the slave whose words are cached
    esimap,   \* words in the cache (esimap, esibuf)
    plan,     \* where ecx_config_init is: the next call it makes
    call,     \* the call in progress
    ans,      \* what the last step has returned
    spoiled,  \* slaves a retry or a wait was given up for
    written,  \* words written since they were cached
    faults, calls

cache == <<esislave, esimap>>
env == <<faults, calls, spoiled>>
vars == <<mem, dev, eep_pdi, cache, plan, call, ans, written, env>>

Idle == [op |-> "none", s |-> 1, w |-> 0, restore |-> FALSE, at |-> "idle",
         tries |-> 0, nacks |-> 0, left |-> 0]
Silent == [s |-> 0, w |-> 0, value |-> 0, of |-> "none"]

(***************************************************************************)
(* ecx_config_init asks all slaves for a field before it collects it from  *)
(* the first: round f collects field f - 1 of each slave in turn and asks  *)
(* it for field f, and the last round goes on to the SII of the slave.     *)
(***************************************************************************)
Call(op, s, w, restore) == [Idle EXCEPT !.op = op, !.s = s, !.w = w, !.restore = restore]
Search(s, restore) == Call("sii", s, 0, restore)

Turn(f, s) == [field |-> f, s |-> s, op |-> IF f = 0 THEN "request" ELSE "collect"]
ConfigInit == Turn(0, 1)
Done == [field |-> Fields, s |-> N, op |-> "none"]

TurnAfter(p) ==
    CASE p.s < N -> Turn(p.field, p.s + 1)
      [] p.s = N /\ p.field < Fields -> Turn(p.field + 1, 1)
      [] OTHER -> Done
After(p) ==
    CASE p.op = "collect" -> [p EXCEPT !.op = IF p.field < Fields THEN "request" ELSE "sii"]
      [] p.op = "sii" -> [p EXCEPT !.op = "give"]
      [] OTHER -> TurnAfter(p)
Planned(p) ==
    Call(p.op, p.s, CASE p.op = "request" -> p.field
                      [] p.op = "collect" -> p.field - 1
                      [] OTHER -> 0, FALSE)

Init ==
    /\ mem = [s \in Slaves |-> [w \in Words |-> Original(0, s, w)]]
    /\ \E owners \in [Slaves -> {"master", "pdi", "held"}] :
          dev = [s \in Slaves |-> [owner |-> owners[s], busy |-> "no", addr |-> 0,
                                   data |-> NoChunk(s), nack |-> FALSE]]
    /\ eep_pdi = {} /\ esislave = 0 /\ esimap = <<>>
    /\ plan = ConfigInit /\ call = [Idle EXCEPT !.at = "default"]
    /\ ans = Silent /\ spoiled = {} /\ written = {}
    /\ faults = 0 /\ calls = 0

(***************************************************************************)
(* The slaves: an EEPROM does what it was told or refuses; a slave that    *)
(* owns its EEPROM reads it and holds on to it.                            *)
(***************************************************************************)
Contents(s, w) == [i \in 1 .. Chunk[s] |-> IF w + i - 1 \in Words THEN mem[s][w + i - 1] ELSE 0]

Finish(s) ==
    /\ dev[s].busy # "no"
    /\ \/ /\ dev[s].busy = "read"
          /\ dev' = [dev EXCEPT ![s].busy = "no", ![s].data = Contents(s, dev[s].addr)]
          /\ UNCHANGED <<mem, written, faults>>
       \/ /\ dev[s].busy = "write"
          /\ dev' = [dev EXCEPT ![s].busy = "no"]
          /\ mem' = [mem EXCEPT ![s][dev[s].addr] = dev[s].data[1]]
          /\ written' = written \cup {<<s, dev[s].addr>>}
          /\ UNCHANGED faults
       \/ /\ faults < MaxFaults /\ faults' = faults + 1
          /\ dev' = [dev EXCEPT ![s].busy = "no", ![s].nack = TRUE]
          /\ UNCHANGED <<mem, written>>
    /\ ans' = Silent
    /\ UNCHANGED <<eep_pdi, cache, plan, call, spoiled, calls>>

PdiUses(s) ==
    /\ dev[s].owner \in {"pdi", "held"} /\ dev[s].busy = "no"
    /\ dev' = [dev EXCEPT ![s].owner = IF @ = "pdi" THEN "held" ELSE "pdi",
                          ![s].data = Contents(s, Top)]
    /\ ans' = Silent
    /\ UNCHANGED <<mem, eep_pdi, cache, plan, call, written, env>>

(* What a datagram does to the slave it reaches. A command is taken only   *)
(* from the owner, and not while another is in progress.                   *)
Forced(d) == [d EXCEPT !.owner = "master"]
Granted(d) == [d EXCEPT !.owner = IF @ = "held" THEN "held" ELSE "master"]
Given(d) == [d EXCEPT !.owner = IF @ = "master" THEN "pdi" ELSE @]
Takes(d) == d.owner = "master" /\ d.busy = "no"
Cleared(d) == IF Takes(d) THEN [d EXCEPT !.nack = FALSE] ELSE d
Loaded(d) == IF Takes(d) THEN [d EXCEPT !.data[1] = New] ELSE d
Commanded(d) ==
    IF Takes(d)
    THEN [d EXCEPT !.busy = IF call.op = "write" THEN "write" ELSE "read",
                   !.addr = call.w, !.nack = FALSE]
    ELSE d
Unchanged(d) == d

(***************************************************************************)
(* The master.                                                             *)
(***************************************************************************)
slave == call.s
Go(to) == call' = [call EXCEPT !.at = to, !.tries = 0]
Ends == call' = Idle
Answer(w, v, of) == ans' = [s |-> slave, w |-> w, value |-> v, of |-> of]
NoAnswer == ans' = Silent

(* A frame is answered, gets lost before or after the slave, or passes a   *)
(* slave that does not take it: wkc is 1, -1, -1 or 0.                     *)
Outcomes == {"ok", "lost", "unanswered", "skipped"}
Reaches(o) == o \in {"ok", "unanswered"}
Truthy(o) == o # "skipped"
Counts(bad) == faults' = IF bad THEN faults + 1 ELSE faults
Allowed(bad) == bad => faults < MaxFaults

Sends(o, Effect(_)) ==
    /\ Allowed(o # "ok") /\ Counts(o # "ok")
    /\ dev' = IF Reaches(o) THEN [dev EXCEPT ![slave] = Effect(@)] ELSE dev

(* do ... while (wkc <= 0 && cnt++ < EC_DEFAULTRETRIES), one try a step.   *)
Ended(o) == o = "ok" \/ call.tries = RETRIES
Retries(o) ==
    /\ ~Ended(o)
    /\ call' = [call EXCEPT !.tries = @ + 1]
    /\ NoAnswer /\ UNCHANGED <<spoiled, eep_pdi, cache, plan>>
Spoils(given_up) == spoiled' = IF given_up THEN spoiled \cup {slave} ELSE spoiled

At(place) == call.at = place /\ UNCHANGED <<mem, written, calls>>

(* Where a call that commands begins: ecx_eeprom2master, if there is need. *)
StartOf(c) ==
    CASE c.op = "sii" -> [c EXCEPT !.at = "bytes", !.left = MaxBytes]
      [] c.op = "collect" -> [c EXCEPT !.at = "settle"]
      [] c.op = "give" -> IF c.s \in eep_pdi THEN Idle ELSE [c EXCEPT !.at = "give"]
      [] c.op = "take" -> IF c.s \in eep_pdi THEN [c EXCEPT !.at = "force"] ELSE Idle
      [] OTHER -> [c EXCEPT !.at = IF c.s \in eep_pdi THEN "force" ELSE "wait"]

ConfigStep ==
    /\ At("idle") /\ plan # Done
    /\ call' = StartOf(Planned(plan)) /\ plan' = After(plan)
    /\ NoAnswer /\ UNCHANGED <<dev, eep_pdi, cache, spoiled, faults>>

(* Later calls: ecx_readeeprom, ecx_writeeeprom, searches of the SII that  *)
(* give the EEPROM back, and ecx_reconfig_slave taking and giving it.      *)
Begin ==
    /\ call.at = "idle" /\ plan = Done /\ calls < MaxCalls /\ calls' = calls + 1
    /\ \/ \E op \in {"read", "write"}, s \in Slaves, w \in Words :
             call' = StartOf(Call(op, s, w, FALSE))
       \/ \E s \in Slaves : call' = StartOf(Search(s, s \in eep_pdi))
       \/ \E op \in {"take", "give"}, s \in Slaves : call' = StartOf(Call(op, s, 0, FALSE))
    /\ NoAnswer
    /\ UNCHANGED <<mem, written, dev, eep_pdi, cache, plan, spoiled, faults>>

(* ecx_init_context on a network that may have been changed: slavelist and *)
(* the cache are cleared.                                                  *)
Restart ==
    /\ call.at = "idle" /\ plan = Done /\ calls < MaxCalls /\ calls' = calls + 1
    /\ mem' = [s \in Slaves |-> [w \in Words |-> Original(calls, s, w)]]
    /\ dev' = [s \in Slaves |-> [dev[s] EXCEPT !.busy = "no"]]
    /\ eep_pdi' = {} /\ esislave' = 0 /\ esimap' = <<>>
    /\ plan' = ConfigInit /\ call' = [Idle EXCEPT !.at = "default"]
    /\ spoiled' = {} /\ written' = {} /\ NoAnswer /\ UNCHANGED faults

DefaultUnforced(d) == Granted(d)

(* ecx_set_slaves_to_default: forced from the slaves, set to the master.   *)
Default(d) == Granted(Forced(d))
SetToDefault ==
    /\ At("default") /\ Ends
    /\ \E got \in SUBSET Slaves :
          /\ Allowed(got # Slaves) /\ Counts(got # Slaves)
          /\ spoiled' = spoiled \cup (Slaves \ got)
          /\ dev' = [s \in Slaves |-> IF s \in got THEN Default(dev[s]) ELSE dev[s]]
    /\ NoAnswer /\ UNCHANGED <<eep_pdi, cache, plan>>

(* ecx_eeprom2master, ecx_eeprom2pdi                                       *)
ForceFromPdi ==
    /\ At("force")
    /\ \E o \in Outcomes :
          /\ Sends(o, Forced)
          /\ \/ Retries(o)
             \/ /\ Ended(o) /\ Go("grant") /\ Spoils(o # "ok")
                /\ NoAnswer /\ UNCHANGED <<eep_pdi, cache, plan>>
Grant ==
    /\ At("grant")
    /\ \E o \in Outcomes :
          /\ Sends(o, Granted)
          /\ \/ Retries(o)
             \/ /\ Ended(o) /\ eep_pdi' = eep_pdi \ {slave} /\ Spoils(o # "ok")
                /\ IF call.op = "take" THEN Ends ELSE Go("wait")
                /\ NoAnswer /\ UNCHANGED <<cache, plan>>
GiveToPdi ==
    /\ At("give")
    /\ \E o \in Outcomes :
          /\ Sends(o, Given)
          /\ \/ Retries(o)
             \/ /\ Ended(o) /\ eep_pdi' = eep_pdi \cup {slave} /\ Spoils(o # "ok")
                /\ Ends /\ NoAnswer /\ UNCHANGED <<cache, plan>>

(* The word goes into the cache, and a failed one too.                     *)
Cached(chunk) ==
    esimap' = [w \in DOMAIN esimap \cup {v \in Words : v - call.w \in 0 .. Chunk[slave] - 1} |->
                 IF w - call.w \in 0 .. Chunk[slave] - 1 THEN chunk[w - call.w + 1]
                 ELSE esimap[w]]

Returns(chunk) ==
    /\ IF call.op = "sii"
       THEN Cached(chunk) /\ call' = [call EXCEPT !.at = "bytes", !.tries = 0, !.nacks = 0]
       ELSE UNCHANGED esimap /\ Ends
    /\ Answer(call.w, chunk[1], call.op)
    /\ UNCHANGED <<eep_pdi, esislave, plan>>

(* A call that has failed: a read returns 0, a write that it failed.       *)
Fails ==
    IF call.op \in {"write", "request"}
    THEN Ends /\ NoAnswer /\ UNCHANGED <<eep_pdi, cache, plan>>
    ELSE Returns(NoChunk(slave))

(* ecx_eeprom_waitnotbusyFP: an answer that is not busy ends the wait. So  *)
(* does the timer, and a status that never came is taken for not busy.     *)
GivesUp(nack) ==
    nack /\ call.at = "settle" /\ (call.op = "collect" \/ call.nacks + 1 = NACKS)
Waits(Ready(_), Late) ==
    \/ /\ dev[slave].busy = "no" /\ Ready(dev[slave].nack)
       /\ Spoils(GivesUp(dev[slave].nack))
       /\ UNCHANGED <<dev, faults>>
    \/ /\ faults < MaxFaults /\ faults' = faults + 1 /\ UNCHANGED dev
       /\ \/ NoAnswer /\ UNCHANGED <<call, eep_pdi, cache, plan, spoiled>>
          \/ Spoils(TRUE) /\ Ready(FALSE)
          \/ Spoils(TRUE) /\ dev[slave].busy # "no" /\ Late

Attempt == IF call.op = "write" THEN "word" ELSE "command"
ReadyForCommand(nack) ==
    /\ Go(IF nack THEN "clear" ELSE Attempt)
    /\ NoAnswer /\ UNCHANGED <<eep_pdi, cache, plan>>
Wait == At("wait") /\ Waits(ReadyForCommand, Fails)

Clear ==
    /\ At("clear") /\ Go(Attempt)
    /\ \E o \in Outcomes : Sends(o, Cleared)
    /\ NoAnswer /\ UNCHANGED <<eep_pdi, cache, plan, spoiled>>

Word ==
    /\ At("word")
    /\ \E o \in Outcomes :
          /\ Sends(o, Loaded)
          /\ \/ Retries(o)
             \/ /\ Ended(o) /\ Go("command") /\ Spoils(o # "ok")
                /\ NoAnswer /\ UNCHANGED <<eep_pdi, cache, plan>>

(* while (nackcnt > 0 && nackcnt < 3): after an attempt that failed.       *)
AgainOrFails ==
    IF call.nacks > 0
    THEN Go(Attempt) /\ NoAnswer /\ UNCHANGED <<eep_pdi, cache, plan>>
    ELSE Fails

Command ==
    /\ At("command")
    /\ \E o \in Outcomes :
          /\ Sends(o, Commanded)
          /\ \/ Retries(o)
             \/ /\ Ended(o) /\ Spoils(o # "ok")
                /\ IF Truthy(o) /\ call.op # "request"
                   THEN Go("settle") /\ NoAnswer /\ UNCHANGED <<eep_pdi, cache, plan>>
                   ELSE AgainOrFails

Refused ==
    IF call.nacks + 1 < NACKS
    THEN /\ call' = [call EXCEPT !.at = Attempt, !.tries = 0, !.nacks = @ + 1]
         /\ NoAnswer /\ UNCHANGED <<eep_pdi, cache, plan>>
    ELSE Fails
Settled(nack) ==
    CASE nack /\ call.op # "collect" -> Refused
      [] call.op = "write" /\ ~nack ->
            Answer(call.w, New, "write") /\ Ends /\ UNCHANGED <<eep_pdi, cache, plan>>
      [] OTHER ->
            /\ call' = [call EXCEPT !.at = "data", !.tries = 0, !.nacks = 0]
            /\ NoAnswer /\ UNCHANGED <<eep_pdi, cache, plan>>
Settle == At("settle") /\ Waits(Settled, AgainOrFails)

Data ==
    /\ At("data")
    /\ \E o \in Outcomes :
          /\ Sends(o, Unchanged)
          /\ \/ Retries(o)
             \/ /\ Ended(o) /\ Spoils(o # "ok")
                /\ Returns(IF o = "ok" THEN dev[slave].data ELSE NoChunk(slave))

KeptForAll == esimap

(* ecx_siifind, siistring, siiFMMU, siiSM, siiPDO: ecx_siigetbyte of words *)
(* that depend on what was read, and eeprom2pdi if it was the slave's.     *)
Kept == IF slave = esislave THEN esimap ELSE <<>>
GetByte ==
    /\ At("bytes") /\ call.left > 0
    /\ esislave' = slave
    /\ written' = IF slave = esislave THEN written ELSE {}
    /\ \E w \in Words :
          IF w \in DOMAIN Kept
          THEN /\ Answer(w, Kept[w], "cache") /\ esimap' = Kept
               /\ call' = [call EXCEPT !.left = @ - 1]
          ELSE /\ NoAnswer /\ esimap' = Kept
               /\ call' = [call EXCEPT !.w = w, !.left = @ - 1, !.tries = 0, !.nacks = 0,
                                       !.at = IF slave \in eep_pdi THEN "force" ELSE "wait"]
    /\ UNCHANGED <<dev, eep_pdi, plan, spoiled, faults>>
Found ==
    /\ At("bytes")
    /\ IF call.restore /\ slave \notin eep_pdi THEN Go("give") ELSE Ends
    /\ NoAnswer /\ UNCHANGED <<dev, eep_pdi, cache, plan, spoiled, faults>>

Master ==
    \/ ConfigStep \/ SetToDefault \/ ForceFromPdi \/ Grant \/ GiveToPdi
    \/ Wait \/ Clear \/ Word \/ Command \/ Settle \/ Data \/ GetByte \/ Found
Next == Master \/ Begin \/ Restart \/ \E s \in Slaves : Finish(s) \/ PdiUses(s)

Spec == Init /\ [][Next]_vars

(***************************************************************************)
(* Properties                                                              *)
(***************************************************************************)
(* As long as no retry loop or wait was given up, every call returns what  *)
(* the EEPROM holds at the word asked for: the fields config_init collects *)
(* from the slaves are those it requested, a frame that is repeated or a   *)
(* command that is refused does no harm, the cache keeps slaves and words  *)
(* apart, and a write that reports success has been done. A word that was  *)
(* written while it was cached is the exception: writeeeprom leaves the    *)
(* cache alone.                                                            *)
AnswersAreRight ==
    ans.s \in Slaves \ spoiled =>
        \/ ans.value = mem[ans.s][ans.w]
        \/ ans.of = "cache" /\ <<ans.s, ans.w>> \in written

(* Between calls, eep_pdi says who can use the EEPROM of each slave, and   *)
(* so whether the next call has to ask for it.                             *)
ControlIsKnown ==
    call.at = "idle" =>
        \A s \in Slaves \ spoiled : (s \in eep_pdi) = (dev[s].owner # "master")
=============================================================================
