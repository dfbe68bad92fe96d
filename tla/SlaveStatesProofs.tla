------------------------- MODULE SlaveStatesProofs -------------------------
(***************************************************************************)
(* Proofs about SlaveStates, for any number of slaves and any frame size.  *)
(***************************************************************************)
EXTENDS SlaveStates, FiniteSetTheorems, TLAPS

(***************************************************************************)
(* Facts about states as sets of bits.                                     *)
(***************************************************************************)
LEMMA NumberOfStates ==
    /\ \A b \in States \cup {NONE} : Number(b) \in {0, 1, 2, 3, 4, 8}
    /\ \A b \in States : Number(b) # 0
    /\ \A b \in States \cup {NONE} : Number(b) >= 8 => b = OPERATIONAL
    /\ Number(NONE) = 0 /\ Number(OPERATIONAL) = 8
<1>1. States \subseteq {{1}, {2}, {1, 2}, {4}, {8}}
  BY SlaveStatesAssumption DEF Named, BOOT, OPERATIONAL
<1>2. /\ Number({1}) = 1 /\ Number({2}) = 2 /\ Number({1, 2}) = 3
      /\ Number({4}) = 4 /\ Number({8}) = 8 /\ Number({}) = 0
  BY DEF Number
<1>3. \A b \in {{1}, {2}, {1, 2}, {4}, {8}} :
         Number(b) \in {1, 2, 3, 4, 8} /\ (Number(b) >= 8 => b = {8})
  BY <1>2
<1>4. \A b \in States : Number(b) \in {1, 2, 3, 4, 8} /\ (Number(b) >= 8 => b = {8})
  BY <1>1, <1>3
<1> HIDE DEF Number
<1>5. Number({}) = 0 /\ Number({8}) = 8
  BY <1>2
<1>6. ASSUME NEW b \in States \cup {NONE}
      PROVE  /\ Number(b) \in {0, 1, 2, 3, 4, 8}
             /\ Number(b) >= 8 => b = {8}
  <2>1. CASE b \in States
    BY <2>1, <1>4
  <2>2. CASE b = {}
    BY <2>2, <1>5
  <2> QED
    BY <2>1, <2>2 DEF NONE
<1>7. \A b \in States : Number(b) # 0
  BY <1>4
<1> QED
  BY <1>5, <1>6, <1>7 DEF NONE, OPERATIONAL

LEMMA StatesAreNotNone == NONE \notin States /\ NONE \notin Named
<1>1. NONE \notin Named
  BY DEF NONE, Named, BOOT, OPERATIONAL
<1> QED
  BY <1>1, SlaveStatesAssumption

(* The OR of the states of some slaves is NONE only if there are none. *)
LEMMA OrIsNone ==
    ASSUME TypeOK, NEW ans \in SUBSET Slaves
    PROVE  /\ OrOf(ans) \in SUBSET {1, 2, 4, 8}
           /\ OrOf(ans) = NONE => ans = {}
           /\ \A s \in Slaves : Answer(ans, s) \in States \cup {NONE}
           /\ \A s \in Slaves : Answer(ans, s) = NONE => s \notin ans
           /\ \A s \in ans : al[s].bits \in States
<1>1. States \subseteq {{1}, {2}, {1, 2}, {4}, {8}}
  BY SlaveStatesAssumption DEF Named, BOOT, OPERATIONAL
<1>2. \A s \in Slaves : al[s].bits \in States
  BY DEF TypeOK, Status
<1>3. \A b \in States : b # {} /\ b \subseteq {1, 2, 4, 8}
  BY <1>1
<1> QED
  BY <1>2, <1>3 DEF OrOf, Answer, NONE

(* The working counter of a broadcast says whether all slaves answered. *)
LEMMA AllAnswer ==
    ASSUME NEW ans \in SUBSET Slaves, AllSame(ans)
    PROVE  ans = Slaves
<1>1. IsFiniteSet(Slaves) /\ Cardinality(Slaves) = N
  BY FS_Interval, SlaveStatesAssumption DEF Slaves
<1>2. Cardinality(ans) <= N /\ (Cardinality(ans) = N => ans = Slaves)
  BY <1>1, FS_Subset
<1>3. Cardinality(ans) \in Nat
  BY <1>1, FS_Subset, FS_CardinalityType
<1> QED
  BY <1>2, <1>3, SlaveStatesAssumption DEF AllSame

(* If all the slaves together are OPERATIONAL, each of them is. *)
LEMMA OrIsOperational ==
    ASSUME TypeOK, NEW ans \in SUBSET Slaves, AllSame(ans), Number(OrOf(ans)) >= 8
    PROVE  \A s \in Slaves : Answer(ans, s) = OPERATIONAL
<1>1. ans = Slaves
  BY AllAnswer
<1>2. OrOf(ans) = {8}
  <2>1. OrOf(ans) \in {{1}, {2}, {1, 2}, {4}, {8}}
    BY DEF AllSame, Named, BOOT, OPERATIONAL
  <2>2. /\ Number({1}) = 1 /\ Number({2}) = 2 /\ Number({1, 2}) = 3
        /\ Number({4}) = 4
    BY DEF Number
  <2> QED
    BY <2>1, <2>2
<1>3. \A s \in Slaves : al[s].bits \subseteq {8} /\ al[s].bits # {}
  <2>1. \A s \in Slaves : al[s].bits \subseteq {8}
    BY <1>1, <1>2 DEF OrOf
  <2>2. \A s \in Slaves : al[s].bits # {}
    BY OrIsNone, NumberOfStates, <1>1 DEF NONE
  <2> QED
    BY <2>1, <2>2
<1>4. \A s \in Slaves : al[s].bits = {8}
  BY <1>3
<1> QED
  BY <1>1, <1>4 DEF Answer, OPERATIONAL

LEMMA AnsweringType == ASSUME TypeOK PROVE Answering \subseteq SUBSET Slaves
  BY DEF TypeOK, Answering

(***************************************************************************)
(* Type correctness.                                                       *)
(***************************************************************************)
LEMMA TypeInit == Init => TypeOK
<1> SUFFICES ASSUME Init PROVE TypeOK
  OBVIOUS
<1>1. al \in [Slaves -> Status]
  BY DEF Init, Status
<1>2. list \in [Slaves -> SUBSET {1, 2, 4, 8}]
  <2>1. \A b \in States : b \in SUBSET {1, 2, 4, 8}
    BY SlaveStatesAssumption DEF Named, BOOT, OPERATIONAL
  <2>2. \A s \in Slaves : al[s].bits \in States
    BY DEF Init
  <2> QED
    BY <2>1, <2>2 DEF Init
<1>3. wait \in [slave : 0 .. N, state : States \cup {NONE}]
  BY SlaveStatesAssumption DEF Init, NoWait
<1>4. seen \in [Threads -> [Slaves -> States \cup {NONE}]]
  BY DEF Init
<1>5. /\ islost \in [Slaves -> BOOLEAN] /\ ctx \in Threads \cup {None}
      /\ pc \in [Threads -> PC] /\ lowest \in [Threads -> 0 .. 255]
  BY DEF Init, PC
<1>6. /\ changes \in 0 .. MaxChanges /\ next \in Nat \ {0} /\ cur \in 0 .. N - 1
  BY SlaveStatesAssumption DEF Init
<1>7. /\ busDiagState \in BOOLEAN /\ nextDiag \in BOOLEAN /\ reached \in BOOLEAN
      /\ fullyUpdated \in BOOLEAN /\ allFine \in BOOLEAN
  BY DEF Init
<1>8. present \subseteq Slaves /\ silent \subseteq Slaves /\ swept \subseteq Slaves
  BY DEF Init
<1> QED
  BY <1>1, <1>2, <1>3, <1>4, <1>5, <1>6, <1>7, <1>8 DEF TypeOK

LEMMA TypeNext == TypeOK /\ [Next]_vars => TypeOK'
<1> SUFFICES ASSUME TypeOK, [Next]_vars PROVE TypeOK'
  OBVIOUS
<1> USE DEF Go
<1>0. \A t \in Threads : t = "monitor" \/ t = "control"
  BY DEF Threads
<1>1. CASE SlaveChanges
  BY <1>1, SlaveStatesAssumption DEF SlaveChanges, TypeOK, known, diag, waiting, reading
<1>2. ASSUME NEW t \in Threads, ReadBroadcast(t) PROVE TypeOK'
  <2> PICK ans \in Answering :
          /\ silent' = silent \cup (Slaves \ ans)
          /\ seen' = [seen EXCEPT ![t] = [s \in Slaves |-> Answer(ans, s)]]
          /\ \/ /\ AllSame(ans)
                /\ Go(t, "read", "done") /\ UNCHANGED ctx
                /\ list' = [s \in Slaves |-> OrOf(ans)]
                /\ lowest' = [lowest EXCEPT ![t] = Number(OrOf(ans))]
             \/ /\ ~AllSame(ans)
                /\ Go(t, "read", "multi") /\ ctx' = t
                /\ lowest' = [lowest EXCEPT ![t] = 255]
                /\ UNCHANGED list
    BY <1>2 DEF ReadBroadcast
  <2>1. ans \in SUBSET Slaves
    BY AnsweringType
  <2>2. /\ OrOf(ans) \in SUBSET {1, 2, 4, 8}
        /\ \A s \in Slaves : Answer(ans, s) \in States \cup {NONE}
    BY <2>1, OrIsNone
  <2>3. silent' \subseteq Slaves /\ seen' \in [Threads -> [Slaves -> States \cup {NONE}]]
    BY <2>2 DEF TypeOK
  <2>4. Number(OrOf(ans)) \in 0 .. 15
    BY DEF Number
  <2>5. lowest' \in [Threads -> 0 .. 255]
    BY <2>4 DEF TypeOK
  <2>6. list' \in [Slaves -> SUBSET {1, 2, 4, 8}]
    BY <2>2 DEF TypeOK
  <2>7. pc' \in [Threads -> PC] /\ ctx' \in Threads \cup {None}
    BY DEF TypeOK, PC
  <2> QED
    BY <1>2, <2>3, <2>5, <2>6, <2>7 DEF ReadBroadcast, TypeOK, bus, diag, waiting
<1>3. ASSUME NEW t \in Threads, ReadMulti(t) PROVE TypeOK'
  <2> PICK ans \in Answering :
          /\ silent' = silent \cup (Chunk \ ans)
          /\ seen' = [seen EXCEPT ![t] = Read(ans, seen[t])]
          /\ list' = Read(ans, list)
          /\ \E n \in LeastOf(ans, lowest[t]) : lowest' = [lowest EXCEPT ![t] = n]
    BY <1>3 DEF ReadMulti
  <2>1. ans \in SUBSET Slaves
    BY AnsweringType
  <2>2. \A s \in Slaves : Answer(ans, s) \in States \cup {NONE}
    BY <2>1, OrIsNone
  <2>3. Chunk \subseteq Slaves
    BY SlaveStatesAssumption DEF TypeOK, Chunk, Slaves
  <2>4. silent' \subseteq Slaves
    BY <2>3 DEF TypeOK
  <2>5. seen' \in [Threads -> [Slaves -> States \cup {NONE}]]
    <3>1. Read(ans, seen[t]) \in [Slaves -> States \cup {NONE}]
      BY <2>2 DEF TypeOK, Read
    <3> QED
      BY <3>1 DEF TypeOK
  <2>6. list' \in [Slaves -> SUBSET {1, 2, 4, 8}]
    <3>1. \A b \in States \cup {NONE} : b \in SUBSET {1, 2, 4, 8}
      BY SlaveStatesAssumption DEF Named, BOOT, OPERATIONAL, NONE
    <3> QED
      BY <2>2, <3>1 DEF TypeOK, Read
  <2>7. lowest' \in [Threads -> 0 .. 255]
    <3> PICK n \in LeastOf(ans, lowest[t]) : lowest' = [lowest EXCEPT ![t] = n]
      OBVIOUS
    <3>1. n = lowest[t] \/ \E s \in Chunk : n = Number(Answer(ans, s))
      BY DEF LeastOf
    <3>2. n \in 0 .. 255
      BY <3>1 DEF TypeOK, Number
    <3> QED
      BY <3>2 DEF TypeOK
  <2>8. /\ pc' \in [Threads -> PC] /\ ctx' \in Threads \cup {None}
        /\ next' \in Nat \ {0}
    BY <1>3, SlaveStatesAssumption DEF ReadMulti, TypeOK, PC
  <2> QED
    BY <1>3, <2>4, <2>5, <2>6, <2>7, <2>8 DEF ReadMulti, TypeOK, bus, diag, waiting
<1>4. CASE MonitorBegin
  BY <1>4, SlaveStatesAssumption DEF MonitorBegin, TypeOK, PC, Threads, bus, known, waiting, reading
<1>5. CASE MonitorStates
  <2>1. allFine' \in BOOLEAN
    BY <1>5 DEF MonitorStates
  <2>2. islost' \in [Slaves -> BOOLEAN]
    <3> DEFINE b(s) == islost[s] \/ (~allFine' /\ NowLost(s))
    <3>1. islost' = [s \in Slaves |-> b(s)]
      BY <1>5 DEF MonitorStates
    <3>2. \A s \in Slaves : b(s) \in BOOLEAN
      BY DEF NowLost
    <3> HIDE DEF b
    <3> QED
      BY <3>1, <3>2
  <2>3. seen' \in [Threads -> [Slaves -> States \cup {NONE}]]
    BY <1>5 DEF MonitorStates, TypeOK, NONE
  <2>4. pc' \in [Threads -> PC] /\ busDiagState' \in BOOLEAN /\ nextDiag' \in BOOLEAN
    BY <1>5 DEF MonitorStates, TypeOK, PC
  <2> QED
    BY <1>5, <2>1, <2>2, <2>3, <2>4 DEF MonitorStates, TypeOK, bus, waiting
<1>6. CASE MonitorCounters
  <2>1. cur' \in 0 .. N - 1 /\ cur + 1 \in Slaves
    BY <1>6, SlaveStatesAssumption DEF MonitorCounters, CursorAtEnd, TypeOK, Slaves
  <2>2. fullyUpdated' \in BOOLEAN /\ swept' \subseteq Slaves
    BY <1>6, <2>1 DEF MonitorCounters, CursorAtEnd, TypeOK
  <2> QED
    BY <1>6, <2>1, <2>2 DEF MonitorCounters, TypeOK, PC, Threads, bus, known, waiting, reading
<1>7. CASE GetStateBegin
  BY <1>7 DEF GetStateBegin, TypeOK, PC, Threads, bus, known, diag, reading
<1>8. CASE GetStateEnd
  BY <1>8 DEF GetStateEnd, TypeOK, PC, Threads, bus, known, diag, waiting, NONE
<1>9. CASE Wait
  <2> PICK ans \in Answering :
          /\ list' = IF wait.slave = 0 THEN list
                     ELSE [list EXCEPT ![wait.slave] = Checked(ans)]
          /\ silent' = silent \cup (Awaited \ ans)
          /\ \/ /\ Go("control", "wait", "idle")
                /\ ctx' = None /\ wait' = NoWait
                /\ reached' = HitExact(ans)
             \/ /\ ~HitExact(ans)
                /\ UNCHANGED <<pc, ctx, waiting>>
    BY <1>9 DEF Wait
  <2>1. Checked(ans) \in SUBSET {1, 2, 4, 8}
    BY AnsweringType, OrIsNone DEF Checked
  <2>2. list' \in [Slaves -> SUBSET {1, 2, 4, 8}]
    BY <2>1 DEF TypeOK
  <2>3. silent' \subseteq Slaves
    <3>1. wait.slave \in 0 .. N
      BY DEF TypeOK
    <3>2. Awaited \subseteq Slaves
      BY <3>1, SlaveStatesAssumption DEF Awaited, Slaves
    <3> QED
      BY <3>2 DEF TypeOK
  <2>4. /\ pc' \in [Threads -> PC] /\ ctx' \in Threads \cup {None}
        /\ wait' \in [slave : 0 .. N, state : States \cup {NONE}]
    BY SlaveStatesAssumption DEF TypeOK, PC, waiting, NoWait
  <2>5. reached' \in BOOLEAN
    BY DEF TypeOK, waiting, HitExact
  <2> QED
    BY <1>9, <2>2, <2>3, <2>4, <2>5 DEF Wait, TypeOK, bus, diag, reading
<1>10. ASSUME NEW s \in 0 .. N, NEW st \in States, SetState(s, st) PROVE TypeOK'
  <2>1. list' \in [Slaves -> SUBSET {1, 2, 4, 8}]
    <3>1. st \in SUBSET {1, 2, 4, 8}
      BY SlaveStatesAssumption DEF Named, BOOT, OPERATIONAL
    <3> QED
      BY <1>10, <3>1 DEF SetState, TypeOK
  <2>2. al' \in [Slaves -> Status]
    BY <1>10 DEF SetState, TypeOK, Status
  <2> QED
    BY <1>10, <2>1, <2>2 DEF SetState, TypeOK, diag, waiting, reading
<1>11. ASSUME NEW s \in 0 .. N, NEW st \in States, WaitBegin(s, st) PROVE TypeOK'
  BY <1>11 DEF WaitBegin, TypeOK, PC, Threads, bus, known, diag, reading
<1>12. CASE UNCHANGED vars
  BY <1>12 DEF vars, TypeOK, bus, known, diag, waiting, reading
<1> QED
  BY <1>1, <1>2, <1>3, <1>4, <1>5, <1>6, <1>7, <1>8, <1>9, <1>10, <1>11, <1>12 DEF Next

(* SlaveStates keeps its types for any number of slaves.                   *)
THEOREM Typed == Spec => []TypeOK
BY TypeInit, TypeNext, PTL DEF Spec

(***************************************************************************)
(* Monitoring. While the slaves are read one frame after the other, a      *)
(* lowest state that is still OPERATIONAL means that all those read so far *)
(* have answered OPERATIONAL; the other frames of the same reading cannot  *)
(* be another thread's, which would have to hold contextMutex_.            *)
(***************************************************************************)
ReadSoFar(t) == IF pc[t] = "multi" THEN {s \in Slaves : s < next} ELSE Slaves
ReadingInv ==
    /\ \A t \in Threads : pc[t] \in {"multi", "wait"} => ctx = t
    /\ \A t \in Threads : pc[t] \in {"multi", "done"} /\ lowest[t] >= 8 =>
          \A s \in ReadSoFar(t) : seen[t][s] = OPERATIONAL

LEMMA ReadingInit == Init => ReadingInv
BY DEF Init, ReadingInv

LEMMA ReadingNext == TypeOK /\ ReadingInv /\ [Next]_vars => ReadingInv'
<1> SUFFICES ASSUME TypeOK, ReadingInv, [Next]_vars PROVE ReadingInv'
  OBVIOUS
<1> USE DEF Go
<1>1. ASSUME NEW t \in Threads, ReadBroadcast(t) PROVE ReadingInv'
  <2> PICK ans \in Answering :
          /\ seen' = [seen EXCEPT ![t] = [s \in Slaves |-> Answer(ans, s)]]
          /\ \/ /\ AllSame(ans)
                /\ Go(t, "read", "done") /\ UNCHANGED ctx
                /\ lowest' = [lowest EXCEPT ![t] = Number(OrOf(ans))]
             \/ /\ ~AllSame(ans)
                /\ Go(t, "read", "multi") /\ ctx' = t
                /\ lowest' = [lowest EXCEPT ![t] = 255]
    BY <1>1 DEF ReadBroadcast
  <2>0. ans \in SUBSET Slaves /\ next' = 1 /\ ctx = None
    BY <1>1, AnsweringType DEF ReadBroadcast
  <2>1. \A u \in Threads : pc[u] \notin {"multi", "wait"}
    BY <2>0 DEF ReadingInv, Threads, None
  <2>2. ASSUME NEW u \in Threads, u # t
        PROVE  pc'[u] = pc[u] /\ lowest'[u] = lowest[u] /\ seen'[u] = seen[u]
    BY <2>2 DEF TypeOK
  <2>3. \A u \in Threads : pc'[u] \in {"multi", "wait"} => ctx' = u
    BY <2>1, <2>2 DEF TypeOK
  <2>4. ASSUME NEW u \in Threads, pc'[u] \in {"multi", "done"}, lowest'[u] >= 8,
               NEW s \in ReadSoFar(u)'
        PROVE  seen'[u][s] = OPERATIONAL
    <3>1. CASE u # t
      BY <3>1, <2>1, <2>2, <2>4 DEF ReadingInv, ReadSoFar
    <3>2. CASE u = t /\ AllSame(ans)
      <4>1. pc'[t] = "done" /\ Number(OrOf(ans)) >= 8 /\ s \in Slaves
        BY <3>2, <2>4 DEF TypeOK, ReadSoFar
      <4>2. Answer(ans, s) = OPERATIONAL
        BY <2>0, <3>2, <4>1, OrIsOperational
      <4> QED
        BY <3>2, <4>1, <4>2 DEF TypeOK
    <3>3. CASE u = t /\ ~AllSame(ans)
      <4>1. pc'[t] = "multi"
        BY <3>3 DEF TypeOK
      <4>2. s \in Slaves /\ s < 1
        BY <3>3, <4>1, <2>0, <2>4 DEF ReadSoFar
      <4> QED
        BY <4>2 DEF Slaves
    <3> QED
      BY <3>1, <3>2, <3>3
  <2> QED
    BY <2>3, <2>4 DEF ReadingInv
<1>2. ASSUME NEW t \in Threads, ReadMulti(t) PROVE ReadingInv'
  <2> PICK ans \in Answering :
          /\ seen' = [seen EXCEPT ![t] = Read(ans, seen[t])]
          /\ \E n \in LeastOf(ans, lowest[t]) : lowest' = [lowest EXCEPT ![t] = n]
    BY <1>2 DEF ReadMulti
  <2> PICK n \in LeastOf(ans, lowest[t]) : lowest' = [lowest EXCEPT ![t] = n]
    OBVIOUS
  <2>1. pc[t] = "multi" /\ ctx = t
    BY <1>2 DEF ReadMulti
  <2>2. \A u \in Threads : u # t => pc[u] \notin {"multi", "wait"}
    BY <2>1 DEF ReadingInv
  <2>3. ASSUME NEW u \in Threads, u # t
        PROVE  pc'[u] = pc[u] /\ lowest'[u] = lowest[u] /\ seen'[u] = seen[u]
    BY <1>2, <2>3 DEF TypeOK, ReadMulti
  <2>4. \A u \in Threads : pc'[u] \in {"multi", "wait"} => ctx' = u
    BY <1>2, <2>1, <2>2, <2>3 DEF TypeOK, ReadMulti
  <2>5. ASSUME n >= 8 PROVE \A s \in Chunk : s \in Slaves => Answer(ans, s) = OPERATIONAL
    <3> TAKE s \in Chunk
    <3> HAVE s \in Slaves
    <3>1. n <= Number(Answer(ans, s))
      BY DEF LeastOf
    <3>2. Answer(ans, s) \in States \cup {NONE}
      BY AnsweringType, OrIsNone
    <3>3. Number(Answer(ans, s)) \in {0, 1, 2, 3, 4, 8}
      BY <3>2, NumberOfStates
    <3>4. n \in Int
      BY <3>2, NumberOfStates, OrIsNone DEF LeastOf, TypeOK, Number
    <3>5. Number(Answer(ans, s)) >= 8
      BY <2>5, <3>1, <3>3, <3>4
    <3> QED
      BY <3>2, <3>5, NumberOfStates
  <2>6. n >= 8 => lowest[t] >= 8
    <3>1. n <= lowest[t] /\ lowest[t] \in 0 .. 255
      BY DEF LeastOf, TypeOK
    <3>2. n = lowest[t] \/ \E s \in Chunk : n = Number(Answer(ans, s))
      BY DEF LeastOf
    <3>3. n \in Int
      BY <3>1, <3>2 DEF Number
    <3> QED
      BY <3>1, <3>3
  <2>7. \A s \in ReadSoFar(t)' : s \in Slaves /\ (s < next \/ s \in Chunk)
    BY <1>2, <2>1, SlaveStatesAssumption
       DEF ReadMulti, ReadSoFar, TypeOK, Chunk, Slaves
  <2>8. ASSUME NEW u \in Threads, pc'[u] \in {"multi", "done"}, lowest'[u] >= 8,
               NEW s \in ReadSoFar(u)'
        PROVE  seen'[u][s] = OPERATIONAL
    <3>1. CASE u # t
      BY <3>1, <2>2, <2>3, <2>8 DEF ReadingInv, ReadSoFar
    <3>2. CASE u = t /\ s \in Chunk
      <4>1. n >= 8 /\ s \in Slaves
        BY <3>2, <2>7, <2>8 DEF TypeOK
      <4>2. seen'[t][s] = Answer(ans, s)
        BY <3>2, <4>1 DEF TypeOK, Read
      <4> QED
        BY <3>2, <4>1, <4>2, <2>5
    <3>3. CASE u = t /\ s \notin Chunk
      <4>1. lowest[t] >= 8 /\ s \in Slaves /\ s < next
        BY <3>3, <2>6, <2>7, <2>8 DEF TypeOK
      <4>2. seen'[t][s] = seen[t][s]
        BY <3>3, <4>1 DEF TypeOK, Read
      <4>3. seen[t][s] = OPERATIONAL
        BY <4>1, <2>1 DEF ReadingInv, ReadSoFar
      <4> QED
        BY <3>3, <4>2, <4>3
    <3> QED
      BY <3>1, <3>2, <3>3
  <2> QED
    BY <2>4, <2>8 DEF ReadingInv
<1>3. ASSUME \A t \in Threads : /\ pc'[t] \in {"multi", "done"} =>
                                     pc'[t] = pc[t] /\ lowest'[t] = lowest[t]
                                     /\ seen'[t] = seen[t],
             next' = next,
             \A t \in Threads : pc'[t] \in {"multi", "wait"} => pc[t] = pc'[t] /\ ctx' = ctx
      PROVE  ReadingInv'
  BY <1>3 DEF ReadingInv, ReadSoFar
<1>4. CASE SlaveChanges
  BY <1>3, <1>4 DEF SlaveChanges, reading
<1>5. CASE MonitorBegin
  BY <1>3, <1>5 DEF MonitorBegin, reading, TypeOK
<1>6. CASE MonitorStates
  BY <1>3, <1>6 DEF MonitorStates, TypeOK, Threads
<1>7. CASE MonitorCounters
  BY <1>3, <1>7 DEF MonitorCounters, reading, TypeOK
<1>8. CASE GetStateBegin
  BY <1>3, <1>8 DEF GetStateBegin, reading, TypeOK
<1>9. CASE GetStateEnd
  BY <1>3, <1>9 DEF GetStateEnd, TypeOK, Threads
<1>10. ASSUME NEW s \in 0 .. N, NEW st \in States, SetState(s, st) PROVE ReadingInv'
  BY <1>3, <1>10 DEF SetState, reading
<1>11. ASSUME NEW s \in 0 .. N, NEW st \in States, WaitBegin(s, st) PROVE ReadingInv'
  <2>1. \A t \in Threads : pc[t] \notin {"multi", "wait"}
    BY <1>11 DEF WaitBegin, ReadingInv, Threads, None
  <2>2. \A t \in Threads : pc'[t] \in {"multi", "wait"} => t = "control" /\ ctx' = "control"
    BY <1>11, <2>1 DEF WaitBegin, TypeOK, Threads
  <2>3. \A t \in Threads : pc'[t] \in {"multi", "done"} => pc'[t] = pc[t]
    BY <1>11 DEF WaitBegin, TypeOK
  <2> QED
    BY <1>11, <2>1, <2>2, <2>3 DEF WaitBegin, reading, ReadingInv, ReadSoFar
<1>12. CASE Wait
  <2>1. /\ pc["control"] = "wait" /\ UNCHANGED <<next, lowest, seen>>
        /\ \/ pc' = [pc EXCEPT !["control"] = "idle"]
           \/ UNCHANGED <<pc, ctx>>
    BY <1>12 DEF Wait, reading
  <2>2. \A t \in Threads : t # "control" => pc[t] \notin {"multi", "wait"}
    BY <2>1 DEF ReadingInv, Threads
  <2> QED
    BY <2>1, <2>2 DEF TypeOK, ReadingInv, ReadSoFar, Threads
<1>13. CASE UNCHANGED vars
  BY <1>3, <1>13 DEF vars, reading
<1> QED
  BY <1>1, <1>2, <1>4, <1>5, <1>6, <1>7, <1>8, <1>9, <1>10, <1>11, <1>12, <1>13 DEF Next

(* What a doBusMonitoring that reads the states returns, for any number of *)
(* slaves, and any frame size.                                             *)
THEOREM MonitoringIsSound == Spec => FineMeansOperational
<1>1. TypeOK /\ ReadingInv /\ [Next]_vars =>
        [ MonitorReturns("done") /\ allFine' =>
            \A s \in Slaves : seen["monitor"][s] = OPERATIONAL ]_vars
  <2> SUFFICES ASSUME TypeOK, ReadingInv, [Next]_vars, MonitorReturns("done"), allFine'
               PROVE  \A s \in Slaves : seen["monitor"][s] = OPERATIONAL
    OBVIOUS
  <2> USE DEF Go
  <2>1. pc["monitor"] = "done" /\ pc'["monitor"] = "idle"
    BY DEF MonitorReturns
  <2>2. MonitorStates
    <3>1. ASSUME NEW t \in Threads, ReadBroadcast(t) PROVE FALSE
      BY <2>1, <3>1 DEF ReadBroadcast, TypeOK, Threads
    <3>2. ASSUME NEW t \in Threads, ReadMulti(t) PROVE FALSE
      BY <2>1, <3>2 DEF ReadMulti, TypeOK, Threads
    <3>3. ~SlaveChanges /\ ~MonitorBegin /\ ~MonitorCounters /\ ~(UNCHANGED vars)
      BY <2>1 DEF SlaveChanges, MonitorBegin, MonitorCounters, vars
    <3>4. ~GetStateBegin /\ ~GetStateEnd
      BY <2>1 DEF GetStateBegin, GetStateEnd, TypeOK, Threads
    <3>5. ~Wait
      BY <2>1 DEF Wait, TypeOK, Threads
    <3>6. ASSUME NEW s \in 0 .. N, NEW st \in States, SetState(s, st) \/ WaitBegin(s, st)
          PROVE  FALSE
      BY <2>1, <3>6 DEF SetState, WaitBegin, TypeOK, Threads
    <3> QED
      BY <3>1, <3>2, <3>3, <3>4, <3>5, <3>6 DEF Next
  <2>3. lowest["monitor"] >= 8
    BY <2>2, NumberOfStates DEF MonitorStates
  <2> QED
    BY <2>1, <2>3 DEF ReadingInv, ReadSoFar, Threads
<1> QED
  BY <1>1, TypeInit, TypeNext, ReadingInit, ReadingNext, PTL DEF Spec, FineMeansOperational

(***************************************************************************)
(* The lowest state, and awaited states. INIT, PRE_OP and BOOT cannot be   *)
(* told from each other when they are ORed: what follows needs slaves that *)
(* are in at most one of those at a time.                                  *)
(***************************************************************************)
Unambiguous ==
    \A a, b \in States : a # b => a \cap b = {} /\ a \cup b \notin Named

(* Slaves whose states together are one state are all in it.               *)
LEMMA OrIsEach ==
    ASSUME Unambiguous, TypeOK, NEW some \in SUBSET Slaves, OrOf(some) \in Named
    PROVE  \A s \in some : al[s].bits = OrOf(some)
<1>1. \A s \in some : al[s].bits \in States /\ al[s].bits \subseteq OrOf(some)
  BY OrIsNone DEF OrOf
<1>2. \A b \in States : b \in {{1}, {2}, {1, 2}, {4}, {8}}
  BY SlaveStatesAssumption DEF Named, BOOT, OPERATIONAL
<1>3. TAKE s \in some
<1>4. ASSUME NEW r \in some PROVE al[r].bits = al[s].bits
  <2> DEFINE a == al[r].bits
             b == al[s].bits
  <2>1. a \in States /\ b \in States /\ a \cup b \subseteq OrOf(some)
    BY <1>1
  <2> HIDE DEF a, b
  <2>2. a \in {{1}, {2}, {1, 2}, {4}, {8}} /\ b \in {{1}, {2}, {1, 2}, {4}, {8}}
    BY <1>2, <2>1
  <2>3. OrOf(some) \in {{1}, {2}, {1, 2}, {4}, {8}}
    BY DEF Named, BOOT, OPERATIONAL
  <2>4. a # b => a \cap b = {} /\ a \cup b \notin {{1}, {2}, {1, 2}, {4}, {8}}
    BY <2>1 DEF Unambiguous, Named, BOOT, OPERATIONAL
  <2>5. a = b
    BY <2>1, <2>2, <2>3, <2>4
  <2> QED
    BY <2>5 DEF a, b
<1> QED
  BY <1>4 DEF OrOf

Least(t) ==
    /\ \A s \in ReadSoFar(t) : lowest[t] <= Number(seen[t][s])
    /\ \/ pc[t] = "multi" /\ next = 1 /\ lowest[t] = 255
       \/ \E s \in ReadSoFar(t) : lowest[t] = Number(seen[t][s])
LowestInv ==
    /\ next <= N
    /\ \A t \in Threads : pc[t] \in {"multi", "done"} => Least(t)

LEMMA LowestNext ==
    ASSUME Unambiguous, TypeOK, ReadingInv, LowestInv, [Next]_vars
    PROVE  LowestInv'
<1> USE DEF Go
<1>0. next <= N /\ next \in Nat \ {0} /\ N \in Nat \ {0} /\ FPRD_MULTI \in Nat \ {0}
  BY SlaveStatesAssumption DEF LowestInv, TypeOK
<1>1. ASSUME NEW t \in Threads, ReadBroadcast(t) PROVE LowestInv'
  <2> PICK ans \in Answering :
          /\ seen' = [seen EXCEPT ![t] = [s \in Slaves |-> Answer(ans, s)]]
          /\ \/ /\ AllSame(ans)
                /\ Go(t, "read", "done") /\ UNCHANGED ctx
                /\ lowest' = [lowest EXCEPT ![t] = Number(OrOf(ans))]
             \/ /\ ~AllSame(ans)
                /\ Go(t, "read", "multi") /\ ctx' = t
                /\ lowest' = [lowest EXCEPT ![t] = 255]
    BY <1>1 DEF ReadBroadcast
  <2>0. ans \in SUBSET Slaves /\ next' = 1 /\ ctx = None
    BY <1>1, AnsweringType DEF ReadBroadcast
  <2>1. \A u \in Threads : pc[u] # "multi"
    BY <2>0 DEF ReadingInv, Threads, None
  <2>2. ASSUME NEW u \in Threads, u # t, pc'[u] \in {"multi", "done"}
        PROVE  Least(u)'
    <3>1. pc'[u] = pc[u] /\ lowest'[u] = lowest[u] /\ seen'[u] = seen[u]
      BY <2>2 DEF TypeOK
    <3>2. pc[u] = "done" /\ pc'[u] = "done" /\ Least(u)
      BY <2>1, <2>2, <3>1 DEF LowestInv
    <3> QED
      BY <3>1, <3>2 DEF Least, ReadSoFar
  <2>3. CASE AllSame(ans)
    <3>1. ans = Slaves /\ OrOf(ans) \in Named
      BY <2>0, <2>3, AllAnswer DEF AllSame
    <3>2. \A s \in Slaves : al[s].bits = OrOf(ans)
      BY <2>0, <3>1, OrIsEach
    <3>3. /\ pc'[t] = "done" /\ lowest'[t] = Number(OrOf(ans))
          /\ \A s \in Slaves : seen'[t][s] = OrOf(ans)
      BY <2>3, <3>1, <3>2 DEF TypeOK, Answer
    <3>4. 1 \in Slaves
      BY <1>0 DEF Slaves
    <3>5. lowest'[t] <= lowest'[t]
      BY <3>3 DEF Number
    <3>6. Least(t)'
      BY <3>3, <3>4, <3>5 DEF Least, ReadSoFar
    <3> QED
      BY <1>0, <2>0, <2>2, <3>6 DEF LowestInv
  <2>4. CASE ~AllSame(ans)
    <3>1. pc'[t] = "multi" /\ lowest'[t] = 255
      BY <2>4 DEF TypeOK
    <3>2. \A s \in Slaves : ~(s < 1)
      BY DEF Slaves
    <3>3. Least(t)'
      BY <2>0, <3>1, <3>2 DEF Least, ReadSoFar
    <3> QED
      BY <1>0, <2>0, <2>2, <3>3 DEF LowestInv
  <2> QED
    BY <2>3, <2>4
<1>2. ASSUME NEW t \in Threads, ReadMulti(t) PROVE LowestInv'
  <2> PICK ans \in Answering :
          /\ seen' = [seen EXCEPT ![t] = Read(ans, seen[t])]
          /\ \E n \in LeastOf(ans, lowest[t]) : lowest' = [lowest EXCEPT ![t] = n]
    BY <1>2 DEF ReadMulti
  <2> PICK n \in LeastOf(ans, lowest[t]) : lowest' = [lowest EXCEPT ![t] = n]
    OBVIOUS
  <2>1. /\ pc[t] = "multi" /\ ctx = t /\ Least(t)
        /\ \/ N \notin Chunk /\ next' = next + FPRD_MULTI /\ pc' = pc
           \/ N \in Chunk /\ next' = 1 /\ pc' = [pc EXCEPT ![t] = "done"]
    BY <1>2 DEF ReadMulti, LowestInv
  <2>2. ASSUME NEW u \in Threads, u # t, pc'[u] \in {"multi", "done"}
        PROVE  Least(u)'
    <3>1. pc'[u] = pc[u] /\ lowest'[u] = lowest[u] /\ seen'[u] = seen[u]
      BY <2>1, <2>2 DEF TypeOK
    <3>2. pc[u] # "multi"
      BY <2>1, <2>2 DEF ReadingInv
    <3>3. pc[u] = "done" /\ pc'[u] = "done" /\ Least(u)
      BY <2>2, <3>1, <3>2 DEF LowestInv
    <3> QED
      BY <3>1, <3>3 DEF Least, ReadSoFar
  <2>3. next' <= N /\ next \in Chunk /\ Chunk \subseteq Slaves /\ next \in Slaves
    BY <1>0, <2>1 DEF Chunk, Slaves
  <2>4. ReadSoFar(t)' = ReadSoFar(t) \cup Chunk
    <3>1. CASE N \notin Chunk
      <4>1. next + FPRD_MULTI - 1 < N
        BY <1>0, <3>1 DEF Chunk
      <4>2. Chunk = next .. next + FPRD_MULTI - 1
        BY <4>1 DEF Chunk
      <4>3. pc'[t] = "multi" /\ next' = next + FPRD_MULTI
        BY <2>1, <3>1
      <4>4. \A s \in Slaves : s < next + FPRD_MULTI <=> s < next \/ s \in Chunk
        BY <1>0, <4>2 DEF Slaves
      <4> QED
        BY <2>1, <2>3, <4>3, <4>4 DEF ReadSoFar
    <3>2. CASE N \in Chunk
      <4>1. Chunk = next .. N
        BY <1>0, <3>2 DEF Chunk
      <4>2. pc'[t] = "done"
        BY <2>1, <3>2 DEF TypeOK
      <4>3. \A s \in Slaves : s < next \/ s \in Chunk
        BY <1>0, <4>1 DEF Slaves
      <4> QED
        BY <2>1, <2>3, <4>2, <4>3 DEF ReadSoFar
    <3> QED
      BY <3>1, <3>2
  <2>5. /\ \A s \in Chunk : seen'[t][s] = Answer(ans, s)
        /\ \A s \in ReadSoFar(t) : s \notin Chunk /\ seen'[t][s] = seen[t][s]
    <3>1. \A s \in ReadSoFar(t) : s \in Slaves /\ s \notin Chunk
      BY <1>0, <2>1 DEF ReadSoFar, Chunk, Slaves
    <3> QED
      BY <2>3, <3>1 DEF TypeOK, Read
  <2>6. \A s \in Slaves : Number(Answer(ans, s)) \in 0 .. 8
    <3>1. \A s \in Slaves : Answer(ans, s) \in States \cup {NONE}
      BY AnsweringType, OrIsNone
    <3>2. \A b \in States \cup {NONE} : Number(b) \in 0 .. 8
      BY NumberOfStates
    <3> QED
      BY <3>1, <3>2
  <2>7. /\ n <= lowest[t] /\ n \in Int /\ lowest[t] \in 0 .. 255
        /\ \A s \in Chunk : n <= Number(Answer(ans, s))
        /\ n = lowest[t] \/ \E s \in Chunk : n = Number(Answer(ans, s))
    BY <2>3, <2>6 DEF LeastOf, TypeOK
  <2>8. lowest'[t] = n
    BY DEF TypeOK
  <2>9. ASSUME NEW s \in ReadSoFar(t)' PROVE n <= Number(seen'[t][s])
    <3>1. CASE s \in Chunk
      BY <2>5, <2>7, <3>1
    <3>2. CASE s \in ReadSoFar(t)
      <4>1. lowest[t] <= Number(seen[t][s]) /\ Number(seen[t][s]) \in Int
        BY <2>1, <3>2 DEF Least, Number
      <4> QED
        BY <2>5, <2>7, <3>2, <4>1
    <3> QED
      BY <2>4, <2>9, <3>1, <3>2
  <2>10. \E s \in ReadSoFar(t)' : n = Number(seen'[t][s])
    <3>1. CASE \E s \in Chunk : n = Number(Answer(ans, s))
      BY <2>4, <2>5, <3>1
    <3>2. CASE n = lowest[t] /\ \E s \in ReadSoFar(t) : lowest[t] = Number(seen[t][s])
      BY <2>4, <2>5, <3>2
    <3>3. CASE n = lowest[t] /\ lowest[t] = 255
      BY <2>3, <2>6, <2>7, <3>3
    <3> QED
      BY <2>1, <2>7, <3>1, <3>2, <3>3 DEF Least
  <2>11. Least(t)'
    BY <2>8, <2>9, <2>10 DEF Least
  <2> QED
    BY <2>2, <2>3, <2>11 DEF LowestInv
<1>3. ASSUME \A t \in Threads : /\ pc'[t] \in {"multi", "done"} =>
                                     /\ pc'[t] = pc[t] /\ lowest'[t] = lowest[t]
                                     /\ seen'[t] = seen[t],
             next' = next
      PROVE  LowestInv'
  BY <1>3 DEF LowestInv, Least, ReadSoFar
<1>4. CASE SlaveChanges
  BY <1>3, <1>4 DEF SlaveChanges, reading
<1>5. CASE MonitorBegin
  BY <1>3, <1>5 DEF MonitorBegin, reading, TypeOK
<1>6. CASE MonitorStates
  BY <1>3, <1>6 DEF MonitorStates, TypeOK, Threads
<1>7. CASE MonitorCounters
  BY <1>3, <1>7 DEF MonitorCounters, reading, TypeOK
<1>8. CASE GetStateBegin
  BY <1>3, <1>8 DEF GetStateBegin, reading, TypeOK
<1>9. CASE GetStateEnd
  BY <1>3, <1>9 DEF GetStateEnd, TypeOK, Threads
<1>10. ASSUME NEW s \in 0 .. N, NEW st \in States, SetState(s, st) PROVE LowestInv'
  BY <1>3, <1>10 DEF SetState, reading
<1>11. ASSUME NEW s \in 0 .. N, NEW st \in States, WaitBegin(s, st) PROVE LowestInv'
  BY <1>3, <1>11 DEF WaitBegin, reading, TypeOK
<1>12. CASE Wait
  <2>1. /\ UNCHANGED <<next, lowest, seen>>
        /\ pc' = [pc EXCEPT !["control"] = "idle"] \/ UNCHANGED pc
    BY <1>12 DEF Wait, reading
  <2> QED
    BY <1>3, <2>1 DEF TypeOK
<1>13. CASE UNCHANGED vars
  BY <1>3, <1>13 DEF vars, reading
<1> QED
  BY <1>1, <1>2, <1>4, <1>5, <1>6, <1>7, <1>8, <1>9, <1>10, <1>11, <1>12, <1>13 DEF Next

(* ethercatmain.c:719, "lowest state found": what ecx_readstate returns is *)
(* the lowest of the states the slaves answered to it, whether all agreed  *)
(* on the first frame or were read frame by frame, for any number of       *)
(* slaves and any frame size, if their states can be told apart by bits.   *)
THEOREM LowestIsFound == ASSUME Unambiguous PROVE Spec => []LowestIsLowest
<1>1. Init => LowestInv
  BY SlaveStatesAssumption DEF Init, LowestInv
<1>2. LowestInv => LowestIsLowest
  BY DEF LowestInv, Least, ReadSoFar, LowestIsLowest
<1>3. TypeOK /\ ReadingInv /\ LowestInv /\ [Next]_vars => LowestInv'
  BY LowestNext
<1> QED
  BY <1>1, <1>2, <1>3, TypeInit, TypeNext, ReadingInit, ReadingNext, PTL DEF Spec

WaitInv == pc["control"] = "wait" => wait.state \in States

LEMMA WaitNext == TypeOK /\ WaitInv /\ [Next]_vars => WaitInv'
<1> SUFFICES ASSUME TypeOK, WaitInv, [Next]_vars PROVE WaitInv'
  OBVIOUS
<1> USE DEF Go
<1>0. ASSUME pc'["control"] = "wait" => pc["control"] = "wait", wait' = wait
      PROVE  WaitInv'
  BY <1>0 DEF WaitInv
<1>1. ASSUME NEW t \in Threads, ReadBroadcast(t) \/ ReadMulti(t) PROVE WaitInv'
  <2>1. \/ pc' = pc
        \/ \E v \in {"multi", "done"} : pc' = [pc EXCEPT ![t] = v]
    BY <1>1 DEF ReadBroadcast, ReadMulti
  <2>2. pc'["control"] = "wait" => pc["control"] = "wait"
    BY <2>1 DEF TypeOK, Threads
  <2>3. wait' = wait
    BY <1>1 DEF ReadBroadcast, ReadMulti, waiting
  <2> QED
    BY <1>0, <2>2, <2>3
<1>2. CASE SlaveChanges \/ MonitorBegin \/ MonitorStates \/ MonitorCounters
  <2>1. pc' = pc \/ \E v : pc' = [pc EXCEPT !["monitor"] = v]
    BY <1>2 DEF SlaveChanges, MonitorBegin, MonitorStates, MonitorCounters
  <2>2. pc'["control"] = pc["control"]
    BY <2>1 DEF TypeOK, Threads
  <2>3. wait' = wait
    BY <1>2 DEF SlaveChanges, MonitorBegin, MonitorStates, MonitorCounters, waiting
  <2> QED
    BY <1>0, <2>2, <2>3
<1>3. CASE GetStateBegin \/ GetStateEnd
  BY <1>0, <1>3 DEF GetStateBegin, GetStateEnd, waiting, TypeOK, Threads
<1>4. ASSUME NEW s \in 0 .. N, NEW st \in States, SetState(s, st) PROVE WaitInv'
  BY <1>0, <1>4 DEF SetState, waiting
<1>5. ASSUME NEW s \in 0 .. N, NEW st \in States, WaitBegin(s, st) PROVE WaitInv'
  BY <1>5 DEF WaitBegin, WaitInv
<1>6. CASE Wait
  <2>1. \/ pc' = [pc EXCEPT !["control"] = "idle"]
        \/ UNCHANGED <<pc, wait>>
    BY <1>6 DEF Wait, waiting
  <2>2. pc'["control"] = "idle" \/ UNCHANGED <<pc, wait>>
    BY <2>1 DEF TypeOK, Threads
  <2> QED
    BY <1>0, <2>2 DEF WaitInv
<1>7. CASE UNCHANGED vars
  BY <1>0, <1>7 DEF vars, waiting
<1> QED
  BY <1>1, <1>2, <1>3, <1>4, <1>5, <1>6, <1>7 DEF Next

(* EthercatBusBase.cpp:665: when waitForState returns true, somebody       *)
(* answered, and all that answered and were awaited were in the state, for *)
(* any number of slaves whose states can be told apart by their bits.      *)
THEOREM WaitingIsRight == ASSUME Unambiguous PROVE Spec => WaitIsRight
<1>1. Init => WaitInv
  BY DEF Init, WaitInv, Threads
<1>2. TypeOK /\ WaitInv /\ [Next]_vars =>
        [ pc["control"] = "wait" /\ reached' /\ pc'["control"] = "idle" =>
            /\ \A s \in Awaited \cap present : al[s].bits = wait.state
            /\ Awaited \cap present # {} ]_vars
  <2> SUFFICES ASSUME TypeOK, WaitInv, [Next]_vars,
                      pc["control"] = "wait", reached', pc'["control"] = "idle"
               PROVE  /\ \A s \in Awaited \cap present : al[s].bits = wait.state
                      /\ Awaited \cap present # {}
    OBVIOUS
  <2> USE DEF Go
  <2>1. Wait
    <3>1. ASSUME NEW t \in Threads, ReadBroadcast(t) \/ ReadMulti(t) PROVE FALSE
      BY <3>1 DEF ReadBroadcast, ReadMulti, TypeOK, Threads
    <3>2. ~SlaveChanges /\ ~(UNCHANGED vars)
      BY DEF SlaveChanges, vars
    <3>3. ~MonitorBegin /\ ~MonitorStates /\ ~MonitorCounters
      BY DEF MonitorBegin, MonitorStates, MonitorCounters, TypeOK, Threads
    <3>4. ~GetStateBegin /\ ~GetStateEnd
      BY DEF GetStateBegin, GetStateEnd
    <3>5. ASSUME NEW s \in 0 .. N, NEW st \in States, SetState(s, st) \/ WaitBegin(s, st)
          PROVE  FALSE
      BY <3>5 DEF SetState, WaitBegin
    <3> QED
      BY <3>1, <3>2, <3>3, <3>4, <3>5 DEF Next
  <2>2. PICK ans \in Answering : reached' = HitExact(ans)
    BY <2>1 DEF Wait
  <2>3. wait.state \in States /\ wait.slave \in 0 .. N
    BY DEF WaitInv, TypeOK
  <2>4. OrOf(ans \cap Awaited) = wait.state
    BY <2>2 DEF HitExact, Checked
  <2>5. wait.state # {} /\ wait.state \in Named
    BY <2>3, StatesAreNotNone, SlaveStatesAssumption DEF NONE
  <2>6. ans = present
    BY <2>4, <2>5 DEF Answering, OrOf
  <2>7. Awaited \cap present # {}
    BY <2>4, <2>5, <2>6 DEF OrOf
  <2>8. present \cap Awaited \in SUBSET Slaves
    BY DEF TypeOK
  <2>9. \A s \in present \cap Awaited : al[s].bits = wait.state
    BY <2>4, <2>5, <2>6, <2>8, OrIsEach
  <2> QED
    BY <2>7, <2>9
<1> QED
  BY <1>1, <1>2, TypeInit, TypeNext, WaitNext, PTL DEF Spec, WaitIsRight

(***************************************************************************)
(* Lost slaves. slavelist can hold NONE, which is what marks a slave lost, *)
(* only for a slave that has failed to answer: the states written to it by *)
(* setState, and those read from a slave that answers, are never NONE.     *)
(***************************************************************************)
LostInv == /\ \A s \in Slaves : list[s] = NONE => s \in silent
           /\ LostWasSilent

LEMMA LostInit == Init => LostInv
<1> SUFFICES ASSUME Init PROVE LostInv
  OBVIOUS
<1>1. \A s \in Slaves : list[s] \in States
  BY DEF Init
<1> QED
  BY <1>1, StatesAreNotNone DEF Init, LostInv, LostWasSilent

LEMMA LostNext == TypeOK /\ LostInv /\ [Next]_vars => LostInv'
<1> SUFFICES ASSUME TypeOK, LostInv, [Next]_vars PROVE LostInv'
  OBVIOUS
<1>0. ASSUME UNCHANGED <<list, islost>>, silent \subseteq silent' PROVE LostInv'
  BY <1>0 DEF LostInv, LostWasSilent
<1>1. ASSUME NEW t \in Threads, ReadBroadcast(t) PROVE LostInv'
  <2> PICK ans \in Answering :
          /\ silent' = silent \cup (Slaves \ ans)
          /\ \/ AllSame(ans) /\ list' = [s \in Slaves |-> OrOf(ans)]
             \/ UNCHANGED list
    BY <1>1 DEF ReadBroadcast
  <2>1. islost' = islost
    BY <1>1 DEF ReadBroadcast
  <2>2. AllSame(ans) => OrOf(ans) # NONE
    BY StatesAreNotNone DEF AllSame
  <2> QED
    BY <2>1, <2>2 DEF LostInv, LostWasSilent
<1>2. ASSUME NEW t \in Threads, ReadMulti(t) PROVE LostInv'
  <2> PICK ans \in Answering :
          silent' = silent \cup (Chunk \ ans) /\ list' = Read(ans, list)
    BY <1>2 DEF ReadMulti
  <2>1. islost' = islost
    BY <1>2 DEF ReadMulti
  <2>2. \A s \in Slaves : Answer(ans, s) = NONE => s \notin ans
    BY AnsweringType, OrIsNone
  <2>3. \A s \in Slaves : list'[s] = NONE => s \in silent'
    BY <2>2 DEF LostInv, Read
  <2> QED
    BY <2>1, <2>3 DEF LostInv, LostWasSilent
<1>3. CASE MonitorStates
  <2>1. UNCHANGED <<list, silent>>
    BY <1>3 DEF MonitorStates
  <2>2. \A s \in Slaves : islost'[s] => islost[s] \/ list[s] = NONE
    BY <1>3 DEF MonitorStates, NowLost
  <2> QED
    BY <2>1, <2>2 DEF LostInv, LostWasSilent
<1>4. CASE Wait
  <2> PICK ans \in Answering :
          /\ list' = IF wait.slave = 0 THEN list
                     ELSE [list EXCEPT ![wait.slave] = Checked(ans)]
          /\ silent' = silent \cup (Awaited \ ans)
    BY <1>4 DEF Wait
  <2>1. islost' = islost
    BY <1>4 DEF Wait
  <2>2. ASSUME wait.slave # 0, Checked(ans) = NONE PROVE wait.slave \notin ans
    <3>1. ans \cap Awaited = {}
      BY <2>2, AnsweringType, OrIsNone DEF Checked
    <3> QED
      BY <2>2, <3>1 DEF Awaited
  <2>3. ASSUME NEW s \in Slaves, list'[s] = NONE PROVE s \in silent'
    <3>1. CASE wait.slave = s
      <4>1. s # 0 /\ Checked(ans) = NONE
        BY <2>3, <3>1, SlaveStatesAssumption DEF Slaves, TypeOK
      <4> QED
        BY <2>2, <3>1, <4>1 DEF Awaited
    <3>2. CASE wait.slave # s
      BY <2>3, <3>2 DEF LostInv, TypeOK
    <3> QED
      BY <3>1, <3>2
  <2> QED
    BY <2>1, <2>3 DEF LostInv, LostWasSilent
<1>5. ASSUME NEW s \in 0 .. N, NEW st \in States, SetState(s, st) PROVE LostInv'
  <2>1. UNCHANGED <<islost, silent>> /\ list' = IF s = 0 THEN list ELSE [list EXCEPT ![s] = st]
    BY <1>5 DEF SetState
  <2>2. \A r \in Slaves : list'[r] = NONE => list[r] = NONE
    BY <2>1, StatesAreNotNone DEF TypeOK
  <2> QED
    BY <2>1, <2>2 DEF LostInv, LostWasSilent
<1>6. CASE SlaveChanges \/ MonitorBegin \/ MonitorCounters \/ GetStateBegin \/ GetStateEnd
           \/ UNCHANGED vars
  BY <1>0, <1>6 DEF SlaveChanges, MonitorBegin, MonitorCounters, GetStateBegin, GetStateEnd,
                    vars, known
<1>7. ASSUME NEW s \in 0 .. N, NEW st \in States, WaitBegin(s, st) PROVE LostInv'
  BY <1>0, <1>7 DEF WaitBegin, known
<1> QED
  BY <1>1, <1>2, <1>3, <1>4, <1>5, <1>6, <1>7 DEF Next

(* A slave is marked lost only after it has failed to answer.              *)
THEOREM NoPresentSlaveIsLost == Spec => []LostWasSilent
<1>1. LostInv => LostWasSilent
  BY DEF LostInv
<1> QED
  BY <1>1, TypeInit, TypeNext, LostInit, LostNext, PTL DEF Spec

(***************************************************************************)
(* The sweep over the slaves' error counters.                              *)
(***************************************************************************)
SweepInv == (cur # 0 => swept = 1 .. cur) /\ LogIsComplete

LEMMA SweepNext == TypeOK /\ SweepInv /\ [Next]_vars => SweepInv'
<1> SUFFICES ASSUME TypeOK, SweepInv, [Next]_vars PROVE SweepInv'
  OBVIOUS
<1>0. ASSUME UNCHANGED <<cur, swept>>, fullyUpdated' => fullyUpdated PROVE SweepInv'
  BY <1>0 DEF SweepInv, LogIsComplete
<1>1. CASE MonitorCounters
  <2>1. swept' = 1 .. cur + 1
    BY <1>1 DEF MonitorCounters, SweepInv, TypeOK
  <2>2. CASE CursorAtEnd
    <3>1. cur + 1 = N
      BY <2>2, SlaveStatesAssumption DEF CursorAtEnd, TypeOK
    <3> QED
      BY <1>1, <2>1, <2>2, <3>1 DEF MonitorCounters, SweepInv, LogIsComplete, Slaves
  <2>3. CASE ~CursorAtEnd
    BY <1>1, <2>1, <2>3 DEF MonitorCounters, SweepInv, LogIsComplete
  <2> QED
    BY <2>2, <2>3
<1>2. CASE MonitorBegin
  BY <1>0, <1>2 DEF MonitorBegin
<1>3. CASE \/ SlaveChanges \/ MonitorStates \/ GetStateBegin \/ GetStateEnd \/ Wait
           \/ \E t \in Threads : ReadBroadcast(t) \/ ReadMulti(t)
           \/ \E s \in 0 .. N, st \in States : SetState(s, st) \/ WaitBegin(s, st)
           \/ UNCHANGED vars
  BY <1>0, <1>3 DEF SlaveChanges, MonitorStates, GetStateBegin, GetStateEnd, Wait,
                    ReadBroadcast, ReadMulti, SetState, WaitBegin, vars, diag
<1> QED
  BY <1>1, <1>2, <1>3 DEF Next

(* The diagnosis log is complete whenever it is handed out.                *)
THEOREM SweepIsComplete == Spec => []LogIsComplete
<1>1. Init => SweepInv
  BY DEF Init, SweepInv, LogIsComplete
<1>2. SweepInv => LogIsComplete
  BY DEF SweepInv
<1> QED
  BY <1>1, <1>2, TypeInit, TypeNext, SweepNext, PTL DEF Spec
=============================================================================
