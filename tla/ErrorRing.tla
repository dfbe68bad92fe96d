----------------------------- MODULE ErrorRing -----------------------------
(***************************************************************************)
(* The error list of a SOEM context (ec_eringt, ethercatmain.c): a ring of *)
(* EC_MAXELIST + 1 slots between tail and head, of which one is always     *)
(* free, and the flag ecaterror. Pushing to a full ring drops the oldest.  *)
(* The ring has no lock of its own.                                        *)
(***************************************************************************)
EXTENDS Integers, Sequences

CONSTANTS MAXELIST, Entry, NoEntry

ASSUME RingAssumption == MAXELIST \in Nat \ {0} /\ NoEntry \notin Entry

VARIABLES Error, head, tail, ecaterror

ring == <<Error, head, tail, ecaterror>>

Slots == 0 .. MAXELIST

RingTypeOK ==
    /\ Error \in [Slots -> Entry \cup {NoEntry}]
    /\ head \in Slots /\ tail \in Slots
    /\ ecaterror \in BOOLEAN

RingInit ==
    /\ Error = [i \in Slots |-> NoEntry]
    /\ head = 0 /\ tail = 0
    /\ ecaterror = FALSE

AfterEarly(i) == IF i + 1 >= MAXELIST THEN 0 ELSE i + 1
After(i) == IF i + 1 > MAXELIST THEN 0 ELSE i + 1

PushKeepingTail(e) ==
    /\ Error' = [Error EXCEPT ![head] = e]
    /\ head' = After(head)
    /\ UNCHANGED tail
    /\ ecaterror' = TRUE

(* ecx_pusherror *)
Push(e) ==
    /\ Error' = [Error EXCEPT ![head] = e]
    /\ head' = After(head)
    /\ tail' = IF After(head) = tail THEN After(tail) ELSE tail
    /\ ecaterror' = TRUE

(* ecx_iserror *)
IsError == head # tail

(* The tail a pop leaves behind; the entry it returns is Error[tail].      *)
AdvanceTailNever == UNCHANGED ring
AdvanceTail ==
    /\ tail' = After(tail)
    /\ UNCHANGED <<Error, head, ecaterror>>

(* ecx_poperror in one piece, as its callers use it: only after            *)
(* ecx_iserror has said TRUE.                                              *)
PopError == IsError /\ AdvanceTail

(* ecx_poperror on an empty ring *)
PopNothing ==
    /\ ~IsError
    /\ ecaterror' = FALSE
    /\ UNCHANGED <<Error, head, tail>>

RingNext == PopError \/ PopNothing \/ \E e \in Entry : Push(e)

RingSpec == RingInit /\ [][RingNext]_ring

-----------------------------------------------------------------------------
(* How many errors the ring holds, and which, oldest first. *)
Count == IF head >= tail THEN head - tail ELSE head + MAXELIST + 1 - tail
At(k) == IF tail + k - 1 > MAXELIST THEN tail + k - 1 - (MAXELIST + 1) ELSE tail + k - 1
Pending == [k \in 1 .. Count |-> Error[At(k)]]

(***************************************************************************)
(* The ring implements the list of the EC_MAXELIST newest errors.          *)
(***************************************************************************)
Recent == INSTANCE RecentEntries WITH entries <- Pending, Capacity <- MAXELIST
ImplementsRecent == Recent!Spec

(***************************************************************************)
(* The flag a caller may poll instead of the list does not miss an error.  *)
(***************************************************************************)
FlagIsUp == IsError => ecaterror
=============================================================================
