--------------------------- MODULE RecentEntries ---------------------------
(***************************************************************************)
(* What a bounded diagnostic list promises: it holds the newest entries,   *)
(* oldest first; adding to a full list drops the oldest entry.             *)
(***************************************************************************)
EXTENDS Integers, Sequences

CONSTANTS Entry,    \* what can be recorded
          Capacity  \* entries kept

VARIABLE entries

Init == entries = <<>>

Add == \E e \in Entry :
    \/ Len(entries) < Capacity /\ entries' = Append(entries, e)
    \/ Len(entries) = Capacity /\ entries' = Append(Tail(entries), e)

TakeOldest == entries # <<>> /\ entries' = Tail(entries)

Clear == entries' = <<>>

Next == Add \/ TakeOldest \/ Clear

Spec == Init /\ [][Next]_entries
=============================================================================
