------------------------------ MODULE SlidingWindow ------------------------------
(***************************************************************************)
(* What a window of metrics.c promises its readers: the last Size entries  *)
(* that were recorded, oldest first.                                       *)
(***************************************************************************)
EXTENDS Naturals, Sequences

CONSTANTS Size, Entries

VARIABLE recent

LastEntries(q) ==
    IF Len(q) > Size THEN SubSeq(q, Len(q) - Size + 1, Len(q)) ELSE q

Init == recent = <<>>

Record(e) == recent' = LastEntries(Append(recent, e))

Next == \E e \in Entries : Record(e)

Spec == Init /\ [][Next]_recent

================================================================================
