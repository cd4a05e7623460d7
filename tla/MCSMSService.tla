---------------------------- MODULE MCSMSService ----------------------------
(***************************************************************************)
(* Finite instances of SMSService: two handlers that send with one key.    *)
(***************************************************************************)
EXTENDS SMSService, SequencesExt

CONSTANTS r1, r2, k

RequestSymmetry == Permutations(Requests)

\* One entry dropped for each new one leaves the newest, as Newest says.
Push(q, id) ==
    IF Len(q) >= QueueMax
    THEN Append(SubSeq(q, Len(q) - QueueMax + 2, Len(q)), id)
    ELSE Append(q, id)

ASSUME PushKeepsNewest ==
    \A n \in 0..QueueMax, m \in 0..(QueueMax + 3) :
        LET q == [i \in 1..n |-> i]
            new == [i \in 1..m |-> n + i]
        IN  FoldLeft(Push, q, new) = Newest(q \o new)

=============================================================================
