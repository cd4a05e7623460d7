----------------------------- MODULE BoundedLog -----------------------------
(***************************************************************************)
(* What the signal history promises: a log of the newest Cap samples, of   *)
(* which complete copies are stored, and from which a restart begins with  *)
(* the newest samples of the stored copy (or with nothing when the copy    *)
(* cannot be read).                                                        *)
(***************************************************************************)
EXTENDS Naturals, Sequences

CONSTANTS
    Cap,        \* how many samples the log keeps
    Samples,    \* the samples
    Savers,     \* who stores copies
    None        \* no copy

VARIABLES log, stored, taken

vars == <<log, stored, taken>>

\* The newest samples of s, as many as the log keeps.
Newest(s) == IF Len(s) <= Cap THEN s ELSE SubSeq(s, Len(s) - Cap + 1, Len(s))

Init ==
    /\ stored \in Seq(Samples) \cup {None}
    /\ log \in {<<>>} \cup (IF stored = None THEN {} ELSE {Newest(stored)})
    /\ taken = [s \in Savers |-> None]

Add(sample) ==
    /\ log' = Newest(Append(log, sample))
    /\ UNCHANGED <<stored, taken>>

Take(s) ==
    /\ taken' = [taken EXCEPT ![s] = log]
    /\ UNCHANGED <<log, stored>>

Store(s) ==
    /\ taken[s] # None
    /\ stored' = taken[s]
    /\ taken' = [taken EXCEPT ![s] = None]
    /\ UNCHANGED log

GiveUp(s) ==
    /\ taken' = [taken EXCEPT ![s] = None]
    /\ UNCHANGED <<log, stored>>

Restart ==
    /\ log' \in {<<>>} \cup (IF stored = None THEN {} ELSE {Newest(stored)})
    /\ taken' = [s \in Savers |-> None]
    /\ UNCHANGED stored

Next ==
    \/ \E sample \in Samples : Add(sample)
    \/ \E s \in Savers : Take(s) \/ Store(s) \/ GiveUp(s)
    \/ Restart

Spec == Init /\ [][Next]_vars
=============================================================================
