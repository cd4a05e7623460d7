---------------------------- MODULE HistoryRing ----------------------------
(***************************************************************************)
(* The signal history: repository.Ring, the file it is saved to every      *)
(* minute and at shutdown and loaded from at start, and main's order of    *)
(* the two savers.  A save writes a temporary file and renames it; the     *)
(* process may die at any point.  Samples are numbered in the order the    *)
(* poller takes them.                                                      *)
(***************************************************************************)
EXTENDS Naturals, Sequences

CONSTANTS
    Cap,            \* capacity of the ring
    MaxSamples,     \* bound on the samples taken
    MaxFile,        \* bound on the length of the file of an earlier run
    MaxCrashes,     \* bound on the crashes
    Ticker, Final,  \* the history-save goroutine and main's last save
    None            \* no file; no data

ASSUME RingAssumption ==
    /\ Cap \in Nat \ {0}
    /\ MaxSamples \in Nat /\ MaxFile \in Nat /\ MaxCrashes \in Nat
    /\ Ticker # Final
    /\ None \notin Seq(0..(MaxSamples + MaxFile))

Savers == {Ticker, Final}

Samples == 1..(MaxSamples + MaxFile)

\* A file that is being written and not complete.
Torn == <<0>>

VARIABLES
    buf, head, size,    \* Ring
    next,               \* history: number of the next sample
    saver,              \* stage of each saver
    snap,               \* snapshot each saver is writing
    tmp, file,          \* path.tmp and path
    stopping,           \* has main cancelled the background goroutines?
    crashes

ring == <<buf, head, size>>

vars == <<ring, next, saver, snap, tmp, file, stopping, crashes>>

SaverStages == {"idle", "snapped", "writing", "written", "done"}

TypeOK ==
    /\ buf \in [0..(Cap - 1) -> Samples \cup {0}]
    /\ head \in 0..(Cap - 1)
    /\ size \in 0..Cap
    /\ size < Cap => head = size
    /\ next \in 1..(MaxSamples + MaxFile + 1)
    /\ saver \in [Savers -> SaverStages]
    /\ \A s \in Savers : (snap[s] = None) = (saver[s] \in {"idle", "done"})
    /\ stopping \in BOOLEAN
    /\ crashes \in 0..MaxCrashes

\* Ring.Snapshot: oldest to newest.
Snapshot ==
    LET start == IF size = Cap THEN head ELSE 0
    IN  [i \in 1..size |-> buf[(start + i - 1) % Cap]]

(***************************************************************************)
(* LoadFile fills an empty ring with the newest samples of the file; a     *)
(* missing file, or one that cannot be read or parsed, leaves it empty.    *)
(***************************************************************************)
EmptyRing == [buf |-> [i \in 0..(Cap - 1) |-> 0], head |-> 0, size |-> 0]

\* Mutant: head is not wrapped after filling the ring.
Loaded_NoWrap(data) ==
    LET first == IF Len(data) > Cap THEN Len(data) - Cap ELSE 0
        n == Len(data) - first
    IN  [buf |-> [i \in 0..(Cap - 1) |->
                    IF i < n THEN data[first + i + 1] ELSE 0],
         head |-> n,
         size |-> n]

Loaded(data) ==
    LET first == IF Len(data) > Cap THEN Len(data) - Cap ELSE 0
        n == Len(data) - first
    IN  [buf |-> [i \in 0..(Cap - 1) |->
                    IF i < n THEN data[first + i + 1] ELSE 0],
         head |-> n % Cap,
         size |-> n]

LoadResults(data) ==
    {EmptyRing} \cup IF data \in {None, Torn} THEN {} ELSE {Loaded(data)}

Init ==
    /\ \E n \in 0..MaxFile :
         /\ file \in {None, [i \in 1..n |-> i]}
         /\ next = n + 1
    /\ \E r \in LoadResults(file) : buf = r.buf /\ head = r.head /\ size = r.size
    /\ saver = [s \in Savers |-> "idle"]
    /\ snap = [s \in Savers |-> None]
    /\ tmp = None
    /\ stopping = FALSE
    /\ crashes = 0

-----------------------------------------------------------------------------
\* Mutant: head stops moving when the ring is full.
Add_HeadStops ==
    /\ next <= MaxSamples + MaxFile
    /\ saver[Final] = "idle"
    /\ next' = next + 1
    /\ buf' = [buf EXCEPT ![head] = next]
    /\ head' = IF size < Cap THEN (head + 1) % Cap ELSE head
    /\ size' = IF size < Cap THEN size + 1 ELSE size
    /\ UNCHANGED <<saver, snap, tmp, file, stopping, crashes>>

(***************************************************************************)
(* Ring.Add, called by the poller after each successful sample; main waits *)
(* for the poller before its last save.  (It stops waiting after five      *)
(* seconds; that is not modelled.)                                         *)
(***************************************************************************)
Add ==
    /\ next <= MaxSamples + MaxFile
    /\ saver[Final] = "idle"
    /\ next' = next + 1
    /\ buf' = [buf EXCEPT ![head] = next]
    /\ head' = (head + 1) % Cap
    /\ size' = IF size < Cap THEN size + 1 ELSE size
    /\ UNCHANGED <<saver, snap, tmp, file, stopping, crashes>>

\* Mutant: main's last save does not wait for the ticker.
MaySave_NoWait(s) == s = Final => stopping

(***************************************************************************)
(* SaveFile.  main saves once, when the history-save goroutine has ended.  *)
(* A select with both a tick and the cancellation ready takes either, so   *)
(* the goroutine may still save after main has cancelled it.               *)
(***************************************************************************)
MaySave(s) == s = Final => saver[Ticker] = "done"

TakeSnapshot(s) ==
    /\ saver[s] = "idle"
    /\ MaySave(s)
    /\ saver' = [saver EXCEPT ![s] = "snapped"]
    /\ snap' = [snap EXCEPT ![s] = Snapshot]
    /\ UNCHANGED <<ring, next, tmp, file, stopping, crashes>>

\* The temporary file is truncated, then filled.
BeginWrite(s) ==
    /\ saver[s] = "snapped"
    /\ saver' = [saver EXCEPT ![s] = "writing"]
    /\ tmp' = Torn
    /\ UNCHANGED <<ring, next, snap, file, stopping, crashes>>

EndWrite(s) ==
    /\ saver[s] = "writing"
    /\ saver' = [saver EXCEPT ![s] = "written"]
    /\ tmp' = snap[s]
    /\ UNCHANGED <<ring, next, snap, file, stopping, crashes>>

Finished(s) == IF s = Final THEN "done" ELSE "idle"

Rename(s) ==
    /\ saver[s] = "written"
    /\ saver' = [saver EXCEPT ![s] = Finished(s)]
    /\ snap' = [snap EXCEPT ![s] = None]
    /\ file' = tmp
    /\ tmp' = None
    /\ UNCHANGED <<ring, next, stopping, crashes>>

\* A step of SaveFile fails: what it has written of the temporary file stays.
SaveFails(s) ==
    /\ saver[s] \in {"snapped", "writing", "written"}
    /\ saver' = [saver EXCEPT ![s] = Finished(s)]
    /\ snap' = [snap EXCEPT ![s] = None]
    /\ UNCHANGED <<ring, next, tmp, file, stopping, crashes>>

Shutdown ==
    /\ ~stopping
    /\ stopping' = TRUE
    /\ UNCHANGED <<ring, next, saver, snap, tmp, file, crashes>>

TickerEnds ==
    /\ stopping
    /\ saver[Ticker] = "idle"
    /\ saver' = [saver EXCEPT ![Ticker] = "done"]
    /\ UNCHANGED <<ring, next, snap, tmp, file, stopping, crashes>>

\* The process dies, or ends, and is started again.
Restart ==
    /\ crashes < MaxCrashes
    /\ crashes' = crashes + 1
    /\ \E r \in LoadResults(file) :
         buf' = r.buf /\ head' = r.head /\ size' = r.size
    /\ saver' = [s \in Savers |-> "idle"]
    /\ snap' = [s \in Savers |-> None]
    /\ stopping' = FALSE
    /\ UNCHANGED <<next, tmp, file>>

Next ==
    \/ Add
    \/ \E s \in Savers :
         \/ TakeSnapshot(s)
         \/ BeginWrite(s)
         \/ EndWrite(s)
         \/ Rename(s)
         \/ SaveFails(s)
    \/ Shutdown
    \/ TickerEnds
    \/ Restart

Spec == Init /\ [][Next]_vars

-----------------------------------------------------------------------------
\* Properties

(***************************************************************************)
(* The ring, its file and the savers implement the bounded log: a sample   *)
(* is never lost, doubled or reordered before Cap newer ones have come,    *)
(* wherever head stands, a copy is stored whole or not at all, and a       *)
(* restart keeps the newest samples of a file that may be longer than the  *)
(* ring.                                                                   *)
(***************************************************************************)
Log == INSTANCE BoundedLog WITH log <- Snapshot, stored <- file, taken <- snap

LogSpec == Log!Spec

(***************************************************************************)
(* The newest sample on disk never becomes an older one: a delayed save    *)
(* does not overwrite a later one.                                         *)
(***************************************************************************)
LastSample(data) ==
    IF data = None \/ data = <<>> THEN 0 ELSE data[Len(data)]

StoredMovesForward ==
    [][file' = None \/ file' = <<>> \/ LastSample(file') >= LastSample(file)]_vars
=============================================================================
