------------------------- MODULE HistoryRingProofs -------------------------
(***************************************************************************)
(* Proofs about HistoryRing, for any capacity of the ring, any number of   *)
(* samples and crashes and any length of the file of an earlier run: the   *)
(* ring, its file and the savers implement BoundedLog.                     *)
(***************************************************************************)
EXTENDS HistoryRing, SequenceTheorems, TLAPS

-----------------------------------------------------------------------------
\* Arithmetic of the ring's indices

LEMMA ModBelow ==
  ASSUME NEW c \in Nat \ {0}, NEW x \in 0..(c - 1)
  PROVE  x % c = x
  OBVIOUS

LEMMA ModAbove ==
  ASSUME NEW c \in Nat \ {0}, NEW x \in c..(2 * c - 1)
  PROVE  x % c = x - c
  OBVIOUS

-----------------------------------------------------------------------------
\* Facts about what the log keeps

LEMMA NewestShort ==
  ASSUME NEW s, Len(s) <= Cap
  PROVE  Log!Newest(s) = s
  BY DEF Log!Newest

LEMMA NewestLong ==
  ASSUME NEW s \in Seq(Samples), Len(s) > Cap
  PROVE  /\ Log!Newest(s) \in Seq(Samples)
         /\ Len(Log!Newest(s)) = Cap
         /\ \A i \in 1..Cap : Log!Newest(s)[i] = s[Len(s) - Cap + i]
  BY RingAssumption DEF Log!Newest

\* A sequence is determined by its length and elements.
LEMMA SameSeq ==
  ASSUME NEW s \in Seq(Samples), NEW t \in Seq(Samples), Len(s) = Len(t),
         \A i \in 1..Len(s) : s[i] = t[i]
  PROVE  s = t
  BY SeqEqual

\* No snapshot of the ring and no file that was read is mistaken for its absence.
LEMMA NoneIsNoData == None \notin Seq(Samples) /\ Torn \notin Seq(Samples) /\ Samples \subseteq Nat
<1>1. Samples \subseteq 0..(MaxSamples + MaxFile) /\ Samples \subseteq Nat
  BY RingAssumption DEF Samples
<1>2. Seq(Samples) \subseteq Seq(0..(MaxSamples + MaxFile))
  BY <1>1, SeqMonotonic
<1>3. Torn \notin Seq(Samples)
  <2>1. Len(Torn) = 1 /\ Torn[1] = 0 /\ 0 \notin Samples
    BY DEF Torn, Samples
  <2>2. SUFFICES ASSUME Torn \in Seq(Samples) PROVE FALSE
    OBVIOUS
  <2>3. Torn[1] \in Samples
    BY <2>1, <2>2, LenProperties
  <2> QED BY <2>1, <2>3
<1> QED BY <1>1, <1>2, <1>3, RingAssumption

\* The newest sample stays the newest when older ones are dropped.
LEMMA LastOfNewest ==
  ASSUME NEW s \in Seq(Samples)
  PROVE  /\ Log!Newest(s) \in Seq(Samples)
         /\ Log!Newest(s) = <<>> <=> s = <<>>
         /\ LastSample(Log!Newest(s)) = LastSample(s)
<1>1. CASE Len(s) <= Cap
  BY <1>1, NewestShort
<1>2. CASE Len(s) > Cap
  <2>1. /\ Log!Newest(s) \in Seq(Samples) /\ Len(Log!Newest(s)) = Cap
        /\ Log!Newest(s)[Cap] = s[Len(s)]
    BY <1>2, NewestLong, RingAssumption
  <2>2. Log!Newest(s) # <<>> /\ s # <<>> /\ Log!Newest(s) # None /\ s # None
    BY <1>2, <2>1, NoneIsNoData, RingAssumption
  <2> QED BY <2>1, <2>2 DEF LastSample
<1> QED BY <1>1, <1>2, RingAssumption

-----------------------------------------------------------------------------
(***************************************************************************)
(* The ring as a log.  The filled slots hold samples, so that a snapshot   *)
(* is a sequence of samples; adding one and loading a file are what they   *)
(* are for the log, wherever head stands.                                  *)
(***************************************************************************)
RingOK ==
    /\ buf \in [0..(Cap - 1) -> Samples \cup {0}]
    /\ head \in 0..(Cap - 1)
    /\ size \in 0..Cap
    /\ size < Cap => head = size
    /\ \A j \in 0..(Cap - 1) : j < size => buf[j] \in Samples

\* The slot of the i-th sample from the oldest.
Slot(i) == IF size = Cap /\ head + i - 1 >= Cap THEN head + i - 1 - Cap
           ELSE IF size = Cap THEN head + i - 1 ELSE i - 1

SnapshotReads ==
    /\ Snapshot \in Seq(Samples)
    /\ Len(Snapshot) = size
    /\ \A i \in 1..size : Slot(i) \in 0..(Cap - 1) /\ Slot(i) < size /\ Snapshot[i] = buf[Slot(i)]

LEMMA SnapshotSlots == RingOK => SnapshotReads
<1> SUFFICES ASSUME RingOK PROVE SnapshotReads
  OBVIOUS
<1> DEFINE start == IF size = Cap THEN head ELSE 0
<1>0. Snapshot = [i \in 1..size |-> buf[(start + i - 1) % Cap]]
  BY DEF Snapshot
<1>1. ASSUME NEW i \in 1..size
      PROVE  Slot(i) \in 0..(Cap - 1) /\ Slot(i) < size /\ (start + i - 1) % Cap = Slot(i)
  <2>0. /\ Cap \in Nat \ {0} /\ i \in Nat /\ i >= 1 /\ i <= size
        /\ head \in Nat /\ head < Cap /\ size \in Nat /\ size <= Cap
    BY RingAssumption DEF RingOK
  <2>1. CASE size # Cap
    <3>1. start + i - 1 \in 0..(Cap - 1) /\ Slot(i) = start + i - 1 /\ Slot(i) < size
      BY <2>0, <2>1 DEF Slot
    <3> QED BY <2>0, <3>1, ModBelow
  <2>2. CASE size = Cap /\ head + i - 1 < Cap
    <3>1. start + i - 1 \in 0..(Cap - 1) /\ Slot(i) = start + i - 1
      BY <2>0, <2>2 DEF Slot
    <3> QED BY <2>0, <2>2, <3>1, ModBelow
  <2>3. CASE size = Cap /\ head + i - 1 >= Cap
    <3>1. start + i - 1 \in Cap..(2 * Cap - 1) /\ Slot(i) = start + i - 1 - Cap
          /\ Slot(i) \in 0..(Cap - 1)
      BY <2>0, <2>3 DEF Slot
    <3> QED BY <2>0, <2>3, <3>1, ModAbove
  <2> QED BY <2>0, <2>1, <2>2, <2>3
<1> HIDE DEF start
<1>2. \A i \in 1..size : buf[(start + i - 1) % Cap] \in Samples
  BY <1>1 DEF RingOK
<1>3. size \in Nat
  BY RingAssumption DEF RingOK
<1>4. Snapshot \in Seq(Samples) /\ Len(Snapshot) = size
  BY <1>0, <1>2, <1>3
<1> QED BY <1>0, <1>1, <1>4 DEF SnapshotReads

LEMMA AddToRing ==
  ASSUME RingOK, Add, next \in 1..(MaxSamples + MaxFile)
  PROVE  RingOK' /\ Snapshot' = Log!Newest(Append(Snapshot, next))
<1>0. next \in Samples /\ Cap \in Nat \ {0}
  BY RingAssumption DEF Samples
<1>1. /\ buf' = [buf EXCEPT ![head] = next] /\ head' = (head + 1) % Cap
      /\ size' = IF size < Cap THEN size + 1 ELSE size
  BY DEF Add
<1>2. head' = IF head = Cap - 1 THEN 0 ELSE head + 1
  <2>1. CASE head = Cap - 1
    <3>1. head + 1 \in Cap..(2 * Cap - 1) /\ head + 1 - Cap = 0
      BY <1>0, <2>1
    <3> QED BY <1>0, <1>1, <2>1, <3>1, ModAbove
  <2>2. CASE head # Cap - 1
    <3>1. head + 1 \in 0..(Cap - 1)
      BY <1>0, <2>2 DEF RingOK
    <3> QED BY <1>0, <1>1, <2>2, <3>1, ModBelow
  <2> QED BY <2>1, <2>2
<1>3. RingOK'
  BY <1>0, <1>1, <1>2 DEF RingOK
<1>4. SnapshotReads /\ SnapshotReads'
  BY <1>3, SnapshotSlots, PTL
<1> DEFINE longer == Append(Snapshot, next)
<1>5. /\ longer \in Seq(Samples) /\ Len(longer) = size + 1
      /\ \A i \in 1..size : longer[i] = buf[Slot(i)]
      /\ longer[size + 1] = next
  <2>1. /\ longer \in Seq(Samples) /\ Len(longer) = Len(Snapshot) + 1
        /\ \A i \in 1..Len(Snapshot) : longer[i] = Snapshot[i]
        /\ longer[Len(Snapshot) + 1] = next
    BY <1>0, <1>4, AppendProperties DEF SnapshotReads
  <2> QED BY <1>4, <2>1 DEF SnapshotReads
<1>6. \A i \in 1..size' : Snapshot'[i] = buf'[Slot(i)']
  BY <1>4 DEF SnapshotReads
<1> HIDE DEF longer
<1>7. CASE size < Cap
  <2>1. /\ size' = size + 1 /\ head = size /\ size \in Nat
        /\ \A i \in 1..(size + 1) : Slot(i)' = i - 1
    BY <1>0, <1>1, <1>2, <1>7 DEF RingOK, Slot
  <2>2. \A i \in 1..size : Slot(i) = i - 1
    BY <1>7 DEF RingOK, Slot
  <2>3. \A i \in 1..(size + 1) : Snapshot'[i] = longer[i]
    BY <1>1, <1>5, <1>6, <2>1, <2>2 DEF RingOK
  <2>4. Log!Newest(longer) = longer
    BY <1>0, <1>5, <1>7, <2>1, NewestShort
  <2>5. Snapshot' = longer
    BY <1>4, <1>5, <2>1, <2>3, SameSeq DEF SnapshotReads
  <2> QED BY <1>3, <2>4, <2>5 DEF longer
<1>8. CASE size = Cap
  <2>1. /\ size' = Cap /\ Len(longer) = Cap + 1
        /\ Log!Newest(longer) \in Seq(Samples) /\ Len(Log!Newest(longer)) = Cap
        /\ \A i \in 1..Cap : Log!Newest(longer)[i] = longer[i + 1]
    BY <1>0, <1>1, <1>5, <1>8, NewestLong
  <2>2. \A i \in 1..Cap : Slot(i)' = IF i = Cap THEN head ELSE Slot(i + 1)
    BY <1>0, <1>2, <1>8, <2>1 DEF RingOK, Slot
  <2>3. \A i \in 1..(Cap - 1) : Slot(i + 1) \in 0..(Cap - 1) /\ Slot(i + 1) # head
    BY <1>0, <1>8 DEF RingOK, Slot
  <2>4. \A i \in 1..Cap : Snapshot'[i] = longer[i + 1]
    <3> SUFFICES ASSUME NEW i \in 1..Cap PROVE Snapshot'[i] = longer[i + 1]
      OBVIOUS
    <3>1. CASE i = Cap
      BY <1>0, <1>1, <1>5, <1>6, <1>8, <2>1, <2>2, <3>1 DEF RingOK
    <3>2. CASE i # Cap
      <4>1. i \in 1..(Cap - 1) /\ i + 1 \in 1..size
        BY <1>0, <1>8, <3>2
      <4>2. Snapshot'[i] = buf'[Slot(i + 1)] /\ buf'[Slot(i + 1)] = buf[Slot(i + 1)]
        BY <1>1, <1>6, <2>1, <2>2, <2>3, <3>2, <4>1 DEF RingOK
      <4> QED BY <1>5, <4>1, <4>2
    <3> QED BY <3>1, <3>2
  <2>5. Snapshot' = Log!Newest(longer)
    BY <1>4, <2>1, <2>4, SameSeq DEF SnapshotReads
  <2> QED BY <1>3, <2>5 DEF longer
<1> QED BY <1>7, <1>8, RingAssumption DEF RingOK

\* LoadFile fills the ring with what a log keeps of the file.
RingIs(r) == buf = r.buf /\ head = r.head /\ size = r.size

LoadReads ==
    /\ \A data \in Seq(Samples) :
          RingIs(Loaded(data)) => RingOK /\ Snapshot = Log!Newest(data)
    /\ RingIs(EmptyRing) => RingOK /\ Snapshot = <<>>

LEMMA LoadRing ==
  ASSUME NEW data \in Seq(Samples), RingIs(Loaded(data))
  PROVE  RingOK /\ Snapshot = Log!Newest(data)
<1> DEFINE first == IF Len(data) > Cap THEN Len(data) - Cap ELSE 0
           n == Len(data) - first
<1>0. /\ Cap \in Nat \ {0} /\ Len(data) \in Nat /\ first \in Nat /\ n \in 0..Cap
      /\ n < Cap => first = 0
      /\ \A i \in 1..n : data[first + i] \in Samples
  BY RingAssumption, LenProperties
<1>1. /\ buf = [i \in 0..(Cap - 1) |-> IF i < n THEN data[first + i + 1] ELSE 0]
      /\ head = n % Cap /\ size = n
  BY DEF Loaded, RingIs
<1>2. head = IF n = Cap THEN 0 ELSE n
  <2>1. CASE n = Cap
    <3>1. n \in Cap..(2 * Cap - 1) /\ n - Cap = 0
      BY <1>0, <2>1
    <3> QED BY <1>0, <1>1, <2>1, <3>1, ModAbove
  <2>2. CASE n # Cap
    <3>1. n \in 0..(Cap - 1)
      BY <1>0, <2>2
    <3> QED BY <1>0, <1>1, <2>2, <3>1, ModBelow
  <2> QED BY <2>1, <2>2
<1> HIDE DEF first, n
<1>3. \A i \in 1..n : i - 1 \in 0..(Cap - 1) /\ buf[i - 1] = data[first + i]
  BY <1>0, <1>1
<1>4. RingOK
  <2>1. ASSUME NEW j \in 0..(Cap - 1), j < n PROVE buf[j] \in Samples
    <3>1. j + 1 \in 1..n /\ (j + 1) - 1 = j
      BY <1>0, <2>1
    <3> QED BY <1>0, <1>3, <3>1
  <2>2. buf \in [0..(Cap - 1) -> Samples \cup {0}]
    <3>1. \A j \in 0..(Cap - 1) : j < n => data[first + j + 1] \in Samples
      BY <1>0, <1>1, <2>1
    <3> QED BY <1>1, <3>1
  <2>3. head \in 0..(Cap - 1) /\ size \in 0..Cap /\ (size < Cap => head = size)
    BY <1>0, <1>1, <1>2
  <2> QED BY <1>1, <2>1, <2>2, <2>3 DEF RingOK
<1>5. SnapshotReads
  BY <1>4, SnapshotSlots
<1>6. \A i \in 1..n : Slot(i) = i - 1
  BY <1>0, <1>1, <1>2 DEF Slot
<1>7. Snapshot \in Seq(Samples) /\ Len(Snapshot) = n /\ \A i \in 1..n : Snapshot[i] = data[first + i]
  <2>1. Snapshot \in Seq(Samples) /\ Len(Snapshot) = n
    BY <1>1, <1>5 DEF SnapshotReads
  <2>2. ASSUME NEW i \in 1..n PROVE Snapshot[i] = data[first + i]
    <3>1. Snapshot[i] = buf[i - 1]
      BY <1>1, <1>5, <1>6 DEF SnapshotReads
    <3> QED BY <1>3, <3>1
  <2> QED BY <2>1, <2>2
<1>8. CASE Len(data) <= Cap
  <2>1. first = 0 /\ n = Len(data)
    BY <1>0, <1>8 DEF first, n
  <2> QED BY <1>0, <1>4, <1>7, <1>8, <2>1, NewestShort, SameSeq
<1>9. CASE Len(data) > Cap
  <2>1. first = Len(data) - Cap /\ n = Cap
    BY <1>0, <1>9 DEF first, n
  <2> QED BY <1>0, <1>4, <1>7, <1>9, <2>1, NewestLong, SameSeq
<1> QED BY <1>0, <1>8, <1>9

LEMMA LoadReadsHolds == LoadReads
<1>1. ASSUME RingIs(EmptyRing) PROVE RingOK /\ Snapshot = <<>>
  <2>1. RingOK
    BY <1>1, RingAssumption DEF RingIs, EmptyRing, RingOK
  <2>2. Len(Snapshot) = 0 /\ Snapshot \in Seq(Samples)
    BY <1>1, <2>1, SnapshotSlots DEF SnapshotReads, RingIs, EmptyRing
  <2> QED BY <2>1, <2>2, EmptySeq, SameSeq
<1> QED BY <1>1, LoadRing DEF LoadReads

-----------------------------------------------------------------------------
(***************************************************************************)
(* The inductive invariant.  At most one saver is inside SaveFile: the     *)
(* last save waits for the ticker to be done.  So the temporary file that  *)
(* is renamed is the saver's own snapshot.  What is on disk is not newer   *)
(* than what is being saved, and that not newer than the ring.             *)
(***************************************************************************)
OneSaver ==
    /\ saver \in [Savers -> SaverStages]
    /\ saver[Final] # "idle" => saver[Ticker] = "done"
    /\ saver[Ticker] = "done" => stopping

Copies ==
    /\ file \in Seq(Samples) \cup {None}
    /\ snap \in [Savers -> Seq(Samples) \cup {None}]
    /\ \A s \in Savers : snap[s] = None <=> saver[s] \in {"idle", "done"}
    /\ \A s \in Savers : saver[s] = "written" => tmp = snap[s]

Moments ==
    /\ next \in 1..(MaxSamples + MaxFile + 1)
    /\ stopping \in BOOLEAN
    /\ crashes \in 0..MaxCrashes

HInv == RingOK /\ OneSaver /\ Copies /\ Moments

LEMMA InitHInv == Init => HInv
<1> SUFFICES ASSUME Init PROVE HInv
  OBVIOUS
<1>1. PICK n \in 0..MaxFile : file \in {None, [i \in 1..n |-> i]} /\ next = n + 1
  BY DEF Init
<1>2. file \in Seq(Samples) \cup {None}
  BY <1>1, RingAssumption DEF Samples
<1>3. RingOK
  <2>1. PICK r \in LoadResults(file) : RingIs(r)
    BY DEF Init, RingIs
  <2>2. r = EmptyRing \/ (file \in Seq(Samples) /\ r = Loaded(file))
    BY <1>2, <2>1 DEF LoadResults
  <2> QED BY <2>1, <2>2, LoadReadsHolds DEF LoadReads
<1>4. OneSaver /\ Copies
  BY <1>2, RingAssumption DEF Init, OneSaver, Copies, Savers, SaverStages
<1>5. Moments
  <2>1. stopping = FALSE /\ crashes = 0
    BY DEF Init
  <2>2. next \in 1..(MaxSamples + MaxFile + 1)
    BY <1>1, RingAssumption
  <2>3. stopping \in BOOLEAN
    BY <2>1
  <2>4. crashes \in 0..MaxCrashes
    BY <2>1, RingAssumption
  <2> QED BY <2>2, <2>3, <2>4 DEF Moments
<1> QED BY <1>3, <1>4, <1>5 DEF HInv

\* A restart begins with the newest samples of the file, or with nothing.
LEMMA RestartRing ==
  ASSUME Copies, Restart
  PROVE  /\ RingOK'
         /\ Snapshot' = <<>> \/ (file # None /\ Snapshot' = Log!Newest(file))
<1>1. PICK r \in LoadResults(file) : buf' = r.buf /\ head' = r.head /\ size' = r.size
  BY DEF Restart
<1>2. r = EmptyRing \/ (file # None /\ file \in Seq(Samples) /\ r = Loaded(file))
  BY <1>1 DEF LoadResults, Copies
<1>3. LoadReads'
  BY LoadReadsHolds, PTL
<1>4. /\ \A data \in Seq(Samples) :
            buf' = Loaded(data).buf /\ head' = Loaded(data).head /\ size' = Loaded(data).size
            => RingOK' /\ Snapshot' = Log!Newest(data)
      /\ buf' = EmptyRing.buf /\ head' = EmptyRing.head /\ size' = EmptyRing.size
            => RingOK' /\ Snapshot' = <<>>
  BY <1>3 DEF LoadReads, RingIs
<1> QED BY <1>1, <1>2, <1>4

LEMMA NextHInv == HInv /\ [Next]_vars => HInv'
<1> SUFFICES ASSUME HInv, [Next]_vars PROVE HInv'
  OBVIOUS
<1>0. RingOK /\ OneSaver /\ Copies /\ Moments /\ None \notin Seq(Samples)
  BY NoneIsNoData DEF HInv
<1> USE RingAssumption
<1>1. CASE Add
  <2>1. RingOK'
    BY <1>0, <1>1, AddToRing DEF Add, Moments
  <2>2. OneSaver' /\ Copies' /\ Moments'
    BY <1>0, <1>1 DEF Add, OneSaver, Copies, Moments
  <2> QED BY <2>1, <2>2 DEF HInv
<1>2. ASSUME NEW s \in Savers, TakeSnapshot(s) PROVE HInv'
  <2>1. Snapshot \in Seq(Samples)
    BY <1>0, SnapshotSlots DEF SnapshotReads
  <2>2. RingOK' /\ Moments'
    BY <1>0, <1>2 DEF TakeSnapshot, ring, RingOK, Moments
  <2>3. OneSaver'
    BY <1>0, <1>2 DEF TakeSnapshot, MaySave, OneSaver, SaverStages, Savers
  <2>4. Copies'
    BY <1>0, <1>2, <2>1 DEF TakeSnapshot, OneSaver, Copies
  <2> QED BY <2>2, <2>3, <2>4 DEF HInv
<1>3. ASSUME NEW s \in Savers, BeginWrite(s) PROVE HInv'
  <2>1. RingOK' /\ Moments'
    BY <1>0, <1>3 DEF BeginWrite, ring, RingOK, Moments
  <2>2. OneSaver'
    BY <1>0, <1>3 DEF BeginWrite, OneSaver, SaverStages, Savers
  <2>3. \A q \in Savers \ {s} : saver[q] # "written"
    BY <1>0, <1>3 DEF BeginWrite, OneSaver, Savers
  <2>4. Copies'
    BY <1>0, <1>3, <2>3 DEF BeginWrite, OneSaver, Copies
  <2> QED BY <2>1, <2>2, <2>4 DEF HInv
<1>4. ASSUME NEW s \in Savers, EndWrite(s) PROVE HInv'
  <2>1. RingOK' /\ Moments'
    BY <1>0, <1>4 DEF EndWrite, ring, RingOK, Moments
  <2>2. OneSaver'
    BY <1>0, <1>4 DEF EndWrite, OneSaver, SaverStages, Savers
  <2>3. \A q \in Savers \ {s} : saver[q] # "written"
    BY <1>0, <1>4 DEF EndWrite, OneSaver, Savers
  <2>4. Copies'
    BY <1>0, <1>4, <2>3 DEF EndWrite, OneSaver, Copies
  <2> QED BY <2>1, <2>2, <2>4 DEF HInv
<1>5. ASSUME NEW s \in Savers, Rename(s) PROVE HInv'
  <2>1. RingOK' /\ Moments'
    BY <1>0, <1>5 DEF Rename, ring, RingOK, Moments
  <2>2. OneSaver'
    BY <1>0, <1>5 DEF Rename, Finished, OneSaver, SaverStages, Savers
  <2>3. \A q \in Savers \ {s} : saver[q] # "written"
    BY <1>0, <1>5 DEF Rename, OneSaver, Savers
  <2>4. Copies'
    BY <1>0, <1>5, <2>3 DEF Rename, Finished, OneSaver, Copies
  <2> QED BY <2>1, <2>2, <2>4 DEF HInv
<1>6. ASSUME NEW s \in Savers, SaveFails(s) PROVE HInv'
  <2>1. RingOK' /\ Moments'
    BY <1>0, <1>6 DEF SaveFails, ring, RingOK, Moments
  <2>2. OneSaver'
    BY <1>0, <1>6 DEF SaveFails, Finished, OneSaver, SaverStages, Savers
  <2>3. Copies'
    BY <1>0, <1>6 DEF SaveFails, Finished, OneSaver, Copies
  <2> QED BY <2>1, <2>2, <2>3 DEF HInv
<1>7. CASE Shutdown
  BY <1>0, <1>7 DEF Shutdown, ring, HInv, RingOK, OneSaver, Copies, Moments
<1>8. CASE TickerEnds
  <2>1. RingOK' /\ Moments'
    BY <1>0, <1>8 DEF TickerEnds, ring, RingOK, Moments
  <2>2. OneSaver'
    BY <1>0, <1>8 DEF TickerEnds, OneSaver, SaverStages, Savers
  <2>3. Copies'
    BY <1>0, <1>8 DEF TickerEnds, OneSaver, Copies, Savers
  <2> QED BY <2>1, <2>2, <2>3 DEF HInv
<1>9. CASE Restart
  <2>1. RingOK'
    BY <1>0, <1>9, RestartRing
  <2>2. OneSaver' /\ Copies'
    BY <1>0, <1>9 DEF Restart, OneSaver, Copies, Savers, SaverStages
  <2>3. Moments'
    <3>1. crashes < MaxCrashes /\ crashes' = crashes + 1 /\ stopping' = FALSE /\ next' = next
      BY <1>9 DEF Restart
    <3>2. stopping' \in BOOLEAN
      BY <3>1
    <3>3. crashes' \in 0..MaxCrashes /\ next' \in 1..(MaxSamples + MaxFile + 1)
      BY <1>0, <3>1 DEF Moments
    <3> QED BY <3>2, <3>3 DEF Moments
  <2> QED BY <2>1, <2>2, <2>3 DEF HInv
<1>10. CASE UNCHANGED vars
  BY <1>0, <1>10 DEF vars, ring, HInv, RingOK, OneSaver, Copies, Moments
<1> QED BY <1>1, <1>2, <1>3, <1>4, <1>5, <1>6, <1>7, <1>8, <1>9, <1>10 DEF Next

(***************************************************************************)
(* The state of the history has the types that TypeOK gives it, for any    *)
(* capacity, and a saver has a snapshot exactly while it is saving.        *)
(***************************************************************************)
THEOREM TypeCorrect == Spec => []TypeOK
<1>1. Init => HInv
  BY InitHInv
<1>2. HInv /\ [Next]_vars => HInv'
  BY NextHInv
<1>3. HInv => TypeOK
  <2> SUFFICES ASSUME HInv PROVE TypeOK
    OBVIOUS
  <2>1. \A s \in Savers : (snap[s] = None) = (saver[s] \in {"idle", "done"})
    BY DEF HInv, Copies
  <2> QED BY <2>1 DEF HInv, RingOK, OneSaver, Moments, TypeOK
<1> QED BY <1>1, <1>2, <1>3, PTL DEF Spec

-----------------------------------------------------------------------------
(***************************************************************************)
(* Refinement.  Each step of the ring, the file or a saver is a step of    *)
(* the bounded log, or none.                                               *)
(***************************************************************************)
LEMMA InitRefines == Init => Log!Init
<1> SUFFICES ASSUME Init PROVE Log!Init
  OBVIOUS
<1>1. HInv
  BY InitHInv
<1>2. PICK r \in LoadResults(file) : RingIs(r)
  BY DEF Init, RingIs
<1>3. r = EmptyRing \/ (file # None /\ file \in Seq(Samples) /\ r = Loaded(file))
  BY <1>1, <1>2 DEF LoadResults, HInv, Copies
<1>4. Snapshot = <<>> \/ (file # None /\ Snapshot = Log!Newest(file))
  BY <1>2, <1>3, LoadReadsHolds DEF LoadReads
<1>5. snap = [s \in Savers |-> None]
  BY DEF Init
<1> QED BY <1>1, <1>4, <1>5 DEF Log!Init, HInv, Copies

LEMMA NextRefines == HInv /\ [Next]_vars => [Log!Next]_(Log!vars)
<1> SUFFICES ASSUME HInv, [Next]_vars PROVE [Log!Next]_(Log!vars)
  OBVIOUS
<1>0. RingOK /\ OneSaver /\ Copies /\ Moments
  BY DEF HInv
<1>a. UNCHANGED ring => Snapshot' = Snapshot
  BY DEF ring, Snapshot
<1>b. UNCHANGED <<ring, file, snap>> => [Log!Next]_(Log!vars)
  BY <1>a DEF Log!vars
<1>1. CASE Add
  <2>1. next \in Samples /\ Snapshot' = Log!Newest(Append(Snapshot, next))
    BY <1>0, <1>1, AddToRing, RingAssumption DEF Add, Moments, Samples
  <2>2. Log!Add(next)
    BY <1>1, <2>1 DEF Add, Log!Add
  <2> QED BY <2>1, <2>2 DEF Log!Next
<1>2. ASSUME NEW s \in Savers, TakeSnapshot(s) PROVE [Log!Next]_(Log!vars)
  <2>1. Log!Take(s)
    BY <1>a, <1>2 DEF TakeSnapshot, Log!Take
  <2> QED BY <2>1 DEF Log!Next
<1>3. ASSUME NEW s \in Savers, BeginWrite(s) \/ EndWrite(s) PROVE [Log!Next]_(Log!vars)
  BY <1>b, <1>3 DEF BeginWrite, EndWrite
<1>4. ASSUME NEW s \in Savers, Rename(s) PROVE [Log!Next]_(Log!vars)
  <2>1. snap[s] # None /\ tmp = snap[s]
    BY <1>0, <1>4 DEF Rename, Copies
  <2>2. Log!Store(s)
    BY <1>a, <1>4, <2>1 DEF Rename, Log!Store
  <2> QED BY <2>2 DEF Log!Next
<1>5. ASSUME NEW s \in Savers, SaveFails(s) PROVE [Log!Next]_(Log!vars)
  <2>1. Log!GiveUp(s)
    BY <1>a, <1>5 DEF SaveFails, Log!GiveUp
  <2> QED BY <2>1 DEF Log!Next
<1>6. CASE Shutdown \/ TickerEnds
  BY <1>b, <1>6 DEF Shutdown, TickerEnds
<1>7. CASE Restart
  <2>1. Snapshot' = <<>> \/ (file # None /\ Snapshot' = Log!Newest(file))
    BY <1>0, <1>7, RestartRing
  <2>2. snap' = [s \in Savers |-> None] /\ file' = file
    BY <1>7 DEF Restart
  <2>3. Log!Restart
    BY <2>1, <2>2 DEF Log!Restart
  <2> QED BY <2>3 DEF Log!Next
<1>8. CASE UNCHANGED vars
  BY <1>b, <1>8 DEF vars
<1> QED BY <1>1, <1>2, <1>3, <1>4, <1>5, <1>6, <1>7, <1>8 DEF Next

(***************************************************************************)
(* For any capacity, any number of samples and crashes and a file of any   *)
(* length: the history implements the bounded log.  No sample is lost,     *)
(* doubled or reordered before Cap newer ones have come, a copy is stored  *)
(* whole or not at all, and a restart begins with the newest samples of    *)
(* the stored copy, or with nothing.                                       *)
(***************************************************************************)
THEOREM ImplementsLog == Spec => LogSpec
<1>1. Init => HInv /\ Log!Init
  BY InitHInv, InitRefines
<1>2. HInv /\ [Next]_vars => HInv' /\ [Log!Next]_(Log!vars)
  BY NextHInv, NextRefines
<1>3. Spec => Log!Spec
  BY <1>1, <1>2, PTL DEF Spec, Log!Spec
<1> QED BY <1>3 DEF LogSpec

-----------------------------------------------------------------------------
(***************************************************************************)
(* The order of the copies: nothing on disk is newer than what a saver     *)
(* holds, and nothing a saver holds is newer than the ring.                *)
(***************************************************************************)
NotBehind(s, t) == s # <<>> /\ LastSample(s) >= LastSample(t)

Ordered ==
    /\ LastSample(file) < next
    /\ LastSample(Snapshot) < next
    /\ Snapshot # <<>> => LastSample(Snapshot) >= LastSample(file)
    /\ \A s \in Savers : snap[s] # None /\ snap[s] # <<>> =>
          /\ LastSample(snap[s]) >= LastSample(file)
          /\ NotBehind(Snapshot, snap[s])

LEMMA LastIsSample ==
  ASSUME NEW data \in Seq(Samples) \cup {None}
  PROVE  /\ LastSample(data) \in Nat
         /\ data = None \/ data = <<>> => LastSample(data) = 0
<1>1. CASE data # None /\ data # <<>>
  <2>1. data \in Seq(Samples) /\ data[Len(data)] \in Samples
    BY <1>1, EmptySeq, LenProperties
  <2> QED BY <1>1, <2>1, NoneIsNoData DEF LastSample
<1> QED BY <1>1 DEF LastSample

\* Adding a sample makes it the newest of the ring.
LEMMA LastOfAdded ==
  ASSUME NEW s \in Seq(Samples), NEW n \in Samples
  PROVE  Log!Newest(Append(s, n)) # <<>> /\ LastSample(Log!Newest(Append(s, n))) = n
<1> DEFINE longer == Append(s, n)
<1>1. longer \in Seq(Samples) /\ Len(longer) = Len(s) + 1 /\ longer[Len(longer)] = n
  BY AppendProperties
<1>2. longer # <<>> /\ longer # None
  BY <1>1, NoneIsNoData
<1>3. LastSample(longer) = n
  BY <1>1, <1>2 DEF LastSample
<1> QED BY <1>1, <1>2, <1>3, LastOfNewest

LEMMA SnapshotIsLog == RingOK => Snapshot \in Seq(Samples)
  BY SnapshotSlots DEF SnapshotReads

LEMMA InitOrdered == Init => Ordered
<1> SUFFICES ASSUME Init PROVE Ordered
  OBVIOUS
<1>0. HInv /\ Log!Init
  BY InitHInv, InitRefines
<1>1. PICK n \in 0..MaxFile : file \in {None, [i \in 1..n |-> i]} /\ next = n + 1
  BY DEF Init
<1>2. LastSample(file) < next /\ LastSample(file) \in Nat
  <2>1. CASE file = None
    BY <1>1, <2>1 DEF LastSample
  <2>2. CASE file # None
    <3>1. Len(file) = n /\ \A i \in 1..n : file[i] = i
      BY <1>1, <2>2
    <3>2. CASE n = 0
      <4>1. file = <<>>
        BY <1>1, <2>2, <3>2
      <4> QED BY <1>1, <4>1 DEF LastSample
    <3>3. CASE n # 0
      <4>1. file # <<>> /\ file[Len(file)] = n
        BY <3>1, <3>3, RingAssumption
      <4> QED BY <1>1, <2>2, <4>1 DEF LastSample
    <3> QED BY <3>2, <3>3
  <2> QED BY <2>1, <2>2
<1>3. Snapshot = <<>> \/ LastSample(Snapshot) = LastSample(file)
  <2>1. Snapshot = <<>> \/ (file \in Seq(Samples) /\ Snapshot = Log!Newest(file))
    BY <1>0 DEF Log!Init, HInv, Copies
  <2> QED BY <2>1, LastOfNewest
<1>4. LastSample(<<>>) = 0
  BY DEF LastSample
<1>5. snap = [s \in Savers |-> None]
  BY DEF Init
<1> QED BY <1>1, <1>2, <1>3, <1>4, <1>5, RingAssumption DEF Ordered

LEMMA NextOrdered == HInv /\ Ordered /\ [Next]_vars => Ordered'
<1> SUFFICES ASSUME HInv, Ordered, [Next]_vars PROVE Ordered'
  OBVIOUS
<1>0. /\ RingOK /\ OneSaver /\ Copies /\ Moments /\ Snapshot \in Seq(Samples)
      /\ file \in Seq(Samples) \cup {None}
      /\ next \in Nat /\ LastSample(Snapshot) \in Nat /\ LastSample(file) \in Nat
  <2>1. RingOK /\ OneSaver /\ Copies /\ Moments
    BY DEF HInv
  <2>2. Snapshot \in Seq(Samples) /\ file \in Seq(Samples) \cup {None}
    BY <2>1, SnapshotIsLog DEF Copies
  <2>3. next \in Nat
    BY <2>1, RingAssumption DEF Moments
  <2> QED BY <2>1, <2>2, <2>3, LastIsSample
<1>a. UNCHANGED ring => Snapshot' = Snapshot
  BY DEF ring, Snapshot
<1>b. ASSUME NEW s \in Savers PROVE LastSample(snap[s]) \in Nat
  <2>1. PICK t \in Seq(Samples) \cup {None} : t = snap[s]
    BY <1>0 DEF Copies
  <2> QED BY <2>1, LastIsSample
<1>c. UNCHANGED <<ring, next, file, snap>> => Ordered'
  BY <1>a DEF Ordered, NotBehind
<1>1. CASE Add
  <2>1. next \in Samples /\ Snapshot' = Log!Newest(Append(Snapshot, next))
    BY <1>0, <1>1, AddToRing, RingAssumption DEF Add, Moments, Samples
  <2>2. PICK old \in Seq(Samples), n \in Samples : old = Snapshot /\ n = next
    BY <1>0, <2>1
  <2>3. Snapshot' # <<>> /\ LastSample(Snapshot') = n
    BY <2>1, <2>2, LastOfAdded
  <2>4. next' = n + 1 /\ file' = file /\ snap' = snap
    BY <1>1, <2>2 DEF Add
  <2>5. ASSUME NEW s \in Savers, snap[s] # None, snap[s] # <<>>
        PROVE  LastSample(snap[s]) >= LastSample(file) /\ LastSample(snap[s]) <= n
    BY <1>0, <1>b, <2>2, <2>5 DEF Ordered, NotBehind
  <2> QED BY <1>0, <2>2, <2>3, <2>4, <2>5 DEF Ordered, NotBehind
<1>2. ASSUME NEW s \in Savers, TakeSnapshot(s) PROVE Ordered'
  <2>1. /\ Snapshot' = Snapshot /\ next' = next /\ file' = file
        /\ snap' = [snap EXCEPT ![s] = Snapshot]
    BY <1>2, <1>a DEF TakeSnapshot
  <2>2. \A q \in Savers : snap'[q] = IF q = s THEN Snapshot ELSE snap[q]
    BY <1>0, <2>1 DEF Copies
  <2> QED BY <1>0, <2>1, <2>2 DEF Ordered, NotBehind
<1>3. ASSUME NEW s \in Savers, BeginWrite(s) \/ EndWrite(s) PROVE Ordered'
  BY <1>3, <1>c DEF BeginWrite, EndWrite
<1>4. ASSUME NEW s \in Savers, Rename(s) PROVE Ordered'
  <2>1. /\ Snapshot' = Snapshot /\ next' = next /\ file' = snap[s]
        /\ snap' = [snap EXCEPT ![s] = None] /\ snap[s] # None
    BY <1>0, <1>4, <1>a DEF Rename, Copies
  <2>2. \A q \in Savers : snap'[q] = None
    <3>1. \A q \in Savers \ {s} : saver[q] \in {"idle", "done"}
      BY <1>0, <1>4 DEF Rename, OneSaver, Savers
    <3> QED BY <1>0, <2>1, <3>1 DEF Copies
  <2>3. CASE snap[s] = <<>>
    <3>1. LastSample(file') = 0
      BY <2>1, <2>3 DEF LastSample
    <3> QED BY <1>0, <2>1, <2>2, <2>3, <3>1, RingAssumption DEF Ordered, Moments
  <2>4. CASE snap[s] # <<>>
    <3>1. LastSample(snap[s]) <= LastSample(Snapshot)
      BY <1>0, <1>b, <2>1, <2>4 DEF Ordered, NotBehind
    <3> QED BY <1>0, <1>b, <2>1, <2>2, <3>1 DEF Ordered
  <2> QED BY <2>3, <2>4
<1>5. ASSUME NEW s \in Savers, SaveFails(s) PROVE Ordered'
  <2>1. /\ Snapshot' = Snapshot /\ next' = next /\ file' = file
        /\ snap' = [snap EXCEPT ![s] = None]
    BY <1>5, <1>a DEF SaveFails
  <2>2. \A q \in Savers : snap'[q] = IF q = s THEN None ELSE snap[q]
    BY <1>0, <2>1 DEF Copies
  <2> QED BY <2>1, <2>2 DEF Ordered, NotBehind
<1>6. CASE Shutdown \/ TickerEnds
  BY <1>6, <1>c DEF Shutdown, TickerEnds
<1>7. CASE Restart
  <2>1. Snapshot' = <<>> \/ (file # None /\ Snapshot' = Log!Newest(file))
    BY <1>0, <1>7, RestartRing
  <2>2. snap' = [s \in Savers |-> None] /\ file' = file /\ next' = next
    BY <1>7 DEF Restart
  <2>3. CASE Snapshot' = <<>>
    <3>1. LastSample(Snapshot') = 0
      BY <2>3 DEF LastSample
    <3> QED BY <1>0, <2>2, <2>3, <3>1, RingAssumption DEF Ordered, Moments
  <2>4. CASE file # None /\ Snapshot' = Log!Newest(file)
    <3>1. PICK data \in Seq(Samples) : data = file
      BY <1>0, <2>4
    <3>2. LastSample(Snapshot') = LastSample(file)
      BY <2>4, <3>1, LastOfNewest
    <3> QED BY <1>0, <2>2, <3>2 DEF Ordered
  <2> QED BY <2>1, <2>3, <2>4
<1>8. CASE UNCHANGED vars
  BY <1>8, <1>c DEF vars
<1> QED BY <1>1, <1>2, <1>3, <1>4, <1>5, <1>6, <1>7, <1>8 DEF Next

(***************************************************************************)
(* For any capacity, any number of samples and crashes and a file of any   *)
(* length: the newest sample on disk never becomes an older one.  A saver  *)
(* renames its own snapshot, and no other saver took a later one meanwhile.*)
(***************************************************************************)
THEOREM StoredMovesForwardCorrect == Spec => StoredMovesForward
<1> DEFINE Forward == file' = None \/ file' = <<>> \/ LastSample(file') >= LastSample(file)
<1>1. Init => HInv /\ Ordered
  BY InitHInv, InitOrdered
<1>2. HInv /\ Ordered /\ [Next]_vars => HInv' /\ Ordered'
  BY NextHInv, NextOrdered
<1>3. HInv /\ Ordered /\ [Next]_vars => [Forward]_vars
  <2> SUFFICES ASSUME HInv, Ordered, [Next]_vars PROVE Forward
    OBVIOUS
  <2>1. ASSUME NEW s \in Savers, Rename(s) PROVE Forward
    <3>1. file' = snap[s] /\ snap[s] # None
      BY <2>1 DEF Rename, HInv, Copies
    <3> QED BY <3>1 DEF Ordered
  <2>2. CASE file' = file
    <3>1. PICK data \in Seq(Samples) \cup {None} : data = file
      BY DEF HInv, Copies
    <3>2. LastSample(file) \in Nat
      BY <3>1, LastIsSample
    <3> QED BY <2>2, <3>2
  <2>3. file' = file \/ \E s \in Savers : Rename(s)
    BY DEF Next, vars, Add, TakeSnapshot, BeginWrite, EndWrite, SaveFails, Shutdown,
           TickerEnds, Restart
  <2> QED BY <2>1, <2>2, <2>3
<1> HIDE DEF Forward
<1>4. Spec => [][Forward]_vars
  BY <1>1, <1>2, <1>3, PTL DEF Spec
<1> QED BY <1>4 DEF StoredMovesForward, Forward
=============================================================================
